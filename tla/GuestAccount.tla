----------------------------- MODULE GuestAccount -----------------------------
(***************************************************************************)
(* The guest's account page, components/GuestAccountPage.tsx: bookings are *)
(* looked up by e-mail with the access tokens of this browser; payment,    *)
(* cancellation terms and in-stay services are asked for row by row.       *)
(***************************************************************************)
EXTENDS GuestApi

CONSTANTS
    NoEmail,        \* the field is empty
    MaxLoads,       \* bound: searches in flight
    MaxRowCalls     \* bound: other requests in flight

Shown == ReservationStatus \cup {"absent"}
Details == { "payment", "terms", "inStay" }
Load == [ ids : SUBSET Ids, live : BOOLEAN, kept : BOOLEAN,
          answer : [ Ids -> Shown ] \cup {NoAnswer} ]
RowCall == [ op : Details \cup { "cancel", "inStayAll" }, ids : SUBSET Ids,
             email : Emails \cup {NoEmail},
             answer : {NoAnswer, "done"} ]

ASSUME AccountAssumption ==
    /\ NoEmail \notin Emails
    /\ NoAnswer \notin [ Ids -> Shown ] /\ NoAnswer # "done"
    /\ { MaxLoads, MaxRowCalls } \subseteq Nat

VARIABLES
    email,      \* the field
    loading,
    items,      \* items[r]: the status in r's row, or "absent"
    busy,       \* busyReservationId
    inStayBusy, \* inStayBusyReservationId
    loads,      \* searches in flight
    rowCalls    \* requests of mounted rows in flight

accountVars == << email, loading, items, busy, inStayBusy,
                  loads, rowCalls >>
NoItems == [ r \in Ids |-> "absent" ]

AccountTypeOK ==
    /\ email \in Emails \cup {NoEmail}
    /\ loading \in BOOLEAN
    /\ items \in [ Ids -> Shown ]
    /\ { busy, inStayBusy } \subseteq Ids \cup {NoId}
    /\ loads \in Seq(Load) /\ Len(loads) <= MaxLoads
    /\ rowCalls \in Seq(RowCall) /\ Len(rowCalls) <= MaxRowCalls

----------------------------------------------------------------------------
OnAccount == at.page = "account"
Rows == { r \in Ids : items[r] # "absent" }
InStay(status) == status \in { "confirmed", "checked_in" }

\* The buttons of a row.
RowEnabled(r) == OnAccount /\ r \in Rows /\ busy # r
CancelShown(r) == items[r] \in { "pending_payment", "confirmed" }
InStayEnabled(r) ==
    OnAccount /\ r \in Rows /\ InStay(items[r]) /\ inStayBusy # r
LoadEnabled == OnAccount /\ ~loading

----------------------------------------------------------------------------
\* Searching

\* loadReservations up to its request; without an address or a token of it
\* nothing is asked.
Search(address, tokens) ==
    IF address = NoEmail
    THEN UNCHANGED << loading, items, loads >>
    ELSE IF tokens = {}
    THEN /\ items' = NoItems
         /\ UNCHANGED << loading, loads >>
    ELSE /\ loading' = TRUE
         /\ loads' = Append(loads, [ ids |-> tokens, live |-> TRUE,
                                     kept |-> FALSE, answer |-> NoAnswer ])
         /\ UNCHANGED items

PressLoad ==
    /\ LoadEnabled /\ Len(loads) < MaxLoads
    /\ Search(email, TokensFor(store, email))
    /\ UNCHANGED << guestVars, email, busy, inStayBusy, rowCalls >>

TypeEmail(address) ==
    /\ OnAccount /\ email # address
    /\ email' = address
    /\ UNCHANGED << guestVars, loading, items, busy,
                    inStayBusy, loads, rowCalls >>

ServeLoad(i) ==
    /\ loads[i].answer = NoAnswer
    /\ loads' = [ loads EXCEPT ![i].answer =
                    [ r \in Ids |-> IF r \in loads[i].ids /\ Exists(r)
                                    THEN server[r].status ELSE "absent" ] ]
    /\ UNCHANGED << guestVars, email, loading, items, busy,
                    inStayBusy, rowCalls >>

Found(i) == { r \in Ids : loads[i].answer[r] # "absent" }

\* The order in which the backend lists them.
NewestFirst(S) ==
    CHOOSE s \in SetToSeqs(S) : \A i, j \in DOMAIN s : i < j => s[i] > s[j]

\* The tokens are remembered again, wherever the guest is by then; then the
\* listings of the reservations are asked for, one by one.
LoadAnswered(i) ==
    /\ loads[i].answer # NoAnswer /\ ~loads[i].kept
    /\ loads' = [ loads EXCEPT ![i].kept = TRUE ]
    /\ store' = RememberAll(store, NewestFirst(Found(i)))
    /\ UNCHANGED << server, at, nav, email, loading, items, busy, inStayBusy,
                    rowCalls >>

\* All the listings have come, or failed, which is as good; the rows are those
\* of the answer, and the in-stay state of the current stays is asked for
\* without telling anybody.
Eligible(i) == { r \in Found(i) : InStay(loads[i].answer[r]) }

LoadShown(i) ==
    /\ loads[i].kept
    /\ loads' = RemoveAt(loads, i)
    /\ IF loads[i].live
       THEN /\ items' = loads[i].answer
            /\ loading' = FALSE
            /\ Eligible(i) # {} => Len(rowCalls) < MaxRowCalls
            /\ rowCalls' = IF Eligible(i) = {} THEN rowCalls
                           ELSE Append(rowCalls,
                                  [ op |-> "inStayAll", ids |-> Eligible(i),
                                    email |-> email, answer |-> NoAnswer ])
       ELSE UNCHANGED << items, loading, rowCalls >>
    /\ UNCHANGED << guestVars, email, busy, inStayBusy >>

\* It was refused, or it or its answer was lost.
LoadFailed(i) ==
    /\ ~loads[i].kept
    /\ loads' = RemoveAt(loads, i)
    /\ IF loads[i].live
       THEN /\ items' = NoItems
            /\ loading' = FALSE
       ELSE UNCHANGED << items, loading >>
    /\ UNCHANGED << guestVars, email, busy, inStayBusy, rowCalls >>

----------------------------------------------------------------------------
\* Rows

Ask(op, r) ==
    /\ Len(rowCalls) < MaxRowCalls
    /\ rowCalls' = Append(rowCalls, [ op |-> op, ids |-> {r}, email |-> email,
                                      answer |-> NoAnswer ])

\* onCheckPayment, onLoadTerms and onCancel share busyReservationId: the row
\* that was pressed last is the one that is disabled.
PressRow(op, r) ==
    /\ RowEnabled(r)
    /\ op = "cancel" => CancelShown(r)
    /\ op # "payment" => email # NoEmail
    /\ Ask(op, r)
    /\ busy' = r
    /\ UNCHANGED << guestVars, email, loading, items,
                    inStayBusy, loads >>

PressInStay(r) ==
    /\ InStayEnabled(r)
    /\ Ask("inStay", r)
    /\ inStayBusy' = r
    /\ UNCHANGED << guestVars, email, loading, items, busy,
                    loads >>

\* cancel_reservation_by_guest_email wants the address of the reservation.
ServeCancel(i) ==
    /\ rowCalls[i].op = "cancel" /\ rowCalls[i].answer = NoAnswer
    /\ \E r \in rowCalls[i].ids :
         /\ Exists(r) /\ EmailOf[r] = rowCalls[i].email
         /\ \/ server[r].status = "cancelled" /\ UNCHANGED server
            \/ /\ CanCancel(server[r])
               /\ \E row \in Cancelled(server[r]) :
                     server' = [ server EXCEPT ![r] = row ]
    /\ rowCalls' = [ rowCalls EXCEPT ![i].answer = "done" ]
    /\ UNCHANGED << store, at, nav, email, loading, items,
                    busy, inStayBusy, loads >>

FreesRow(i) == rowCalls[i].op \in { "payment", "terms", "cancel" }
FreesInStay(i) == rowCalls[i].op = "inStay"

\* Mutant: the row is freed when the request succeeded.
BusyAfterSuccess(i, ok) == IF FreesRow(i) /\ ok THEN NoId ELSE busy

\* The finally of the three handlers frees whatever row is disabled.
BusyAfter(i, ok) == IF FreesRow(i) THEN NoId ELSE busy

\* Only a row that is shown by now can take the answer to a cancellation; the
\* other answers add to what is shown below the row.
RowAnswered(i, ok) ==
    /\ ok /\ rowCalls[i].op = "cancel" => rowCalls[i].answer = "done"
    /\ rowCalls' = RemoveAt(rowCalls, i)
    /\ busy' = BusyAfter(i, ok)
    /\ inStayBusy' = IF FreesInStay(i) THEN NoId ELSE inStayBusy
    /\ items' = [ r \in Ids |->
                    IF ok /\ rowCalls[i].op = "cancel"
                         /\ r \in rowCalls[i].ids \cap Rows
                    THEN "cancelled" ELSE items[r] ]
    /\ UNCHANGED << guestVars, email, loading, loads >>

----------------------------------------------------------------------------
\* Coming and going

\* The links of a row and of the page: the stay, the same stay again, home.
LeaveAccount ==
    /\ OnAccount
    /\ \/ Go("home", EmptyUrl)
       \/ Rows # {} /\ (Go("stay", EmptyUrl) \/ Go("checkout", EmptyUrl))
    /\ UNCHANGED << server, store, at, accountVars >>

OpenAccount ==
    /\ at.page \in { "home", "stay" }
    /\ Go("account", EmptyUrl)
    /\ UNCHANGED << server, store, at, accountVars >>

\* What an unmounted row still asks of the backend is only a cancellation, and
\* the partner's (PartnerDecides) is as good: it is forgotten.
UnmountedLoads == [ i \in DOMAIN loads |-> [ loads[i] EXCEPT !.live = FALSE ] ]

\* The mount effect: the reservation of the query is remembered and the guest
\* looked up, or the address that was used last.
\* The address of the saved profile is only filled in, nobody is looked up.
Address(url) == IF url.id # NoId THEN {EmailOf[url.id]} ELSE Emails \cup {NoEmail}
Entered(url) == IF url.id # NoId /\ url.token THEN Remember(store, url.id)
                ELSE store

AccountArrives(page) ==
    IF page = "account" /\ at.page # "account"
    THEN /\ Len(loads) < MaxLoads
         /\ email' \in Address(nav.url)
         /\ store' = Entered(nav.url)
         /\ LET tokens == TokensFor(store', email')
            IN  /\ loading' \in IF email' = NoEmail \/ tokens = {} THEN {FALSE}
                               ELSE IF nav.url.id = NoId THEN BOOLEAN ELSE {TRUE}
                /\ loads' = IF loading'
                            THEN Append(loads, [ ids |-> tokens, live |-> TRUE,
                                                 kept |-> FALSE,
                                                 answer |-> NoAnswer ])
                            ELSE loads
         /\ UNCHANGED << items, busy, inStayBusy, rowCalls >>
    ELSE IF page = "account"
    THEN UNCHANGED << store, accountVars >>
    ELSE /\ email' = NoEmail
         /\ loading' = FALSE
         /\ items' = NoItems
         /\ busy' = NoId
         /\ inStayBusy' = NoId
         /\ loads' = UnmountedLoads
         /\ rowCalls' = << >>
         /\ UNCHANGED store

----------------------------------------------------------------------------
AccountInit ==
    /\ email = NoEmail
    /\ loading = FALSE
    /\ items = NoItems
    /\ busy = NoId
    /\ inStayBusy = NoId
    /\ loads = << >>
    /\ rowCalls = << >>

AccountNext ==
    \/ PressLoad
    \/ \E address \in Emails \cup {NoEmail} : TypeEmail(address)
    \/ \E i \in DOMAIN loads :
         ServeLoad(i) \/ LoadAnswered(i) \/ LoadShown(i) \/ LoadFailed(i)
    \/ \E r \in Ids :
         \/ \E op \in { "payment", "terms", "cancel" } : PressRow(op, r)
         \/ PressInStay(r)
    \/ \E i \in DOMAIN rowCalls :
         \/ ServeCancel(i)
         \/ \E ok \in BOOLEAN : RowAnswered(i, ok)
    \/ LeaveAccount \/ OpenAccount

----------------------------------------------------------------------------
\* Properties

\* A search says that it runs exactly as long as it does, and a row that is
\* disabled waits for an answer that is still to come: requests of several
\* rows, searches and failures that overlap leave nothing disabled for ever.
BusyIsInFlight ==
    /\ loading <=> \E i \in DOMAIN loads : loads[i].live
    /\ busy # NoId =>
         \E i \in DOMAIN rowCalls : FreesRow(i) /\ busy \in rowCalls[i].ids
    /\ inStayBusy # NoId =>
         \E i \in DOMAIN rowCalls : FreesInStay(i) /\ inStayBusy \in rowCalls[i].ids

\* A browser loses the access to a reservation only to another reservation it
\* did not know: looking bookings up, also twice and also in answers that
\* arrive late, never costs a token.
AccessIsNotTraded ==
    [][ ~(Range(store) \subseteq Range(store'))
          => ~(Range(store') \subseteq Range(store)) ]_store

=============================================================================
