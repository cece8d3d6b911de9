--------------------------- MODULE GuestClientProofs ---------------------------
(***************************************************************************)
(* Theorems about GuestClient, for any number of reservations, requests in *)
(* flight, polls and stored tokens: what the pages carry from one to the   *)
(* next about a payment stays true while the backend goes on.              *)
(***************************************************************************)
EXTENDS GuestClient, TLAPS

\* What the argument needs to know of the types.
PagesTyped ==
    /\ server \in [ Ids -> Row \cup {NoRow} ]
    /\ at \in Location
    /\ nav \in Location \cup {NoPage}
    /\ call \in Call \cup {NoCall}
    /\ redirect \in Location \cup {NoPage}

\* A payment that was received is not started again, and none is in flight.
Closed(row) == Settled(row) => ~row.trying /\ ~CanStart(row)
ReceivedIsClosed == \A r \in Ids : Exists(r) => Closed(server[r])

Received(r) == r \in Ids /\ Exists(r) /\ Settled(server[r])

\* A query, or an answer, that says "paid" is true ...
True(url) == url.money = "paid" => Received(url.id)

\* ... wherever it is: in the address, on its way there, waiting for the timer
\* of the redirect, or in the hands of onPay.
NothingFalse ==
    /\ True(at.url)
    /\ nav # NoPage => True(nav.url)
    /\ redirect # NoPage => True(redirect.url)
    /\ call # NoCall => (call.answer = "paid" => Received(call.url.id))

\* The payment page and what it awaits name a reservation: Landings sends a
\* query that names none home.
PaymentsNamed ==
    /\ at.page = "payment" => at.url.id \in Ids
    /\ call # NoCall => call.url.id \in Ids

PaidInv == PagesTyped /\ ReceivedIsClosed /\ NothingFalse /\ PaymentsNamed

----------------------------------------------------------------------------
\* The backend

\* What a handler of the backend may do to the rows.
ServerKeeps ==
    /\ server' \in [ Ids -> Row \cup {NoRow} ]
    /\ ReceivedIsClosed'
    /\ \A r \in Ids : Received(r) => Received(r)'

\* A row is written.
LEMMA RowWritten ==
    ASSUME PagesTyped, ReceivedIsClosed,
           NEW r \in Ids, NEW row \in Row,
           server' = [ server EXCEPT ![r] = row ],
           Closed(row),
           Exists(r) /\ Settled(server[r]) => Settled(row)
    PROVE  ServerKeeps
<1>1. server' \in [ Ids -> Row \cup {NoRow} ]
  BY DEF PagesTyped
<1>2. ReceivedIsClosed'
  <2> SUFFICES ASSUME NEW q \in Ids, Exists(q)' PROVE Closed(server'[q])
    BY DEF ReceivedIsClosed, Closed, Settled, CanStart
  <2>1. server'[q] = IF q = r THEN row ELSE server[q]
    BY DEF PagesTyped
  <2> QED
    BY <2>1 DEF ReceivedIsClosed, Exists
<1>3. ASSUME NEW q \in Ids, Received(q) PROVE Received(q)'
  <2>1. server'[q] = IF q = r THEN row ELSE server[q]
    BY DEF PagesTyped
  <2>2. row # NoRow
    BY GuestAssumption
  <2> QED
    BY <1>3, <2>1, <2>2 DEF Received, Exists, Settled
<1> QED
  BY <1>1, <1>2, <1>3 DEF ServerKeeps

LEMMA NothingWritten ==
    ASSUME PagesTyped, ReceivedIsClosed, UNCHANGED server
    PROVE  ServerKeeps
  BY DEF PagesTyped, ReceivedIsClosed, ServerKeeps, Closed, Received, Exists,
         Settled, CanStart

LEMMA RowIsTyped ==
    ASSUME PagesTyped, NEW r, r \in Ids, Exists(r)
    PROVE  server[r] \in Row
  BY DEF PagesTyped, Exists

\* A start, in whosever name: what was received is not asked for again.
LEMMA AttemptStarted ==
    ASSUME PagesTyped, ReceivedIsClosed,
           NEW r \in Ids, Exists(r), CanStart(server[r]),
           NEW row \in Started(server[r]),
           server' = [ server EXCEPT ![r] = row ]
    PROVE  ServerKeeps /\ row \in Row /\ ~Settled(row)
<1>1. server[r] \in Row
  BY RowIsTyped
<1>2. ~Settled(server[r])
  BY DEF ReceivedIsClosed, Closed
<1>3. row \in Row /\ ~Settled(row)
  BY <1>1, <1>2 DEF Started, Settled, Row, ReservationStatus, PaymentStatus
<1> QED
  BY <1>2, <1>3, RowWritten DEF Closed

\* A cancellation, by the guest or the partner: a refund is a receipt too.
LEMMA RowCancelled ==
    ASSUME PagesTyped, ReceivedIsClosed,
           NEW r \in Ids, Exists(r), NEW row \in Cancelled(server[r]),
           server' = [ server EXCEPT ![r] = row ]
    PROVE  ServerKeeps
<1>1. server[r] \in Row
  BY RowIsTyped
<1>2. PICK m \in { server[r].money } \cup
                 (IF server[r].money = "paid" THEN {"refunded"} ELSE {}) :
        row = [ server[r] EXCEPT !.status = "cancelled", !.money = m ]
  BY DEF Cancelled
<1>3. row \in Row
  BY <1>1, <1>2 DEF Row, ReservationStatus, PaymentStatus
<1>4. Settled(row) <=> Settled(server[r])
  BY <1>1, <1>2 DEF Row, Settled
<1>5. Closed(row)
  BY <1>1, <1>2, <1>4 DEF ReceivedIsClosed, Closed, CanStart, Row
<1> QED
  BY <1>3, <1>4, <1>5, RowWritten

LEMMA ServerStep ==
    ASSUME PagesTyped, ReceivedIsClosed, ServerNext
    PROVE  ServerKeeps
<1>1. ASSUME NEW r \in Reservations, NEW paid \in BOOLEAN, SettlePayment(r, paid)
      PROVE  ServerKeeps
  <2>1. r \in Ids /\ Exists(r) /\ server[r] \in Row /\ server[r].trying
    BY <1>1, RowIsTyped DEF SettlePayment, Ids
  <2>2. ~Settled(server[r])
    BY <2>1 DEF ReceivedIsClosed, Closed
  <2> DEFINE row == server'[r]
  <2>3. server' = [ server EXCEPT ![r] = row ]
    BY <1>1, <2>1 DEF SettlePayment, PagesTyped
  <2>4. row \in Row /\ Closed(row)
    BY <1>1, <2>1, <2>2
    DEF SettlePayment, PagesTyped, Row, Closed, Settled, CanStart,
        ReservationStatus, PaymentStatus
  <2> HIDE DEF row
  <2> QED
    BY <2>1, <2>2, <2>3, <2>4, RowWritten
<1>2. ASSUME NEW r \in Reservations, ExpireHold(r) PROVE ServerKeeps
  <2>1. r \in Ids /\ Exists(r) /\ server[r] \in Row /\ ~Settled(server[r])
    BY <1>2, RowIsTyped DEF ExpireHold, Ids, ReceivedIsClosed, Closed, CanStart
  <2> DEFINE row == server'[r]
  <2>2. server' = [ server EXCEPT ![r] = row ]
    BY <1>2, <2>1 DEF ExpireHold, PagesTyped
  <2>3. row \in Row /\ ~Settled(row)
    BY <1>2, <2>1
    DEF ExpireHold, PagesTyped, Row, Settled, ReservationStatus, PaymentStatus
  <2> HIDE DEF row
  <2> QED
    BY <2>1, <2>2, <2>3, RowWritten DEF Closed
<1>3. ASSUME NEW r \in Reservations, PartnerDecides(r, TRUE) PROVE ServerKeeps
  <2>1. r \in Ids /\ Exists(r) /\ server[r] \in Row
    BY <1>3, RowIsTyped DEF PartnerDecides, Ids
  <2> DEFINE row == [ server[r] EXCEPT !.status = "confirmed" ]
  <2>2. server' = [ server EXCEPT ![r] = row ]
    BY <1>3, <2>1 DEF PartnerDecides, PagesTyped
  <2>3. row \in Row /\ Closed(row) /\ (Settled(server[r]) => Settled(row))
    BY <2>1 DEF ReceivedIsClosed, Row, Closed, Settled, CanStart,
                ReservationStatus
  <2> HIDE DEF row
  <2> QED
    BY <2>1, <2>2, <2>3, RowWritten
<1>4. ASSUME NEW r \in Reservations, PartnerDecides(r, FALSE) PROVE ServerKeeps
  BY <1>4, RowCancelled DEF PartnerDecides, Ids
<1> QED
  BY <1>1, <1>2, <1>3, <1>4 DEF ServerNext

----------------------------------------------------------------------------
\* The handlers that pages reach

LEMMA AttemptServed ==
    ASSUME PaidInv, ServeAttempt
    PROVE  PaidInv'
<1> DEFINE r == call.url.id
<1>1. /\ call \in Call /\ call # NoCall /\ r \in Ids /\ Exists(r)
      /\ CanStart(server[r])
      /\ PagesTyped /\ ReceivedIsClosed /\ NothingFalse /\ PaymentsNamed
  BY DEF PaidInv, PagesTyped, PaymentsNamed, ServeAttempt, Awaits
<1>2. PICK row \in Started(server[r]) :
        /\ server' = [ server EXCEPT ![r] = row ]
        /\ call' = [ call EXCEPT !.answer = row.money ]
  BY DEF ServeAttempt, Reply
<1>3. ServerKeeps /\ row \in Row /\ ~Settled(row)
  BY <1>1, <1>2, AttemptStarted
<1>4. row.money # "paid"
  BY <1>3 DEF Settled
<1>5. call' \in Call /\ call'.url = call.url /\ call'.answer # "paid"
  BY <1>1, <1>2, <1>3, <1>4 DEF Call, Row
<1> HIDE DEF r
<1> QED
  BY <1>1, <1>3, <1>5, PaymentAssumption
  DEF PaidInv, PagesTyped, ServerKeeps, NothingFalse, PaymentsNamed, True,
      Received, Exists, Settled, ServeAttempt

\* A draft whose room is gone expires, and a late attempt of a form that was
\* left is served or not.
LEMMA DraftExpired ==
    ASSUME PagesTyped, ReceivedIsClosed, NEW r \in Ids, Exists(r),
           server[r].status = "draft",
           server' = [ server EXCEPT ![r].status = "expired" ]
    PROVE  ServerKeeps
<1>1. server[r] \in Row /\ ~Settled(server[r])
  BY RowIsTyped DEF ReceivedIsClosed, Closed, CanStart
<1> DEFINE row == [ server[r] EXCEPT !.status = "expired" ]
<1>2. row \in Row /\ Closed(row)
  BY <1>1 DEF Row, Closed, Settled, ReservationStatus
<1>3. server' = [ server EXCEPT ![r] = row ]
  BY DEF PagesTyped
<1> HIDE DEF row
<1> QED
  BY <1>1, <1>2, <1>3, RowWritten

\* What a page carries about a payment stays true while the rows change.
LEMMA PagesKept ==
    ASSUME PaidInv, ServerKeeps, UNCHANGED << at, nav, call, redirect >>
    PROVE  PaidInv'
  BY DEF PaidInv, PagesTyped, ServerKeeps, NothingFalse, PaymentsNamed, True,
      Received, Exists, Settled

\* The same when a press of Pay ends without a result.
LEMMA PressEnded ==
    ASSUME PaidInv, ServerKeeps, UNCHANGED << at, nav, redirect >>,
           call' = NoCall
    PROVE  PaidInv'
  BY DEF PaidInv, PagesTyped, ServerKeeps, NothingFalse, PaymentsNamed, True,
      Received, Exists, Settled

\* The same when the router is sent somewhere with a query that says nothing
\* about the money, or what the address says already.
LEMMA Navigated ==
    ASSUME PaidInv, UNCHANGED << server, at, call, redirect >>,
           nav' \in Location, True(nav'.url)
    PROVE  PaidInv'
<1>1. ServerKeeps
  BY NothingWritten DEF PaidInv
<1> QED
  BY <1>1
  DEF PaidInv, PagesTyped, ServerKeeps, NothingFalse, PaymentsNamed, True,
      Received, Exists, Settled

LEMMA EmptyIsTrue == EmptyUrl \in Url /\ True(EmptyUrl)
  BY DEF EmptyUrl, Url, True

----------------------------------------------------------------------------
\* The payment page

\* What onPay makes of a final answer.
LEMMA Finished ==
    ASSUME PaidInv, Answered, Finish(call.answer), UNCHANGED guestVars
    PROVE  PaidInv'
<1>1. call \in Call /\ call # NoCall /\ call.answer \in PaymentStatus
  BY DEF PaidInv, PagesTyped, Answered, Call
<1>2. Authorised(call.url) \in BOOLEAN
  BY DEF Authorised, HasToken
<1> DEFINE money == call.answer
           url == [ call.url EXCEPT !.money = money,
                                    !.token = Authorised(call.url) ]
<1>3. url \in Url /\ url.money = money /\ url.id = call.url.id
  BY <1>1, <1>2 DEF Call, Url
<1>4. True(url)
  BY <1>1, <1>3 DEF PaidInv, NothingFalse, True
<1>5. redirect' = [ page |-> "success", url |-> url ]
  BY DEF Finish, Result
<1> HIDE DEF url
<1>6. redirect' \in Location /\ redirect'.url = url
  BY <1>3, <1>5 DEF Location, Pages
<1>7. ServerKeeps
  BY NothingWritten DEF PaidInv, guestVars
<1> QED
  BY <1>4, <1>6, <1>7
  DEF PaidInv, PagesTyped, ServerKeeps, NothingFalse, PaymentsNamed, True,
      Received, Exists, Settled, Finish, guestVars

LEMMA PaymentPagesStep ==
    ASSUME PaidInv, PaymentNext
    PROVE  PaidInv'
<1>0. ServerKeeps \/ ~UNCHANGED server
  BY NothingWritten DEF PaidInv
<1>1. CASE ServeAttempt
  BY <1>1, AttemptServed
<1>2. CASE ServePoll
  <2>1. call \in Call /\ call # NoCall /\ call.url.id \in Ids
    BY <1>2 DEF PaidInv, PagesTyped, PaymentsNamed, ServePoll, Awaits
  <2>2. server[call.url.id] \in Row
    BY <1>2, <2>1 DEF PaidInv, PagesTyped, ServePoll, Exists
  <2>3. /\ call' = [ call EXCEPT !.answer = server[call.url.id].money ]
        /\ UNCHANGED << server, at, nav, redirect >> /\ Exists(call.url.id)
    BY <1>2 DEF ServePoll, Reply, guestVars
  <2>4. call' \in Call /\ call'.url = call.url
    BY <2>1, <2>2, <2>3 DEF Call, Row
  <2>5. call'.answer = "paid" => Received(call.url.id)
    BY <2>1, <2>3 DEF Call, Received, Settled
  <2> QED
    BY <1>0, <2>1, <2>3, <2>4, <2>5
    DEF PaidInv, PagesTyped, ServerKeeps, NothingFalse, PaymentsNamed, True,
      Received, Exists, Settled
<1>3. CASE AttemptAnswered
  <2>1. CASE call.answer = "pending"
    <3>1. /\ call \in Call /\ call # NoCall
          /\ call' = [ call EXCEPT !.op = "poll", !.answer = NoAnswer ]
          /\ UNCHANGED << server, at, nav, redirect >>
      BY <1>3, <2>1
      DEF PaidInv, PagesTyped, AttemptAnswered, Answered, guestVars
    <3>2. call' \in Call /\ call'.url = call.url /\ call'.answer # "paid"
      BY <3>1, PaymentAssumption DEF Call, PaymentStatus
    <3> QED
      BY <1>0, <3>1, <3>2
      DEF PaidInv, PagesTyped, ServerKeeps, NothingFalse, PaymentsNamed, True,
      Received, Exists, Settled
  <2>2. CASE call.answer # "pending"
    BY <1>3, <2>2, Finished DEF AttemptAnswered
  <2> QED
    BY <2>1, <2>2
<1>4. CASE PollAnswered
  <2>1. CASE PollsOn
    <3>1. /\ call \in Call /\ call # NoCall /\ call.checks < MaxChecks
          /\ call' = [ call EXCEPT !.checks = @ + 1, !.answer = NoAnswer ]
          /\ UNCHANGED << server, at, nav, redirect >>
      BY <1>4, <2>1
      DEF PaidInv, PagesTyped, PollAnswered, Answered, PollsOn, MoreChecks,
          guestVars
    <3>2. call.checks + 1 \in 0 .. MaxChecks
      BY <3>1, PaymentAssumption DEF Call
    <3>3. call' \in Call /\ call'.url = call.url /\ call'.answer # "paid"
      BY <3>1, <3>2, PaymentAssumption DEF Call, PaymentStatus
    <3> QED
      BY <1>0, <3>1, <3>3
      DEF PaidInv, PagesTyped, ServerKeeps, NothingFalse, PaymentsNamed, True,
      Received, Exists, Settled
  <2>2. CASE ~PollsOn
    BY <1>4, <2>2, Finished DEF PollAnswered
  <2> QED
    BY <2>1, <2>2
<1>5. CASE PayFailed
  BY <1>0, <1>5, PressEnded DEF PayFailed, PressFails, guestVars
<1>6. CASE ServeUnavailable
  <2>1. call # NoCall /\ call.url.id \in Ids
    BY <1>6 DEF ServeUnavailable, Awaits, PaidInv, PaymentsNamed
  <2>2. ServerKeeps
    BY <1>6, <2>1, DraftExpired DEF ServeUnavailable, PaidInv
  <2> QED
    BY <1>6, <2>2, PressEnded DEF ServeUnavailable, PressFails
<1>7. CASE PressPay
  <2>1. /\ call' = [ op |-> "attempt", url |-> at.url, checks |-> 0,
                     answer |-> NoAnswer ]
        /\ at.page = "payment" /\ UNCHANGED << server, at, nav, redirect >>
    BY <1>7 DEF PressPay, PayEnabled, OnPayment, guestVars
  <2>2. at.url \in Url /\ at.url.id \in Ids
    BY <2>1 DEF PaidInv, PagesTyped, PaymentsNamed, Location
  <2>3. call' \in Call /\ call'.url = at.url /\ call'.answer # "paid"
    BY <2>1, <2>2, PaymentAssumption DEF Call, PaymentStatus
  <2> QED
    BY <1>0, <2>1, <2>2, <2>3
    DEF PaidInv, PagesTyped, ServerKeeps, NothingFalse, PaymentsNamed, True,
      Received, Exists, Settled
<1>8. CASE ChooseMethod
  BY <1>0, <1>8, PagesKept DEF ChooseMethod, guestVars
<1>9. CASE FollowRedirect
  BY <1>0, <1>9
  DEF FollowRedirect, RedirectShown, PaidInv, PagesTyped, ServerKeeps,
      NothingFalse, PaymentsNamed, True,
      Received, Exists, Settled
<1>10. CASE StayHere
  BY <1>0, <1>10
  DEF StayHere, guestVars, PaidInv, PagesTyped, ServerKeeps, NothingFalse,
      PaymentsNamed, True, Received, Exists, Settled
<1>11. CASE LeavePayment
  <2>1. at.url \in Url /\ True(at.url)
    BY DEF PaidInv, PagesTyped, NothingFalse, Location
  <2>2. nav' \in Location /\ True(nav'.url)
    BY <1>11, <2>1, EmptyIsTrue DEF LeavePayment, Go, Location, Pages
  <2> QED
    BY <1>11, <2>2, Navigated DEF LeavePayment, payVars
<1>12. CASE LeaveSuccess
  <2> DEFINE url == [ at.url EXCEPT !.money = "none" ]
  <2>1. url \in Url /\ True(url)
    BY DEF PaidInv, PagesTyped, Location, Url, True
  <2>2. PICK page \in ResultActions :
          nav' = [ page |-> page,
                   url |-> IF page \in { "payment", "account" } THEN url
                           ELSE EmptyUrl ]
    BY <1>12 DEF LeaveSuccess, Go
  <2> HIDE DEF url
  <2>3. nav' \in Location /\ True(nav'.url)
    BY <2>1, <2>2, EmptyIsTrue DEF Location, Pages, ResultActions
  <2> QED
    BY <1>12, <2>3, Navigated DEF LeaveSuccess, payVars
<1>13. ASSUME NEW r \in Reservations, ServeOrphan(r) PROVE PaidInv'
  <2>1. ServerKeeps
    <3>1. CASE UNCHANGED server
      BY <1>0, <3>1
    <3>2. CASE ~UNCHANGED server
      BY <1>13, <3>2, AttemptStarted DEF ServeOrphan, PaidInv, Ids
    <3> QED
      BY <3>1, <3>2
  <2> QED
    BY <1>13, <2>1, PagesKept DEF ServeOrphan
<1> QED
  BY <1>1, <1>2, <1>3, <1>4, <1>5, <1>6, <1>7, <1>8, <1>9, <1>10, <1>11,
     <1>12, <1>13
  DEF PaymentNext, PaymentAnswers

----------------------------------------------------------------------------
\* The other pages

LEMMA CheckoutStep ==
    ASSUME PaidInv, CheckoutNext, UNCHANGED payVars
    PROVE  PaidInv'
<1>0. ServerKeeps \/ ~UNCHANGED server
  BY NothingWritten DEF PaidInv
<1>1. ASSUME NEW i \in 1 .. MaxRequests, ServeCreate(i) PROVE PaidInv'
  <2>1. PICK r \in Reservations :
          \/ UNCHANGED server
          \/ ~Exists(r) /\ server' = [ server EXCEPT ![r] = NewRow ]
    BY <1>1 DEF ServeCreate
  <2>2. NewRow \in Row /\ Closed(NewRow)
    BY DEF NewRow, Row, Closed, Settled, CanStart, ReservationStatus,
           PaymentStatus
  <2>3. ServerKeeps
    BY <1>0, <2>1, <2>2, RowWritten DEF PaidInv, Ids
  <2> QED
    BY <1>1, <2>3, PagesKept DEF ServeCreate, payVars
<1>2. ASSUME NEW i \in 1 .. MaxRequests, QuoteAnswered(i) PROVE PaidInv'
  <2>1. nav' \in Location /\ True(nav'.url)
    BY <1>2, EmptyIsTrue DEF QuoteAnswered, Go, Location, Pages
  <2> QED
    BY <1>2, <2>1, Navigated DEF QuoteAnswered, payVars
<1>3. ASSUME NEW i \in 1 .. MaxRequests, QuoteFailed(i) PROVE PaidInv'
  BY <1>0, <1>3, PagesKept DEF QuoteFailed, guestVars, payVars
<1>4. ASSUME NEW i \in 1 .. MaxRequests, i \in DOMAIN requests,
             SubmitAnswered(i)
      PROVE  PaidInv'
  <2> DEFINE url == [ EmptyUrl EXCEPT !.id = requests[i].answer.draft,
                                      !.token = TRUE ]
  <2>1. requests[i].answer.draft \in Ids
    BY <1>4 DEF SubmitAnswered, Drafts
  <2>2. url \in Url /\ True(url)
    BY <2>1 DEF EmptyUrl, Url, True
  <2>3. nav' = [ page |-> "payment", url |-> url ]
    BY <1>4 DEF SubmitAnswered, Go
  <2> HIDE DEF url
  <2>4. nav' \in Location /\ True(nav'.url)
    BY <2>2, <2>3 DEF Location, Pages
  <2> QED
    BY <1>4, <2>4, Navigated DEF SubmitAnswered, payVars
<1>5. ASSUME NEW i \in 1 .. MaxRequests, SubmitRefused(i) PROVE PaidInv'
  BY <1>0, <1>5, PagesKept DEF SubmitRefused, guestVars, payVars
<1>6. CASE Tick \/ AutoRefresh \/ PressRefresh \/ PressFormRefresh \/ PressSubmit
  BY <1>0, <1>6, PagesKept
  DEF Tick, AutoRefresh, PressRefresh, PressFormRefresh, PressSubmit,
      guestVars, payVars
<1>7. CASE LeaveCheckout
  <2>1. nav' \in Location /\ True(nav'.url)
    BY <1>7, EmptyIsTrue DEF LeaveCheckout, Go, Location, Pages
  <2> QED
    BY <1>7, <2>1, Navigated DEF LeaveCheckout, payVars
<1> QED
  BY <1>1, <1>2, <1>3, <1>4, <1>5, <1>6, <1>7
  DEF CheckoutNext, CheckoutAnswers

LEMMA AccountStep ==
    ASSUME PaidInv, AccountNext, UNCHANGED payVars
    PROVE  PaidInv'
<1>0. ServerKeeps \/ ~UNCHANGED server
  BY NothingWritten DEF PaidInv
<1>1. ASSUME NEW i \in DOMAIN rowCalls, ServeCancel(i) PROVE PaidInv'
  <2>1. PICK r \in rowCalls[i].ids :
          /\ Exists(r)
          /\ \/ UNCHANGED server
             \/ \E row \in Cancelled(server[r]) :
                   server' = [ server EXCEPT ![r] = row ]
    BY <1>1 DEF ServeCancel
  <2>2. CASE UNCHANGED server
    BY <1>0, <1>1, <2>2, PagesKept DEF ServeCancel, payVars
  <2>3. CASE r \in Ids /\ ~UNCHANGED server
    <3>1. ServerKeeps
      BY <2>1, <2>3, RowCancelled DEF PaidInv
    <3> QED
      BY <1>1, <3>1, PagesKept DEF ServeCancel, payVars
  <2>4. r \notin Ids => UNCHANGED server
    BY <2>1 DEF PaidInv, PagesTyped
  <2> QED
    BY <2>2, <2>3, <2>4
<1>2. CASE LeaveAccount \/ OpenAccount
  <2>1. nav' \in Location /\ True(nav'.url)
    BY <1>2, EmptyIsTrue DEF LeaveAccount, OpenAccount, Go, Location, Pages
  <2> QED
    BY <1>2, <2>1, Navigated DEF LeaveAccount, OpenAccount, payVars
<1>3. CASE PressLoad
  BY <1>0, <1>3, PagesKept DEF PressLoad, guestVars, payVars
<1>4. ASSUME NEW address \in Emails \cup {NoEmail}, TypeEmail(address)
      PROVE  PaidInv'
  BY <1>0, <1>4, PagesKept DEF TypeEmail, guestVars, payVars
<1>5. ASSUME NEW i \in DOMAIN loads,
             \/ ServeLoad(i) \/ LoadAnswered(i)
             \/ LoadShown(i) \/ LoadFailed(i)
      PROVE  PaidInv'
  BY <1>0, <1>5, PagesKept
  DEF ServeLoad, LoadAnswered, LoadShown, LoadFailed, guestVars, payVars
<1>6. ASSUME NEW r \in Ids,
             \/ \E op \in { "payment", "terms", "cancel" } : PressRow(op, r)
             \/ PressInStay(r)
      PROVE  PaidInv'
  BY <1>0, <1>6, PagesKept DEF PressRow, PressInStay, guestVars, payVars
<1>7. ASSUME NEW i \in DOMAIN rowCalls, NEW ok \in BOOLEAN,
             RowAnswered(i, ok)
      PROVE  PaidInv'
  BY <1>0, <1>7, PagesKept DEF RowAnswered, guestVars, payVars
<1> QED
  BY <1>1, <1>2, <1>3, <1>4, <1>5, <1>6, <1>7 DEF AccountNext

\* A page that is mounted shows the query of the navigation, or none.
LEMMA ArriveStep ==
    ASSUME PaidInv, NEW page \in Pages, Arrive(page)
    PROVE  PaidInv'
<1>1. /\ nav # NoPage /\ nav' = NoPage /\ page \in Landings(nav)
      /\ at' = [ page |-> page,
                 url |-> IF page \in { "payment", "success" } THEN nav.url
                         ELSE EmptyUrl ]
      /\ UNCHANGED server
  BY DEF Arrive, Land
<1>2. nav \in Location /\ nav.url \in Url /\ True(nav.url)
  BY <1>1 DEF PaidInv, PagesTyped, NothingFalse, Location
<1>3. at' \in Location /\ True(at'.url)
  BY <1>1, <1>2, EmptyIsTrue DEF Location
<1>4. at'.page = "payment" => at'.url.id \in Ids
  BY <1>1, <1>2 DEF Landings, Url
<1>5. \/ UNCHANGED << call, redirect >>
      \/ call' = NoCall /\ redirect' = NoPage
  BY DEF Arrive, PaymentArrives, ResetForm, payVars
<1>6. ServerKeeps
  BY <1>1, NothingWritten DEF PaidInv
<1> QED
  BY <1>1, <1>3, <1>4, <1>5, <1>6
  DEF PaidInv, PagesTyped, ServerKeeps, NothingFalse, PaymentsNamed, True,
      Received, Exists, Settled

----------------------------------------------------------------------------
\* The theorem

LEMMA PaidAtFirst == Init => PaidInv
<1> SUFFICES ASSUME Init PROVE PaidInv
  OBVIOUS
<1>1. PastRow \in Row /\ Closed(PastRow)
  BY DEF PastRow, Row, Closed, CanStart, ReservationStatus, PaymentStatus
<1>2. /\ server = [ r \in Ids |-> IF r \in Others THEN PastRow ELSE NoRow ]
      /\ at = [ page |-> "stay", url |-> EmptyUrl ] /\ nav = NoPage
      /\ call = NoCall /\ redirect = NoPage
  BY DEF Init, GuestInit, PaymentInit
<1>3. at \in Location /\ at.url = EmptyUrl /\ at.page = "stay"
  BY <1>2, EmptyIsTrue DEF Location, Pages
<1>4. PagesTyped
  BY <1>1, <1>2, <1>3 DEF PagesTyped
<1>5. ReceivedIsClosed
  BY <1>1, <1>2 DEF ReceivedIsClosed, Exists
<1> QED
  BY <1>2, <1>3, <1>4, <1>5, EmptyIsTrue
  DEF PaidInv, NothingFalse, PaymentsNamed

LEMMA PaidStep == PaidInv /\ [Next]_vars => PaidInv'
<1> SUFFICES ASSUME PaidInv, [Next]_vars PROVE PaidInv'
  OBVIOUS
<1>0. ServerKeeps \/ ~UNCHANGED server
  BY NothingWritten DEF PaidInv
<1>1. ASSUME NEW page \in Pages, Arrive(page) PROVE PaidInv'
  BY <1>1, ArriveStep
<1>2. CASE Book
  <2>1. nav' \in Location /\ True(nav'.url)
    BY <1>2, EmptyIsTrue DEF Book, Go, Location, Pages
  <2> QED
    BY <1>2, <2>1, Navigated DEF Book, payVars
<1>3. CASE ServerNext /\ UNCHANGED << checkoutVars, payVars, accountVars >>
  <2>1. ServerKeeps
    BY <1>3, ServerStep DEF PaidInv
  <2>2. UNCHANGED << at, nav, call, redirect >>
    BY <1>3
    DEF ServerNext, SettlePayment, ExpireHold, PartnerDecides, payVars
  <2> QED
    BY <2>1, <2>2, PagesKept
<1>4. CASE CheckoutNext /\ UNCHANGED payVars
  BY <1>4, CheckoutStep
<1>5. CASE PaymentNext
  BY <1>5, PaymentPagesStep
<1>6. CASE AccountNext /\ UNCHANGED payVars
  BY <1>6, AccountStep
<1>7. CASE UNCHANGED vars
  BY <1>0, <1>7, PagesKept DEF vars, guestVars, payVars
<1> QED
  BY <1>1, <1>2, <1>3, <1>4, <1>5, <1>6, <1>7 DEF Next

\* Whatever the guest presses, repeats, leaves and comes back to, whatever is
\* polled or answered late, and whatever the backend does meanwhile: the
\* result page says "paid" only of a reservation whose money was received
\* (app/checkout/success/page.tsx reads it from the query alone).
THEOREM ShownPaidIsAlwaysPaid == Spec => []ShownPaidIsPaid
<1>1. PaidInv => ShownPaidIsPaid
  BY DEF PaidInv, NothingFalse, True, Received, ShownPaidIsPaid, ResultPaid
<1> QED
  BY <1>1, PaidAtFirst, PaidStep, PTL DEF Spec

=============================================================================
