------------------------------ MODULE PaymentStep ------------------------------
(***************************************************************************)
(* The payment page, the form on it, and the result page it leads to:      *)
(* components/PaymentStepForm.tsx, hooks/useSoftRedirect.ts,               *)
(* app/checkout/payment/page.tsx and app/checkout/success/page.tsx.        *)
(* Every press of Pay is a request and up to MaxChecks polls; the outcome  *)
(* schedules a redirect that a timer, or the guest, carries out.           *)
(***************************************************************************)
EXTENDS GuestApi

CONSTANTS
    MaxChecks,  \* the polls of waitForFinalPayment before its last one
    NoCall,     \* nothing is awaited
    NoSnapshot

\* A payment as the page sees it: only the status of the money matters.
Call == [ op : { "attempt", "poll" }, url : Url, checks : 0 .. MaxChecks,
          answer : PaymentStatus \cup {NoAnswer} ]

ASSUME PaymentAssumption ==
    /\ MaxChecks \in Nat
    /\ NoAnswer \notin PaymentStatus /\ NoSnapshot \notin PaymentStatus
    /\ NoCall \notin Call

VARIABLES
    processing, \* the guest pressed Pay and has no result yet
    call,       \* what onPay awaits, with the query it began with
    snapshot,   \* paymentSnapshot
    notice,     \* statusKind
    redirect,   \* pendingUrl of useSoftRedirect
    orphans     \* attempts sent from a form that was unmounted since

payVars == << processing, call, snapshot, notice, redirect, orphans >>

PaymentTypeOK ==
    /\ processing \in BOOLEAN
    /\ call \in Call \cup {NoCall}
    /\ snapshot \in PaymentStatus \cup {NoSnapshot}
    /\ notice \in { "idle", "progress", "error" }
    /\ redirect \in Location \cup {NoPage}
    /\ orphans \subseteq Reservations

----------------------------------------------------------------------------
\* What the page shows and lets the guest do

OnPayment == at.page = "payment"
Paid == snapshot = "paid"
IsFinal(money) == money \in { "paid", "failed" }

\* Pay and Retry are the same handler; only a press in flight disables them.
PayEnabled == OnPayment /\ ~processing
RetryShown == notice = "error"
RedirectShown == redirect # NoPage

\* resolveAccessToken: the token of the query, or the stored one.
Authorised(url) == url.token \/ HasToken(store, url.id)

\* Mutant: what did not fail by the last poll is taken for paid.
ResultUnlessFailed(money) ==
    [ page |-> "success",
      url |-> [ call.url EXCEPT !.money = IF money = "failed" THEN money ELSE "paid",
                                !.token = Authorised(call.url) ] ]

\* /checkout/success?... with the outcome, and with the token if there is one.
Result(money) ==
    [ page |-> "success",
      url |-> [ call.url EXCEPT !.money = money, !.token = Authorised(call.url) ] ]

\* The result page knows the outcome from its query alone.
ResultPaid == at.page = "success" /\ at.url.money = "paid"
ResultFailed == at.page = "success" /\ at.url.money = "failed"

----------------------------------------------------------------------------
\* The form

ResetForm ==
    /\ processing' = FALSE
    /\ call' = NoCall
    /\ snapshot' = NoSnapshot
    /\ notice' = "idle"
    /\ redirect' = NoPage

\* Every press has a new idempotency key; a redirect that is scheduled stays.
PressPay ==
    /\ PayEnabled
    /\ processing' = TRUE
    /\ notice' = "progress"
    /\ call' = [ op |-> "attempt", url |-> at.url, checks |-> 0,
                 answer |-> NoAnswer ]
    /\ UNCHANGED << guestVars, snapshot, redirect, orphans >>

ChooseMethod ==
    /\ PayEnabled
    /\ notice = "error"
    /\ notice' = "idle"
    /\ UNCHANGED << guestVars, processing, call, snapshot, redirect, orphans >>

Reply(money) == call' = [ call EXCEPT !.answer = money ]
Awaits(op) == call # NoCall /\ call.op = op /\ call.answer = NoAnswer

\* Mutant: the button is freed on success only.
PressStaysLocked ==
    /\ notice' = "error"
    /\ call' = NoCall
    /\ UNCHANGED processing

\* The catch and the finally of onPay.
PressFails ==
    /\ notice' = "error"
    /\ processing' = FALSE
    /\ call' = NoCall

\* The backend handles the request; it refuses others without a change, and
\* a draft whose room is gone expires.
ServeAttempt ==
    /\ Awaits("attempt")
    /\ LET r == call.url.id
       IN  /\ Exists(r) /\ CanStart(server[r]) /\ Authorised(call.url)
           /\ \E row \in Started(server[r]) :
                 /\ server' = [ server EXCEPT ![r] = row ]
                 /\ Reply(row.money)
    /\ UNCHANGED << store, at, nav, processing, snapshot, notice, redirect,
                    orphans >>

ServeUnavailable ==
    /\ Awaits("attempt")
    /\ LET r == call.url.id
       IN  /\ Exists(r) /\ Authorised(call.url) /\ server[r].status = "draft"
           /\ server' = [ server EXCEPT ![r].status = "expired" ]
    /\ PressFails
    /\ UNCHANGED << store, at, nav, snapshot, redirect, orphans >>

ServePoll ==
    /\ Awaits("poll")
    /\ Exists(call.url.id) /\ Authorised(call.url)
    /\ Reply(server[call.url.id].money)
    /\ UNCHANGED << guestVars, processing, snapshot, notice, redirect,
                    orphans >>

\* The end of onPay: the redirect is scheduled whatever the outcome is.
Finish(money) ==
    /\ redirect' = Result(money)
    /\ notice' = IF money = "failed" THEN "error" ELSE "progress"
    /\ processing' = FALSE
    /\ call' = NoCall

Answered == call # NoCall /\ call.answer # NoAnswer

\* A pending answer is polled for; others end the press.
AttemptAnswered ==
    /\ Answered /\ call.op = "attempt"
    /\ snapshot' = call.answer
    /\ IF call.answer = "pending"
       THEN /\ call' = [ call EXCEPT !.op = "poll", !.answer = NoAnswer ]
            /\ UNCHANGED << processing, notice, redirect >>
       ELSE Finish(call.answer)
    /\ UNCHANGED << guestVars, orphans >>

\* Mutant: one poll too many.
OneMoreCheck == call.checks <= MaxChecks

\* waitForFinalPayment: at most MaxChecks polls and a last one.
MoreChecks == call.checks < MaxChecks

PollsOn == ~IsFinal(call.answer) /\ MoreChecks

PollAnswered ==
    /\ Answered /\ call.op = "poll"
    /\ snapshot' = call.answer
    /\ IF PollsOn
       THEN /\ call' = [ call EXCEPT !.checks = @ + 1, !.answer = NoAnswer ]
            /\ UNCHANGED << processing, notice, redirect >>
       ELSE Finish(call.answer)
    /\ UNCHANGED << guestVars, orphans >>

\* The request was refused, or it or its answer was lost.
PayFailed ==
    /\ call # NoCall
    /\ PressFails
    /\ UNCHANGED << guestVars, snapshot, redirect, orphans >>

----------------------------------------------------------------------------
\* Leaving the page

\* The timer of useSoftRedirect and its Go now.
FollowRedirect ==
    /\ OnPayment /\ RedirectShown
    /\ redirect' = NoPage
    /\ nav' = redirect
    /\ UNCHANGED << server, store, at, processing, call, snapshot, notice,
                    orphans >>

StayHere ==
    /\ OnPayment /\ RedirectShown
    /\ redirect' = NoPage
    /\ UNCHANGED << guestVars, processing, call, snapshot, notice, orphans >>

\* Back to the stay, the account, or the checkout to edit the booking.
LeavePayment ==
    /\ OnPayment
    /\ \/ Go("stay", EmptyUrl)
       \/ Go("checkout", EmptyUrl)
       \/ Go("account", at.url)
    /\ UNCHANGED << server, store, at, payVars >>

\* The form is unmounted: its state is gone, its request is not.
Orphaned ==
    IF Awaits("attempt") THEN {call.url.id} ELSE {}

PaymentArrives(page) ==
    IF page = at.page THEN UNCHANGED payVars
    ELSE ResetForm /\ orphans' = orphans \cup Orphaned

ServeOrphan(r) ==
    /\ r \in orphans
    /\ orphans' = orphans \ {r}
    /\ \/ /\ Exists(r) /\ CanStart(server[r])
          /\ \E row \in Started(server[r]) :
                server' = [ server EXCEPT ![r] = row ]
       \/ UNCHANGED server
    /\ UNCHANGED << store, at, nav, processing, call, snapshot, notice,
                    redirect >>

\* The links of the result page: a failed payment may be retried or edited.
ResultActions ==
    { "account", "stay", "home" }
      \cup (IF ResultFailed THEN { "payment", "checkout" } ELSE {})

LeaveSuccess ==
    /\ at.page = "success"
    /\ \E page \in ResultActions :
         Go(page, IF page \in { "payment", "account" }
                  THEN [ at.url EXCEPT !.money = "none" ] ELSE EmptyUrl)
    /\ UNCHANGED << server, store, at, payVars >>

----------------------------------------------------------------------------
PaymentInit ==
    /\ processing = FALSE
    /\ call = NoCall
    /\ snapshot = NoSnapshot
    /\ notice = "idle"
    /\ redirect = NoPage
    /\ orphans = {}

PaymentAnswers ==
    ServeAttempt \/ ServePoll \/ AttemptAnswered \/ PollAnswered \/ PayFailed

PaymentNext ==
    \/ PaymentAnswers \/ ServeUnavailable
    \/ PressPay \/ ChooseMethod
    \/ FollowRedirect \/ StayHere \/ LeavePayment \/ LeaveSuccess
    \/ \E r \in Reservations : ServeOrphan(r)

\* A request ends, with an answer or without one.
PaymentFairness == WF_<< guestVars, payVars >>(PaymentAnswers)

----------------------------------------------------------------------------
\* Properties

\* The page that says that the payment was received is never wrong: the
\* backend has the money, or has given it back, whatever was retried, polled,
\* scheduled or navigated since.
ShownPaidIsPaid ==
    ResultPaid => Exists(at.url.id) /\ Settled(server[at.url.id])

=============================================================================
