------------------------------- MODULE Checkout -------------------------------
(***************************************************************************)
(* The checkout page: app/checkout/page.tsx, components/CheckoutShell.tsx  *)
(* (the price lock, its clock and its refreshes) and                       *)
(* components/ReservationForm.tsx (the draft).  A request outlives the     *)
(* component that sent it: when its answer comes, state setters have no    *)
(* effect any more, but the router and localStorage are still there.       *)
(* Which dates are asked for is left out: any of them may be refused.      *)
(***************************************************************************)
EXTENDS GuestApi

CONSTANTS
    NoQuote,        \* no price is shown: the form is not mounted
    MaxRequests     \* bound: requests of the page that are in flight

\* A price, or the news that the rooms are gone; the age of its lock is 0, 1
\* in the last ten seconds, 2 when it has expired.
Quote == [ free : BOOLEAN, age : 0 .. 2 ]
Refreshes == { "manual", "auto", "form", "retry" }
Drafts == [ draft : Ids ]
Request == [ op : Refreshes \cup {"submit"}, live : BOOLEAN,
             answer : Drafts \cup {NoAnswer} ]
Refusals == { "Quote expired", "Quote mismatch", "Validation failed", "other" }

ASSUME CheckoutAssumption ==
    /\ NoQuote \notin Quote
    /\ NoAnswer \notin Drafts
    /\ MaxRequests \in Nat \ {0}

VARIABLES
    quote,          \* the price that is shown, and the age of its lock
    marked,         \* autoRefreshMarkRef names the token that is shown
    autoRefreshing, \* the refresh of the last ten seconds is in flight
    isSubmitting,
    isRefreshing,   \* isRefreshingQuote of the form
    requests        \* requests of the page, in the order they were sent

formVars == << quote, marked, autoRefreshing, isSubmitting, isRefreshing >>
checkoutVars == << formVars, requests >>

CheckoutTypeOK ==
    /\ quote \in Quote \cup {NoQuote}
    /\ << marked, autoRefreshing, isSubmitting, isRefreshing >>
         \in BOOLEAN \X BOOLEAN \X BOOLEAN \X BOOLEAN
    /\ requests \in Seq(Request) /\ Len(requests) <= MaxRequests

----------------------------------------------------------------------------
\* What the page shows and lets the guest do

OnCheckout == at.page = "checkout"
Expired == quote.age = 2

\* The submit button, and the checks of onSubmit before the contact data.
SubmitEnabled ==
    /\ OnCheckout /\ ~isSubmitting /\ ~Expired /\ quote.free
    /\ ~autoRefreshing /\ ~isRefreshing

\* The form offers a refresh when the lock has expired.
FormRefreshEnabled == OnCheckout /\ Expired /\ ~autoRefreshing /\ ~isRefreshing

\* "Refresh quote" and "Apply": the transition they wait for ends at once.
RefreshEnabled == OnCheckout /\ ~autoRefreshing

----------------------------------------------------------------------------
\* Sending requests

CanSend == Len(requests) < MaxRequests
Sent(op) == Append(requests, [ op |-> op, live |-> TRUE, answer |-> NoAnswer ])

\* The clock of CheckoutShell.
Tick ==
    /\ OnCheckout /\ ~Expired
    /\ quote' = [ quote EXCEPT !.age = @ + 1 ]
    /\ UNCHANGED << guestVars, marked, autoRefreshing, isSubmitting,
                    isRefreshing, requests >>

\* Mutant: only the mark keeps the effect from running again.
AutoRefreshDueByMark == OnCheckout /\ quote.age = 1 /\ ~marked

\* The effect of the last ten seconds: once for a token, one at a time.
AutoRefreshDue == OnCheckout /\ quote.age = 1 /\ ~marked /\ ~autoRefreshing

AutoRefresh ==
    /\ AutoRefreshDue /\ CanSend
    /\ marked' = TRUE
    /\ autoRefreshing' = TRUE
    /\ requests' = Sent("auto")
    /\ UNCHANGED << guestVars, quote, isSubmitting, isRefreshing >>

\* handleRefreshClick does not wait: a second click sends a second request.
PressRefresh ==
    /\ RefreshEnabled /\ CanSend
    /\ requests' = Sent("manual")
    /\ UNCHANGED << guestVars, formVars >>

PressFormRefresh ==
    /\ FormRefreshEnabled /\ CanSend
    /\ isRefreshing' = TRUE
    /\ requests' = Sent("form")
    /\ UNCHANGED << guestVars, quote, marked, autoRefreshing, isSubmitting >>

\* onSubmit: missing contact data is only pointed at, the form is submitted
\* once there is none.
PressSubmit ==
    /\ SubmitEnabled /\ CanSend
    /\ isSubmitting' = TRUE
    /\ requests' = Sent("submit")
    /\ UNCHANGED << guestVars, quote, marked, autoRefreshing, isRefreshing >>

----------------------------------------------------------------------------
\* The answers, in any order; a quote or a refusal changes nothing at the
\* backend, so it is given when it arrives

Waiting(i) == requests[i].answer = NoAnswer
Here(i) == requests[i].live
Drop(i) == requests' = RemoveAt(requests, i)

\* The draft is made, or found.
ServeCreate(i) ==
    /\ Waiting(i) /\ requests[i].op = "submit"
    /\ \E r \in Reservations :
         /\ requests' = [ requests EXCEPT ![i].answer = [ draft |-> r ] ]
         /\ \/ Open(r) /\ UNCHANGED server
            \/ ~Exists(r) /\ server' = [ server EXCEPT ![r] = NewRow ]
    /\ UNCHANGED << store, at, nav, formVars >>

\* The finally of the refresh, and of the submit that waits for its retry.
Ended(i) ==
    /\ autoRefreshing' = (autoRefreshing /\ requests[i].op # "auto")
    /\ isRefreshing' = (isRefreshing /\ requests[i].op # "form")
    /\ isSubmitting' = (isSubmitting /\ requests[i].op # "retry")

\* refreshQuote: the new token is shown with a whole lock before it, and the
\* router puts the stay into the address, from wherever the guest is by then.
QuoteAnswered(i) ==
    /\ requests[i].op \in Refreshes
    /\ Drop(i)
    /\ Go("checkout", EmptyUrl)
    /\ IF Here(i)
       THEN /\ \E free \in BOOLEAN : quote' = [ free |-> free, age |-> 0 ]
            /\ marked' = FALSE
            /\ Ended(i)
       ELSE UNCHANGED formVars
    /\ UNCHANGED << server, store, at >>

\* A refresh that failed: the effect may try again in a second.
QuoteFailed(i) ==
    /\ requests[i].op \in Refreshes
    /\ Drop(i)
    /\ IF Here(i)
       THEN /\ marked' = (marked /\ requests[i].op # "auto")
            /\ Ended(i)
            /\ UNCHANGED quote
       ELSE UNCHANGED formVars
    /\ UNCHANGED guestVars

\* Mutant: the draft's access token is not kept.
RememberedNever(id) == store
Remembered(id) == Remember(store, id)

\* onSubmit goes on to the payment page, from wherever the guest is by then.
SubmitAnswered(i) ==
    /\ requests[i].op = "submit" /\ requests[i].answer \in Drafts
    /\ Drop(i)
    /\ store' = Remembered(requests[i].answer.draft)
    /\ Go("payment", [ EmptyUrl EXCEPT !.id = requests[i].answer.draft,
                                       !.token = TRUE ])
    /\ isSubmitting' = (isSubmitting /\ ~Here(i))
    /\ UNCHANGED << server, at, quote, marked, autoRefreshing, isRefreshing >>

\* localizeServerMessage, and isQuoteError of the message it returns.
Localized(message) ==
    IF message \in { "Quote expired", "Quote mismatch" }
    THEN "Price lock expired" ELSE message
IsQuoteError(message) == message \in { "Quote expired", "Quote mismatch" }

\* Mutant: the error path does not unlock the form.
LockedOnRefusal(i, message) == Here(i) => isSubmitting

\* The form stays locked while the quote is refreshed for the guest.
LockedAfter(i, message) ==
    isSubmitting /\ (~Here(i) \/ IsQuoteError(Localized(message)))

\* The backend refuses the draft, or the request or its answer is lost.
SubmitRefused(i) ==
    /\ requests[i].op = "submit"
    /\ \E message \in IF Waiting(i) THEN Refusals ELSE {"other"} :
         /\ isSubmitting' = LockedAfter(i, message)
         /\ requests' = IF IsQuoteError(Localized(message))
                        THEN [ requests EXCEPT ![i].op = "retry" ]
                        ELSE RemoveAt(requests, i)
    /\ UNCHANGED << guestVars, quote, marked, autoRefreshing, isRefreshing >>

----------------------------------------------------------------------------
\* Coming and going

\* Back to the stay or home; the link of a tariff leads to this page again.
LeaveCheckout ==
    /\ at.page \in { "checkout", "unavailable" }
    /\ \/ Go("stay", EmptyUrl)
       \/ Go("home", EmptyUrl)
       \/ OnCheckout /\ Go("checkout", EmptyUrl)
    /\ UNCHANGED << server, store, at, checkoutVars >>

ClearForm ==
    /\ marked' = FALSE
    /\ autoRefreshing' = FALSE
    /\ isSubmitting' = FALSE
    /\ isRefreshing' = FALSE

Unmounted == [ i \in DOMAIN requests |-> [ requests[i] EXCEPT !.live = FALSE ] ]

\* The page is mounted with the price the server got; when it was mounted
\* already it keeps its state.
CheckoutArrives(page) ==
    IF page = at.page
    THEN UNCHANGED checkoutVars
    ELSE /\ ClearForm
         /\ IF page = "checkout"
            THEN /\ \E free \in BOOLEAN : quote' = [ free |-> free, age |-> 0 ]
                 /\ UNCHANGED requests
            ELSE quote' = NoQuote /\ requests' = Unmounted

----------------------------------------------------------------------------
CheckoutInit ==
    /\ quote = NoQuote
    /\ marked = FALSE
    /\ autoRefreshing = FALSE
    /\ isSubmitting = FALSE
    /\ isRefreshing = FALSE
    /\ requests = << >>

CheckoutAnswers(i) ==
    /\ i \in DOMAIN requests
    /\ \/ ServeCreate(i)
       \/ QuoteAnswered(i) \/ QuoteFailed(i)
       \/ SubmitAnswered(i) \/ SubmitRefused(i)

CheckoutNext ==
    \/ \E i \in 1 .. MaxRequests : CheckoutAnswers(i)
    \/ Tick \/ AutoRefresh
    \/ PressRefresh \/ PressFormRefresh \/ PressSubmit
    \/ LeaveCheckout

\* Every request that was sent ends, and its answer is handled.
CheckoutFairness ==
    \A i \in 1 .. MaxRequests :
        WF_<< guestVars, checkoutVars >>(CheckoutAnswers(i))

----------------------------------------------------------------------------
\* Properties

\* The refreshes of the last ten seconds never overlap: while one is in flight
\* the page knows it, whatever else was refreshed, failed or shown meanwhile.
AutoRefreshIsSingle ==
    LET autos == { i \in DOMAIN requests : requests[i].op = "auto" /\ Here(i) }
    IN  Cardinality(autos) = IF autoRefreshing THEN 1 ELSE 0

\* The reservations that exist, and are looked up with a token each.
Known == { r \in Ids : Exists(r) }

\* The reservation of the payment page can be opened again later: as long as no
\* more reservations exist than the list of tokens has places, its token is in
\* this browser, also when the answer overtook other requests, came after the
\* guest had left the checkout, or was followed by late answers that renew other
\* entries.  With more of them the list may have dropped it: nothing is claimed.
PayableIsRemembered ==
    at.page = "payment" /\ Cardinality(Known) <= MaxStored =>
        HasToken(store, at.url.id)

=============================================================================
