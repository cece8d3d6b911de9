------------------------------ MODULE ChatBooking ------------------------------
(***************************************************************************)
(* The chat that books: components/AIConcierge.tsx with the session that   *)
(* api/chat.py keeps of it.  A message is answered in turns that overlap;  *)
(* what the guest wants to book is collected, drafted and reserved, and    *)
(* the chat keeps what it knows in the browser, for every language apart.  *)
(* The texts, the cards and the status of the payment that it shows are    *)
(* left out; what an answer knows of the search is its dates and guests.   *)
(***************************************************************************)
EXTENDS Integers

CONSTANTS
    Rooms,     \* the rooms that are offered
    Bookings,       \* ids the backend may give to reservations
    Turns,      \* bound: the turns that are under way at once
    NoTarget,   \* nothing is collected or drafted
    NoPay,      \* nothing is reserved
    NoTurn,
    NoReply,    \* no answer with data is in the log
    NoMemory    \* the chat was never opened in that language

\* What a search must know before a room can be drafted.
Needed == { "dates", "guests" }

\* PendingBooking and BookingDraft: a room, and what is known of the stay.
Target == [ offer : Rooms, has : SUBSET Needed ]

\* PaymentDraft: the reservation, and the room that the chat says it is for.
Pay == [ id : Bookings, offer : Rooms ]

\* A message that is answered: with the draft of booking_state, and the payment of
\* the render that it was sent from.
Turn == [ draft : Target \cup {NoTarget}, pay : Pay \cup {NoPay},
          step : { "here", "quick", "ask" } ]

\* latestAnswer: what its filters know.  Which rooms an answer offers is left open.
ChatReply == [ has : SUBSET Needed ]

\* ConciergeMemory.
Memory == [ draft : Target \cup {NoTarget}, pending : Target \cup {NoTarget},
            pay : Pay \cup {NoPay}, reply : ChatReply \cup {NoReply},
            session : Target \cup {NoTarget} ]

\* createReservation in flight: the draft of the press, and the reservation once
\* the backend has made it.
Create == [ draft : Target, pay : Pay \cup {NoPay} ]

ASSUME ChatAssumption ==
    /\ Bookings \subseteq Nat \ {0}
    /\ NoTarget \notin Target \cup Rooms /\ NoPay \notin Pay \cup Create
    /\ NoTurn \notin Turn /\ NoReply \notin ChatReply /\ NoMemory \notin Memory

VARIABLES
    bookingDraft,   \* what is drafted
    pending,    \* pendingBooking
    filled,     \* the four fields of the booking form are valid
    pay,        \* paymentDraft
    reply,      \* latestAnswer
    url,        \* what the address knows of the search
    chatLoading, typing, booking,   \* loading, assistantTyping, bookingLoading
    turns,      \* turns[k]: the message that k answers
    creating,   \* createReservation in flight, or NoPay
    redirect,   \* the payment page that a scheduled redirect goes to
    other,      \* the memory of the chat in the other language
    session,    \* the booking state that the backend keeps of the chat's session
    made,       \* made[id]: the room of the reservation, or NoTarget
    services    \* the reservations that the chat has ordered services for

knownVars == << bookingDraft, pending, pay, reply >>
waitVars == << chatLoading, typing, booking, turns, creating, redirect >>
backVars == << session, made, services >>
chatVars == << knownVars, waitVars, backVars, filled, url, other >>

\* One booking is collected at a time: what is still asked about lacks dates or
\* guests, what is drafted lacks nothing, and there is never one of each.
ChatTypeOK ==
    /\ bookingDraft \in { t \in Target : t.has = Needed } \cup {NoTarget}
    /\ pending \in { t \in Target : t.has # Needed } \cup {NoTarget}
    /\ pending = NoTarget \/ bookingDraft = NoTarget
    /\ pay \in Pay \cup {NoPay} /\ redirect \in Pay \cup {NoPay}
    /\ reply \in ChatReply \cup {NoReply} /\ url \subseteq Needed
    /\ << filled, chatLoading, typing, booking >> \in BOOLEAN \X BOOLEAN \X BOOLEAN \X BOOLEAN
    /\ turns \in [ Turns -> Turn \cup {NoTurn} ]
    /\ creating \in Create \cup {NoPay}
    /\ other \in Memory \cup {NoMemory}
    /\ session \in Target \cup {NoTarget}
    /\ made \in [ Bookings -> Rooms \cup {NoTarget} ]
    /\ services \subseteq Bookings

----------------------------------------------------------------------------
\* What is known, and what a room needs

\* bookingModeActive or paymentModeActive: the cards and their buttons are hidden.
MayPress == bookingDraft = NoTarget /\ pay = NoPay

Filters == IF reply = NoReply THEN {} ELSE reply.has

\* Mutant: a stay without guests is drafted.
CompleteByDates(has) == "dates" \in has

\* startBooking asks for the dates first, then for the guests.
Complete(has) == has = Needed

\* startBooking: what the card knows, or the last answer, or the address.
Collects(offer, has) ==
    LET known == [ offer |-> offer, has |-> has \cup Filters \cup url ]
    IN  IF Complete(known.has)
        THEN bookingDraft' = known /\ pending' = NoTarget
        ELSE pending' = known /\ UNCHANGED bookingDraft

\* Book, on a card of any answer in the log.
PressBook(offer, has) ==
    /\ MayPress
    /\ reply # NoReply
    /\ Collects(offer, has)
    /\ UNCHANGED << pay, reply, waitVars, backVars, filled, url, other >>

\* The address after applyFilters: nothing that it knows is lost.
Synced(has) == url \cup has

\* runNextAction: the button of an answer in the log puts its filters, or the dates of
\* an alternative, into the address.  The one that books is PressBook, and the one
\* that goes to the checkout leaves the page.
PressNext(has) ==
    /\ MayPress
    /\ reply # NoReply
    /\ url' = Synced(has)
    /\ UNCHANGED << knownVars, waitVars, backVars, filled, other >>

----------------------------------------------------------------------------
\* A message

Spare(k) == turns[k] = NoTurn /\ \A j \in Turns : j < k => turns[j] # NoTurn

\* The words that start anew, with a new session; what is under way goes on.
StartAnew ==
    /\ ~chatLoading
    /\ session' = NoTarget
    /\ bookingDraft' = NoTarget /\ pending' = NoTarget /\ pay' = NoPay /\ reply' = NoReply
    /\ filled' = FALSE
    /\ UNCHANGED << waitVars, made, services, url, other >>

\* With a draft the message fills the fields of the form that are empty.
WriteField ==
    /\ ~chatLoading /\ bookingDraft # NoTarget
    /\ filled' \in { filled, TRUE }
    /\ UNCHANGED << knownVars, waitVars, backVars, url, other >>

\* The form itself, which stays open beside the payment.
TypeField ==
    /\ bookingDraft # NoTarget
    /\ filled' \in BOOLEAN
    /\ UNCHANGED << knownVars, waitVars, backVars, url, other >>

\* shouldRenderChatDatePicker, for a room that is collected.  Without one the dates
\* that are picked are a message like a chip.
DatesAreAsked ==
    ~chatLoading /\ ~typing /\ MayPress /\ pending # NoTarget /\ "dates" \notin pending.has

\* applyChatDateRange.
PickDates ==
    /\ DatesAreAsked
    /\ Collects(pending.offer, pending.has \cup {"dates"})
    /\ UNCHANGED << pay, reply, waitVars, backVars, filled, url, other >>

\* While something is collected the message adds to it.
WriteMissing(has) ==
    /\ ~chatLoading /\ bookingDraft = NoTarget /\ pending # NoTarget
    /\ Collects(pending.offer, pending.has \cup has)
    /\ UNCHANGED << pay, reply, waitVars, backVars, filled, url, other >>

Sends(k, step) ==
    /\ Spare(k)
    /\ turns' = [ turns EXCEPT ![k] = [ draft |-> bookingDraft, pay |-> pay, step |-> step ] ]

\* onSubmit: the chat tries to answer by itself first.
Write(k) ==
    /\ ~chatLoading /\ bookingDraft = NoTarget /\ pending = NoTarget
    /\ Sends(k, "here")
    /\ typing' = TRUE
    /\ UNCHANGED << knownVars, chatLoading, booking, creating, redirect, backVars, filled,
                    url, other >>

\* stageQuickPrompts and the chips of a card.
Chips == MayPress

\* onFollowUp.
PressChip(k) ==
    /\ ~chatLoading /\ Chips
    /\ Sends(k, "quick")
    /\ UNCHANGED << knownVars, chatLoading, typing, booking, creating, redirect, backVars,
                    filled, url, other >>

Has(k, steps) == turns[k] # NoTurn /\ turns[k].step \in steps
TurnOver(k) == turns' = [ turns EXCEPT ![k] = NoTurn ]

\* The words that book: the first room of the last answer, before anything is asked of
\* the backend.  As a message they may come while a payment is open, as a chip while
\* something else is collected.
BookByWords(offer) ==
    /\ ~chatLoading /\ bookingDraft = NoTarget /\ reply # NoReply
    /\ \/ pending = NoTarget /\ typing' = FALSE
       \/ Chips /\ UNCHANGED typing
    /\ Collects(offer, reply.has)
    /\ UNCHANGED << pay, reply, chatLoading, booking, turns, creating, redirect, backVars,
                    filled, url, other >>

\* handleHospitalityIntent: an order, or a table, for the reservation that the chat had
\* made when the message was sent.
OrdersService(k) ==
    /\ Has(k, {"here"}) /\ turns[k].pay # NoPay
    /\ TurnOver(k)
    /\ services' = services \cup {turns[k].pay.id}
    /\ typing' = FALSE
    /\ UNCHANGED << knownVars, chatLoading, booking, creating, redirect, session, made,
                    filled, url, other >>

\* handleSalesObjection and tryHandleQuickPrompt: a text, or the rooms of another
\* filter, with the dates and guests of some address.
Handled(k, r) ==
    /\ Has(k, { "here", "quick" })
    /\ TurnOver(k)
    /\ typing' = IF turns[k].step = "here" THEN FALSE ELSE typing
    /\ reply' \in { reply, r }
    /\ UNCHANGED << bookingDraft, pending, pay, chatLoading, booking, creating, redirect,
                    backVars, filled, url, other >>

\* Its catalogue did not answer, and nothing catches that.
HandlingFails(k) ==
    /\ Has(k, { "here", "quick" })
    /\ TurnOver(k)
    /\ UNCHANGED << knownVars, chatLoading, typing, booking, creating, redirect, backVars,
                    filled, url, other >>

\* runConciergeTurn.
AsksServer(k) ==
    /\ Has(k, { "here", "quick" })
    /\ turns' = [ turns EXCEPT ![k].step = "ask" ]
    /\ chatLoading' = TRUE /\ typing' = TRUE
    /\ UNCHANGED << knownVars, booking, creating, redirect, backVars, filled, url, other >>

\* effective_booking_state.
Effective(k) == IF turns[k].draft # NoTarget THEN turns[k].draft ELSE session

\* Mutant: the chat waits on if the turn has failed.
WaitsIfFailed(ok) == ~ok

\* The finally of a turn, whatever other turns are under way.
Waits(ok) == FALSE

\* The answer of the backend, whose filters go to the address, or not.
SessionAnswers(k, r) ==
    /\ reply' = r
    /\ session' = Effective(k)
    /\ bookingDraft' = IF Effective(k) # NoTarget THEN Effective(k) ELSE bookingDraft
    /\ url' \in { url, Synced(r.has) }

\* buildOfflineConciergeResponse: what the chat puts together when the request is lost,
\* on either way, or the answer is of no use; and when that fails too, an apology.
Offline(k, r) ==
    /\ \/ reply' = r /\ url' \in { url, Synced(r.has) }
       \/ UNCHANGED << reply, url >>
    /\ session' \in { session, Effective(k) }
    /\ UNCHANGED bookingDraft

TurnEnds(k, ok, r) ==
    /\ Has(k, {"ask"})
    /\ TurnOver(k)
    /\ chatLoading' = Waits(ok) /\ typing' = Waits(ok)
    /\ IF ok THEN SessionAnswers(k, r) ELSE Offline(k, r)
    /\ UNCHANGED << pending, pay, booking, creating, redirect, made, services, filled,
                    other >>

----------------------------------------------------------------------------
\* The reservation

\* onCreateBooking.
PressCreateBooking ==
    /\ bookingDraft # NoTarget /\ ~booking /\ filled
    /\ booking' = TRUE
    /\ creating' = [ draft |-> bookingDraft, pay |-> NoPay ]
    /\ UNCHANGED << knownVars, chatLoading, typing, turns, redirect, backVars, filled, url,
                    other >>

Waiting == creating # NoPay /\ creating.pay = NoPay

\* create_reservation.
MakeReservation(id) ==
    /\ Waiting
    /\ made[id] = NoTarget /\ \A i \in Bookings : i < id => made[i] # NoTarget
    /\ made' = [ made EXCEPT ![id] = creating.draft.offer ]
    /\ creating' = [ creating EXCEPT !.pay = [ id |-> id, offer |-> creating.draft.offer ] ]
    /\ UNCHANGED << knownVars, chatLoading, typing, booking, turns, redirect, session,
                    services, filled, url, other >>

\* Mutant: the payment is for the draft that is open by now.
PaidAsShown(id) ==
    [ id |-> id,
      offer |-> IF bookingDraft # NoTarget THEN bookingDraft.offer ELSE creating.draft.offer ]

\* The payment is for the draft that the button was pressed with.
PaidAsPressed(id) == [ id |-> id, offer |-> creating.draft.offer ]

\* The draft that is open by now is closed, whichever it is.
Created ==
    /\ creating # NoPay /\ ~Waiting
    /\ pay' = PaidAsPressed(creating.pay.id)
    /\ redirect' = PaidAsPressed(creating.pay.id)
    /\ bookingDraft' = NoTarget /\ filled' = FALSE
    /\ booking' = FALSE /\ creating' = NoPay
    /\ UNCHANGED << pending, reply, chatLoading, typing, turns, backVars, url, other >>

\* Refused, or lost on either way.
CreateFails ==
    /\ creating # NoPay
    /\ booking' = FALSE /\ creating' = NoPay
    /\ UNCHANGED << knownVars, chatLoading, typing, turns, redirect, backVars, filled, url,
                    other >>

----------------------------------------------------------------------------
\* The page is left and opened again

\* cancelPaymentRedirect.
StayInChat ==
    /\ redirect # NoPay /\ redirect' = NoPay
    /\ UNCHANGED << knownVars, chatLoading, typing, booking, turns, creating, backVars,
                    filled, url, other >>

\* The redirect, a link, or the browser: all that is under way is lost, and the
\* chat is restored from what it saved when it is opened again, with any address.
Reopen(has) ==
    /\ redirect' = NoPay /\ creating' = NoPay
    /\ turns' = [ k \in Turns |-> NoTurn ]
    /\ chatLoading' = FALSE /\ typing' = FALSE /\ booking' = FALSE
    /\ filled' = FALSE
    /\ url' = has
    /\ UNCHANGED << knownVars, backVars, other >>

Saved ==
    [ draft |-> bookingDraft, pending |-> pending, pay |-> pay, reply |-> reply,
      session |-> session ]

\* Another language has a memory of its own, and without one the chat goes on as it
\* is and is saved there too.  The page is the same: what is under way goes on.
SwitchLanguage ==
    /\ other' = Saved
    /\ IF other = NoMemory
       THEN UNCHANGED << knownVars, session >>
       ELSE /\ bookingDraft' = other.draft /\ pending' = other.pending
            /\ pay' = other.pay /\ reply' = other.reply
            /\ session' = other.session
    /\ UNCHANGED << waitVars, made, services, filled, url >>

ChatInit ==
    /\ bookingDraft = NoTarget /\ pending = NoTarget /\ filled = FALSE /\ pay = NoPay
    /\ reply = NoReply /\ url = {}
    /\ chatLoading = FALSE /\ typing = FALSE /\ booking = FALSE
    /\ turns = [ k \in Turns |-> NoTurn ] /\ creating = NoPay /\ redirect = NoPay
    /\ other = NoMemory
    /\ session = NoTarget /\ made = [ id \in Bookings |-> NoTarget ] /\ services = {}

TurnSteps(k) ==
    \/ \E r \in ChatReply : Handled(k, r)
    \/ OrdersService(k)
    \/ HandlingFails(k) \/ AsksServer(k)
    \/ \E ok \in BOOLEAN, r \in ChatReply : TurnEnds(k, ok, r)

CreateSteps == (\E id \in Bookings : MakeReservation(id)) \/ Created \/ CreateFails

ChatNext ==
    \/ \E offer \in Rooms, has \in SUBSET Needed : PressBook(offer, has)
    \/ StartAnew \/ WriteField \/ TypeField \/ PickDates
    \/ \E has \in SUBSET Needed : WriteMissing(has) \/ Reopen(has) \/ PressNext(has)
    \/ \E offer \in Rooms : BookByWords(offer)
    \/ \E k \in Turns : Write(k) \/ PressChip(k) \/ TurnSteps(k)
    \/ PressCreateBooking \/ CreateSteps
    \/ StayInChat \/ SwitchLanguage

\* A request is answered or fails.
ChatFairness ==
    /\ \A k \in Turns : WF_chatVars(TurnSteps(k))
    /\ WF_chatVars(CreateSteps)

----------------------------------------------------------------------------
\* Properties

\* The payment that the chat shows, the one it sends the guest to, and the one it
\* remembers in the other language are of a reservation that was made for the room
\* that they name, although the guest may start anew or draft another room while
\* the reservation is being made.
PaymentIsOfRoom ==
    \A p \in { pay, redirect, IF other = NoMemory THEN NoPay ELSE other.pay } \ {NoPay} :
        made[p.id] = p.offer

=============================================================================
