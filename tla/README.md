# StayPilot: a TLA+ model of bookings, payments and the pages around them

StayPilot sells rooms: a FastAPI/SQLAlchemy backend (`src/backend`), a Next.js
client (`src/frontend`), PostgreSQL in production. This directory holds TLA+
models of both, TLC configurations that check them on small instances, and TLAPS
proofs of the properties that matter most. Paths of Python files are under
`src/backend/app/`, those of TypeScript files under `src/frontend/`.

    tlc -workers 2 -config BookingMock.cfg BookingMC.tla      # one run
    tlapm PaymentRacesProofs.tla                              # one proof module

## 1. The system

### 1.1 How the backend runs

* One uvicorn process (`src/backend/Dockerfile:19`). Synchronous routes and
  `BackgroundTasks` run on a pool of threads; `async def` endpoints and the
  expiry worker run on the event loop.
* The webhook endpoint is `async def` and calls synchronous code
  (`api/payments.py:34-46`), and so does the worker (`main.py:112-124`): a
  webhook and a sweep of the worker never interleave with each other, but both
  interleave with the threads.
* A session per request (`db/session.py`): no row is locked, no query says
  `FOR UPDATE`, and the only constraints that matter to the protocols are the
  unique pairs (reservation, idempotency key) of payment attempts and
  (provider, event id) of webhook events.
* An object that a session has loaded is not read again before the next commit
  of that session; an UPDATE writes the columns whose value the handler
  changed, and no others. Routes load the reservation before the services do,
  so services decide on a status that may be old.
* `emit_reservation_status_event` (`services/notification_service.py`) talks to
  the notification channels synchronously, between a handler's decision and its
  commit. That is where most races find their time.

### 1.2 How the client runs

* A browser tab runs one handler at a time, and a handler that awaits a request
  is two steps: whatever the guest presses in between happens in between. What
  the second step knows of the page is what the first saw (the closure of its
  render), unless it goes through a ref or a functional update.
* One page is mounted. `router.push` and links start a navigation that ends when
  the page has loaded; the last one wins. When only the query changes, the page
  keeps its state; when the page changes, its state is gone, but its requests
  are not: their answers still reach `router` and `localStorage`.
* Answers come in any order, once each, or never; a request that failed may have
  been carried out. Buttons that are disabled while a request runs, `cancelled`
  flags in effects, timers that are cleared, and ids and tokens are the only
  means by which the pages keep order.
* The pages talk to the backend only through `lib/api.ts`, one request for each
  step of a handler, and to each other through the address and `localStorage`.

### 1.3 Inventory

| Component | State | Operations | Hard behaviour | Correct when |
|---|---|---|---|---|
| Life cycle `services/reservation_lifecycle.py` | `reservations.status` | transition table, expiry sweep | the sweep runs in the worker *and* at the head of most handlers, with notifications between SELECT and commit | a hold ends; nothing but a hold is swept |
| Payments `services/payment_service.py`, `api/payments.py` | `reservation_payments`, `reservation_payment_attempts`, `payment_webhook_events`, background tasks in memory | start, finalize (mock), start with a provider, webhook, legacy mock call | retries with old and new keys, duplicated, late and reordered events, finalizers lost in a restart, TTL against late answers, races between all of them | money received stays recorded; nobody who paid is asked again; one attempt in flight |
| Reservations `services/reservation_service.py`, `api/reservations.py` | `reservations` | create, cancel (guest, partner), refund, partner confirmation, terms | two commits in creation, reopening of closed reservations, duplicate submits | rooms are given only when one is free; a refundable cancellation refunds |
| Room inventory `services/room_inventory_service.py`, `services/listing_service.py` | `room_types`, `listing_blocks` (read) | availability of a stay, of windows | clamping of ranges, zero-length and overlapping windows, blocks of one type and of all, untyped reservations | the answer is the minimum over the nights |
| Calendar `api/listings.py:288-620` | `listing_blocks`, `room_types`, `listings` | create/delete block, create/update/delete room type, bulk, delete listing | competes with payments for the same rooms; deletes rows that others refer to | a block never lies over a guest |
| In-stay `api/instay.py` | `room_service_orders`, `restaurant_bookings` and their events, menu, restaurants | order, book a table, set a status, edit the catalogue | look then insert, read then write, statuses that may follow in any order | the history of a booking is true |
| Guest's tokens `lib/guestAccess.ts`, router | `localStorage`, address, pending navigation | remember, look up | a list of 50, late answers that remember again | access is not lost without need |
| Checkout `components/CheckoutShell.tsx`, `ReservationForm.tsx` | quote with its lock, form | refresh (button, form, clock, retry), submit | four refreshes that overlap, a clock, answers after the page was left | one automatic refresh at a time; a draft that was made can be paid later |
| Payment and result `components/PaymentStepForm.tsx`, `app/checkout/*` | outcome, snapshot, scheduled redirect | pay, retry, poll, follow or cancel the redirect | polls and redirects of several presses, a result page that knows only its address | "paid" is never wrong |
| Account `components/GuestAccountPage.tsx` | list, one busy row | search, check, terms, cancel, in-stay | one field says which of many rows waits | no row waits for nothing |
| In-stay page `components/InStayConcierge.tsx` | lists, draft order, form, chat | refresh, order, book with a retry, actions of the chat | a retry of what may have been done, an action pressed twice | what is said to be booked is booked |
| Partner's service desk `ManagerInStaySection.tsx` | rows, filter, edit form | next status, cancel, catalogue | several handlers under way, rows that are old | no stage of a visit is left out |
| Partner's listings `app/manager/page.tsx`, `ManagerRoomTypesSection.tsx`, `ManagerAvailabilitySection.tsx` | list, selection, form, room types, blocks, availability | load, save, bulk, delete, rows of the sections | answers for another listing or other dates, lists that overtake each other | no bulk update of what is not shown; counts are of what is shown |
| Partner's desk (reservations, messages, tickets) | rows, filter, cached terms, a timer, optimistic marks | cancel, confirm, retry, mark, step | timers cleared by the next retry, rollbacks that overlap | a retry is followed by a reload |
| Search `app/page.tsx`, `app/stays/[id]/page.tsx`, `StayBookingCard.tsx`, `DateRangePicker.tsx` | address, picker | pick, search, open a stay | input kept when the address changes | rooms offered are free; input left alone is the search |
| Chat that books `components/AIConcierge.tsx`, `api/chat.py` | draft, pending booking, payment, memory per language, session | messages, chips, collect, draft, reserve | turns that overlap, a new draft while a reservation is made, memories | a payment is of the room it names |
| Quote locks `services/quote_lock_service.py` | `quote_locks` | create, validate, clean up | a lock read after the cleanup, never consumed | a price promised is a price charged |
| Photos `services/photo_service.py` | `listing_photos`, files | upload, cover, delete, reorder | several commits, file and row | one cover per listing with photos |
| Accounts `api/auth.py`, `core/security.py` | `users.token_version`, `auth_tokens`, login attempts | register, login, logout, verify, reset | one-time tokens used twice, lost increments, the lockout at its limit | a token works once; reset ends sessions |
| Notifications `services/notification_service.py` | delivery log, read markers | emit, dispatch, retry, mark read | failures of one channel of several | no channel failure loses a state change |
| Support, leads, analytics, ops; pages without state; deployment, scripts | rows of their own | insert, report, render | none of protocol | - |

On the backend, components call each other in one direction: routes call
services, services read the room inventory, the life cycle's sweep runs first in
the handlers of reservations and payments, and everything announces status
changes through notifications. Payments, reservations, the worker and the
calendar meet in the tables `reservations` and `reservation_payments`. On the
client, checkout, payment, result and account page follow one another in one tab
and share the address, the tokens and the reservation; the other pages share
only the backend. `PROJECT.json` lists every component with its state of
modelling, and under `hazards` each place that is hard to test, with the
properties that watch it.

## 2. The modules

    Lifecycle        statuses, blocking statuses, transition table        (pure)
      Rooms          one room type, the stays that compete for it         (pure)
        Booking      every handler, run without interference
          BookingMC, BookingProofs
        PaymentRaces the same handlers as processes that read, decide, commit
          PaymentRacesMC, PaymentGamesMC, PaymentRacesProofs
      RoomInventory  the tables and windows of the availability            (pure)
        RoomInventoryProofs
        Calendar     one listing: room types, blocks, guests, the listing itself
          CalendarMC, CalendarProofs
      GuestApi       the reservations as a guest's tab meets them, tokens, router
        Checkout     the price lock, the refreshes, the draft
        PaymentStep  pay, polls, redirect, result
        GuestAccount the list of bookings
          GuestClient    the three together, one page mounted
            GuestClientMC, GuestClientProofs, GuestRequestsProofs
    RoomLedger       abstract: who holds a room; Booking implements it
    InStay           orders, tables and catalogue of the backend
      Concierge      the guest's in-stay page with its chat
      ServiceDesk    the partner's console of the same rows
    ManagerEditor    listings, room types, availability and blocks of the partner
    ManagerDesk      reservations, messages, notices and tickets of the partner
    StaySearch       search, stay page, picker; over RoomInventory
    ChatBooking      the chat that books, with its session
      Consoles       the last six (and InStay), one of them at work
        ConsolesMC, ConsolesProofs, InStayProofs

### 2.1 `Lifecycle` and `Rooms`

`Transitions` is `RESERVATION_TRANSITIONS` entry by entry, `CanMove` is what
`transition_reservation_status` accepts, `Blocking` is
`BLOCKING_RESERVATION_STATUSES`. `checked_in` and `checked_out` are in the table
although no handler writes them today. `RoomFree(st, r)` is
`room_type_available_count(...) > 0` for the stay of `r`, counted per night.

### 2.2 `Booking`

| Variable | Code |
|---|---|
| `status[r]`, `payment[r]` | `Reservation.status`, `ReservationPayment.payment_status`; `"none"` before the INSERT |
| `stamp[r]` | `coalesce(attempted_at, created_at)` compared with `now - 15 min`: which of the two columns decides, and on which side of the cutoff it is |
| `attempts[r]` | the rows of `reservation_payment_attempts` in id order: key, status, and in mock mode how it will be settled |
| `finalizers` | tasks added to `BackgroundTasks` that have not run |
| `seen` | event ids of `payment_webhook_events` |
| `unchecked` | auxiliary: holds that were taken without asking for availability |

Each action is a handler with all its commits, except creation, which is two
actions because a crash between its two commits leaves a reservation without a
payment row. The sweep that most handlers begin with is part of each of them
(`SweptStatus`, `SweptPayment`). A refused call commits nothing but its sweep,
which is the action `ExpireStale`; the refusals that do write something
(`StartUnavailable`, `LegacyUnavailable`, `WebhookRejected`) have actions of
their own. A known event id is answered from the tables and changes nothing, so
`Accept` requires a new one.

Data are reduced to what decides: amounts, currencies and signatures to
accepted or rejected, the tariff's refund terms to `refundable`, clocks to the
side of the cutoff.

### 2.3 `RoomLedger`

The promise to a guest in four lines: a reservation enters the set `held` when a
room is left on every night of its stay, and leaves it at any time. It knows no
payments, clocks or retries. `Booking` implements it with
`held <- CheckedHolds` (`LedgerSpec`). The holds that a webhook takes without
looking at the calendar are not in the image: for those the code makes no such
promise (section 5).

### 2.4 `PaymentRaces`

The handlers of start, cancel, partner confirmation, finalizer, webhook and
sweep again, for reservations that exist, now as processes: the threads of
`Workers` and the event loop `Loop`.

| Step | Code |
|---|---|
| `Open` | the route's own `db.get`, which leaves the reservation in the session (`saw`); `partner_confirm` does not have one |
| `SweepSelect`, `SweepCommit` | the SELECT of the sweep, and, after its notifications, its reads of the payments, the UPDATEs and the commit; the commit empties the session |
| `StartDecided`, `CancelDecided`, `ConfirmDecided`, `FinalizeDecided`, `WebhookDecided` | the queries a handler makes in a row, and its decision, kept in `plan[p]` as the columns it will write (`"same"`: not in the UPDATE) |
| `Commit`, `CommitLost` | the commit, or the unique constraint that loses it |
| `StartUnavailable` | nothing is sent before this commit, so it is one step |
| `ConfirmReopens` | the partner's confirmation takes a draft or a closed reservation through `pending_payment` and announces that, before it counts the rooms; `saw` keeps the status it has read |
| `StartRefused`, `CancelRefused`, `ConfirmRefused`, `FinalizeDropped` | early returns and 409s |
| `Restart` | sessions and background tasks are gone, rows stay |

The queries between two network calls are one step: splitting them further adds
no outcome that the split at the notifications does not have, because the window
between decision and commit already contains them. `unchecked` and `contended`
are auxiliary. `contended` collects the reservations that were *written* while
another process had them in hand, so that this one goes on with what it has read.
That several processes load, select or decide about one reservation at a time does
not make it contended: those overlaps are what the properties of the others are
about. They let the model say which guarantees survive races, and
`MoneyIsFromAttempts`, `HoldsRunFullTerm` (of starts) and `OversellBounded` what is
true of contended reservations too.

### 2.5 `RoomInventory`

The computation of `services/room_inventory_service.py`, statement by statement
where a count could go wrong: `DayAvailable` takes blocks and then reservations
from the rooms of a type, cutting at zero each time; `Scan` and `Windows` join the
days to windows with the count of their poorest day; `AvailableCount` is what the
handlers get. Ranges are not clamped, since a day that is not asked for is never
looked up. A row covers the days from its first to the one before its last.

### 2.6 `Calendar`

The partner's side (`api/listings.py`) against the guests' side, for one listing
with any number of room types, each with its own number of rooms.

| Variable | Code |
|---|---|
| `live` | the row of the listing exists |
| `rooms[t]`, `blocks[b]` | the rows of `room_types` and `listing_blocks`, or `NoRow` |
| `status[r]` | as in `Booking`; the request behind `r` is the constant `Ask[r]` (type or none, dates) |
| `payment[r]` | `reservation_payments`: no row, not paid, paid (or refunded) |
| `unchecked` | auxiliary, as in `Booking` |

Each action is a handler that runs without interference. Of the payment only what
gives or frees a room is kept (`Booking` has the rest), and since there is no
clock a sweep may find any hold overdue. The guards use `HasRooms`, which says
directly that every day of the stay has rooms left; `AvailabilityExact` checks, in
every reachable state, that this is what the tables and windows of
`RoomInventory` return for the rows of that state (`CountsExact`), and that the
windows that guests are shown are right (`WindowsExact`). So a counting mistake in
the service and a missing check in a handler are both visible.

A reservation without a type counts against the first active type in the order of
`sort_order` (`Primary`), so a partner who reorders or deactivates types moves it.
The ids of deleted rows are used again, as SQLite does: a block that outlived its
room type counts against the type that gets its id.

### 2.7 `GuestApi`, `Checkout`, `PaymentStep`, `GuestAccount`, `GuestClient`

One tab. `GuestApi` has what its pages share: `server[r]` is what a page can tell
of a reservation and its payment (`Booking` has the handlers in full; here
`SettlePayment`, `ExpireHold` and `PartnerDecides` stand for what happens at the
backend without the guest), `store` is `findapart_reservation_access`, `at` the
mounted page and its query, `nav` the navigation that is pending. `Land` ends it:
the page may be the one that was asked for, or the one that its server part
redirects to.

| Variable | Code |
|---|---|
| `quote`, `marked`, `autoRefreshing` | the quote and the age of its lock, `autoRefreshMarkRef`, `autoRefreshing` of `CheckoutShell` |
| `isSubmitting`, `isRefreshing` | `isSubmitting`, `isRefreshingQuote` of `ReservationForm` |
| `requests` | requests of the checkout in the order they were sent; `live` says whether the component that sent them is still mounted |
| `processing`, `call`, `snapshot`, `notice` | `processing`, what `onPay` awaits, `paymentSnapshot`, `statusKind` of `PaymentStepForm` |
| `redirect` | `pendingUrl` of `useSoftRedirect` |
| `orphans` | payment attempts whose form is gone |
| `email`, `loading`, `items`, `busy`, `inStayBusy`, `loads`, `rowCalls` | the state of `GuestAccountPage` and its requests |

A request is sent, handled by the backend, and answered in three actions; a
refusal, a lost request and a lost answer are one action that leaves the backend
as it is by then. Handlers that change nothing at the backend (a quote, a list)
are answered when the answer arrives. The page that is left loses its variables
(`CheckoutArrives`, `PaymentArrives`, `AccountArrives`), and what its requests
still do is in the `Here(i)` / `live` branches. The answer to a search is used
twice: its tokens are remembered as it comes (`LoadAnswered`), and its rows are
shown once their listings are loaded (`LoadShown`), by when the page may be gone.

### 2.8 `InStay`, `Concierge`, `ServiceDesk`

`InStay` is the backend of both: `tables[t]` and `orders[o]` are rows,
`tables[t].history` is the status that the newest event announces and `.been` all
that were announced; `patches` are the PATCH handlers between their read and
their commit. In `Concierge`, whatever the page awaits is a flow
(`flows[f]`) that goes from `create` over `insert` (the slot was found free) to
`made` and `lists`, or after a failure to the check of
`maybeCreatedDespiteNetworkError` and the one retry; `strays` are requests that the
page has given up and the backend has not. `completed` and `busy` are
`completedActionKeys` and `busyActionKey`. In `ServiceDesk` a handler is a task
with the filter it was pressed under, `shownTables`, `shownOrders` and `shownMenu`
are the rows on the screen, from which the next status is offered
(`nextBookingAction`, `nextRoomServiceAction`).

### 2.9 `ManagerEditor`, `ManagerDesk`

`jobs[j]` (and `works[w]`) is a handler with what it saw when it was pressed: the
listing of the form, the selection, the rows of its section. `listing`,
`roomType` and `block` are the backend; `items`, `selectedIds`, `editingId`,
`shownTypes`, `shownBlocks`, `availability` are the states of the page under the
names they have there. `asked` holds the availability requests whose effect was
not cleaned up, and `opened` the listings whose rows `startEdit` has asked for:
nothing guards these, so they arrive at any time. In `ManagerDesk`, `timer` is
`communicationRefreshTimerRef`, `owed` is auxiliary (a retry succeeded and no
load was sent since), `readShown` is shown before `read` knows of it.

### 2.10 `StaySearch`, `ChatBooking`

`search` is the query of the page that is open, `range`, `party` and `field` the
picker, `seen` the nights that had a free room when the page was made (what it
offers comes from the windows that `RoomInventory` makes of them), `trip` what is
being loaded; `touched` is auxiliary.
In `ChatBooking`, `pending`, `bookingDraft` and `pay` are `pendingBooking`,
`bookingDraft` and `paymentDraft`; a message is a turn that first tries to answer
here and then asks the server; `creating` is the request of the reservation with
the draft of the press; `other` is the memory of another language and `session`
the booking state that `api/chat.py` keeps. What a text means, and which rooms an
answer shows, is a choice.

### 2.11 `Consoles`

The pages of 2.8 to 2.10 do not share state, except for the two sides of
`InStay`. `part` says which one is at work, chosen at the start: the state space
is the sum of theirs and not the product, and one run checks them all. The
in-stay page and the service desk are parts of their own because both are
complete against any partner and any guest: `Staff` in one and `GuestBooks` in
the other stand for the rest.

## 3. The runs

Deadlock checking is off in all of them: the system may be idle, and the bounded
identifiers (keys, events) run out.

| Run | Instance | Shows |
|---|---|---|
| `booking_mock` | 3 reservations, 2 nights, 1 room, 2 keys, mock mode | `TypeOK`; `RoomsNotOversold`; `LedgerSpec`; `AttemptsMatchMoney`; `CancelledIsRefunded` |
| `booking_provider` | 2 reservations that share a night, 1 room, 2 keys, 3 events, provider mode, legacy calls | `CheckedHoldsFit`; `PaidIsNotOpen`; `MoneyNeverForgotten`; `ConfirmedIsKept` |
| `races_mock` | mock mode, 2 threads; one of three games: 1 reservation with 2 keys and a restart, 2 that compete by starts and confirmations, 3 that start | `TypeOK`; `OversellBounded`; `QuietGuestsKeep`; `MoneyIsFromAttempts` |
| `races_provider` | 2 reservations, 1 thread, 2 events, provider mode | `QuietGuestsKeep`; `HoldsRunFullTerm` |
| `races_live` | 1 reservation, 2 threads, finalizers of mock mode and 1 event, 1 restart | `HoldIsResolved` |
| `races_slot` | 2 reservations for one room, 2 threads | finding: `RoomsNotOversold` is violated |
| `races_attempts` | 1 reservation, 2 keys, 2 threads | finding: `SinglePendingAttempt` is violated |
| `calendar` | 3 days, 2 room types, 1 block, a guest for type 1 and two for any type, all meeting on day 2 | `TypeOK`; `ClosedMeansEmpty`; `UntypedAlone`; `NoDanglingType`; `AdmissionFits`; `AvailabilityExact` |
| `calendar_reuse` | the same | finding: `DraftIsUnpaid` is violated |
| `guest_client` | 1 reservation to make, 1 of another address that the browser remembers; 2 requests in flight in all, 2 polls, 2 tokens kept | `TypeOK`; `ShownPaidIsPaid`; `AutoRefreshIsSingle`; `PressesEnd` |
| `guest_tokens` | 2 reservations to make and 1 that is remembered, of one address, 2 tokens kept; 2 searches or requests of rows; nobody presses Pay (`TokensSpec`) | `PayableIsRemembered`; `BusyIsInFlight`; `AccessIsNotTraded` |
| `consoles` | part by part, see below | `TypeOK`; `ReportedTableIsMade`; `OfferIsTakenOnce`; `HistoryIsTrue`; `ChoiceIsListed`; `CountsAreOfShown`; `OfferedIsFree`; `UntouchedIsSearch`; `PaymentIsOfRoom`; `RetriedIsReloaded`; `WaitsEnd` |

What the properties say is written above each of them in the modules. Where two
statements are about one hazard they are conjuncts of one property
(`AttemptsMatchMoney` includes that one attempt at most is pending, and
`AvailabilityExact` is `CountsExact` and `WindowsExact`).

Why the bounds are enough. Rooms: with one room, a second guest is already one
too many, and the stays {n1}, {n1,n2}, {n2} contain every relation between two
stays (equal nights, overlap, disjoint) and the case where two short stays shut
out a long one. Keys: two are needed for a retry with another key; a third
behaves as the second. Events: a payment can be settled, unsettled by nothing,
and hit again, so a third event sees every status that two can produce
(`booking_provider`); the races need two on top of a thread. Threads: every
race of the two findings has two participants, and `OversellBounded` is proved
for any number. `races_mock` plays three games (`MCGames`), one of them
chosen at the start, so that their states add up: one reservation, every call, two keys
and a restart, for attempts that race to be settled; two for one room, by the calls that
take it, where a start reads what another one is about to change, a sweep selects both
and three processes may have one of them in hand; three that start, the least with
which two threads could oversell a night twice. `races_provider` has two that compete,
with every call. `races_live` has finalizers and events at the same time, which no
deployment has: each mode by itself is contained in it, since nothing is assumed that
makes a thread take a task or an event come. Restarts: one, between any two steps.
Attempts are bounded by the keys, all other state is finite. Symmetry is used for events, keys, threads and
reservations with equal stays, never in the liveness run; in `booking_mock` r1
and r3 are exchanged together with their nights.

Calendar: three days are the least on which two stays can overlap without one
containing the other, touch, and leave a window that starts late, ends early or is
cut in two; a seeded type has one or two rooms and a partner may write one or two,
active or not, before or after the other in the order, so that the primary type
and the number of rooms both change under a hold. One block is enough for the
order of a block and two guests; that several blocks add up is proved for any
number (`AdmissionsFit`).

Guest's tab: two requests in flight, of one page or of two, are what an answer
needs to be overtaken by; a second press on the same page, a page that was left,
and a backend that moves in between all fit in. One poll before the last one is the
least with which polls go on. In `guest_client` the two requests are any of
checkout, payment and account page. In `guest_tokens` they may both be of the
account page: requests of two rows, a search and a row, a search of the page that was
left and one of the page that was opened again, which `guest_client` has no room for.
There three reservations come to exist with places for two tokens: the list is filled,
renewed and overflows, and the condition of `PayableIsRemembered` is met by states up to
the full list and failed by those beyond it; without the condition TLC finds the property
violated there, after the list has dropped the draft whose payment page is open. Tokens
do not depend on money, so that run leaves Pay out, and with it what the polls multiply;
two searches, or two rows, overlap there while two of the three reservations exist. That
more reservations, rows and requests change nothing is proved (`ShownPaidIsAlwaysPaid`,
`BusyIsAlwaysInFlight`, `AccessIsNeverTraded`, `PayableIsAlwaysRemembered`), also of
the 50 places of the code.

Consoles (the bounds are `MCBounded` and `MCInit` in `ConsolesMC`, each with its
comment). In-stay page: two flows, one offer of the chat, one request that goes on
without the page, one PATCH of the partner while at most one flow runs; one dish,
one slot, so that every second booking competes for it. Service desk: one request
of the guests and two handlers. Listings: two listings and two handlers, of which
the second only loads the list; calendar: one listing and one that is gone, one
handler, two nights, since the race is between dates and answers. Desk: one
reservation, one ticket, two notices, two handlers, two loads. Search: five days,
of which one is past, four addresses with and without dates that make sense.
Chat: two rooms, two reservations, two turns, the state of one other language.
Handlers beyond these bounds repeat what two can do to each other: every property
here is about one flag, one row or one answer that a second handler disturbs.

Each property has a mutant in `PROJECT.json`: a plausible mistake in one mapped
definition (defined next to it, `Mutant:`) with which TLC finds the property
violated.

### Fairness

`PaymentRaces`: time passes (`Elapse`), every handler that has begun goes on
(`Proceed`; its network calls have timeouts and their exceptions are swallowed),
and the worker scans (`SweepSelect(Loop)`): `_reservation_expire_worker` is a
`while True` with a sleep of at least 15 s that logs every exception and continues
(`main.py:112-124`). Weak fairness suffices, as the loop is idle again after each
webhook and events are bounded. Nothing is assumed of clients, of the provider, or
of background tasks.

The pages: a request that was sent ends, with an answer or with an error, which a
browser guarantees, and the handler that awaits it is then run: `CheckoutAnswers(i)`
for each place in the queue, `PaymentAnswers`, `FlowAnswers(f)`, `TurnSteps(k)`,
`CreateSteps`, `LogArrives`; and a timer that is set and not cleared fires
(`Fires`). All are weak: each is enabled until it happens. Nothing is assumed of
people, who may leave, press again or never come back, so that the liveness
properties have the form `[]<>~waiting`: a page may wait for a new request at
once, but it does not wait for ever for one. In `PressesEnd` the press of Pay also
ends because the polls are bounded (`waitForFinalPayment`).

## 4. The proofs

`BookingProofs`, `PaymentRacesProofs`, `RoomInventoryProofs`, `CalendarProofs`,
`GuestClientProofs`, `GuestRequestsProofs`, `ConsolesProofs` and `InStayProofs` prove
the following for every set of reservations, nights, stays, keys, events, threads,
room types, blocks, requests, flows and rows, every number of rooms and every mode,
from the assumptions named in the modules: finitely many reservations and threads,
`Inventory \in Nat`, the constants' types; of the staff in `Concierge`, that they set
a table only to confirmed or cancelled there; of the calendar that a partner edits,
that a stretch between two of its nights is made of its nights; of a browser, that it
starts with no more tokens than its list holds. Time does not matter to safety, so no
fairness is used. A theorem about the pages leaves every bound on requests in flight
open.

Every safety property that a passing run checks, invariant or action property, is
stated by one of these theorems. Where a theorem has a hypothesis its row names it, and
the run that checks the property meets it.

| Theorem | Says | Argument |
|---|---|---|
| `Booking`: `TypeCorrect` | `Spec => []TypeOK` | inductive; the sequence lemmas bound the rows that tasks and webhooks name |
| `CheckedHoldsAlwaysFit` | `[]CheckedHoldsFit` | every step either only releases checked holds (`OnlyReleases`) or admits one reservation after the others left a room (`Admits`); counting (`CapacityStep`) |
| `ImplementsLedger` | `Spec => LedgerSpec` | the same two cases are `Release` and `Acquire` of the ledger |
| `MockModeNeverOversells` | without webhooks `[]RoomsNotOversold` | `unchecked = {}` is invariant, so all holds are checked |
| `HeldAlwaysHasDeadline`, `PaidIsNeverOpen` | the two invariants | each inductive on `TypeOK` |
| `ConfirmedIsAlwaysKept` | `ConfirmedIsKept` | by the transition table: no action moves `confirmed` but `Cancel` |
| `ProviderMoneyNeverForgotten`, `MockMoneyNeverForgotten` | in provider and in mock mode `MoneyNeverForgotten` | with a provider `finalizers = {}`; without webhooks and legacy calls a late finalizer is stopped by the attempts' statuses (`AttemptStories`) |
| `AttemptsAlwaysMatchMoney`, `CancelledIsAlwaysRefunded` | without webhooks and legacy calls `[]AttemptsMatchMoney`; without webhooks `[]CancelledIsRefunded` | `AttemptStories`, see below; the refund comes with the cancellation, and what is in flight then can only fail |
| `PaymentRaces`: `TypeCorrect` | rows and sessions well formed | one lemma for each way a session changes (`Done`, `Decide`, unchanged), one for the commit |
| `OversellStaysBounded` | `[]OversellBounded` | see below |
| `OneThreadNeverOversells` | one thread, no webhooks: `[]RoomsNotOversold` | the bound with one taker is `Inventory`, and nothing is unchecked |
| `HoldsAlwaysRunFullTerm` | `HoldsRunFullTerm` | `TermInv`, see below |
| `MoneyIsAlwaysFromAttempts` | without webhooks `MoneyIsFromAttempts` | `MoneyInv`, see below |
| `QuietGuestsAlwaysKeep` | in mock mode and with a provider, not with both at once: `QuietGuestsKeep` | `QuietInv`, see below |
| `RoomInventory`: `WindowsAre`, `CountIs` | the windows are the runs of free days, the count of a stay is its minimum | least counterexample, see below |
| `Calendar`: `TypeCorrect` | `Spec => []TypeOK` | inductive |
| `ClosedHouseIsEmpty`, `UntypedIsAlone` | the two invariants | every step gives nothing away (`Shrinks`), admits one guest who was checked (`Admits`), or adds one block that was (`Adds`): lemma `Classes`, and one case for each class; rows that overlap share a night (`SharedNight`) |
| `TypesAreKept` | `[]NoDanglingType` | action by action |
| `AdmissionsFit` | `AdmissionFits` | the same classes; counting guests and blocked rooms as finite sets, since a partner may lower the number of rooms, only the steps that give rooms away are bounded |
| `AvailabilityIsExact` | `[]AvailabilityExact`, of ranges that begin before they end and stay within the calendar (the only ones the handlers let through) | follows from `TypeOK` alone: the loops of the service are `HasRooms`, whatever the rows are |
| `GuestClient`: `ShownPaidIsAlwaysPaid` | `Spec => []ShownPaidIsPaid` | see below |
| `BusyIsAlwaysInFlight`, `AutoRefreshIsAlwaysSingle` | the two invariants | one live search, one live automatic refresh, none of a page that was left; see below |
| `GuestTypesHold` | `Spec => []TypeOK` | `GuestInv`, see below |
| `AccessIsNeverTraded` | `AccessIsNotTraded` | what a step makes of the list (`StoreMoves`), see below |
| `PayableIsAlwaysRemembered` | `[]PayableIsRemembered` | as long as what exists fits in the list (`Fits`), every reservation that a page, a redirect or a press of Pay names is in it (`KnownInv`) |
| `Consoles`: `PaymentIsAlwaysOfRoom` | `[]PaymentIsOfRoom` | every draft names a room, every payment was made for its room (`ChatInv`), wherever they are: in the chat, a turn, a memory, a redirect |
| `ChoiceIsAlwaysListed`, `CountsAreAlwaysOfShown` | the two invariants | `EditorInv`: what was chosen is dropped with the row; counts that are shown were asked for what is shown, and a load that was overtaken is cancelled |
| `UntouchedIsAlwaysSearch` | `[]UntouchedIsSearch` | case by place: the effects that refill the picker run with every search that arrives |
| `OfferedIsAlwaysFree` | `[]OfferedIsFree` | `WindowsAre`: a window that contains the stay is a run of days on which a room is free |
| `TypeCorrect` | `ConsolesSpec => []TypeOK` | page by page, see below |
| `ServicesAreTyped` | rows, flows, cards and handlers well formed | inductive, with `RowsKept` for every step: no row is taken back, its `from` and `slot` stay, `been` only grows |
| `ReportedTableIsAlwaysMade` | `[]ReportedTableIsMade` | `ReportInv`: a flow that has its answer, or loads the lists after it, has its booking |
| `HistoryIsAlwaysTrue` | `[]HistoryIsTrue` | see below |
| `OfferIsAlwaysTakenOnce` | `[]OfferIsTakenOnce` | see below |

`OversellBounded` is not inductive: it says nothing about processes that have
checked and not yet committed. `PromisesBounded` counts, for each night, the
checked holds *together with* the reservations of processes that hold a decision
to take a room (`Promised`), against `Inventory` plus the number of those
processes (`Admitting`), minus one when there is one. A new decision is made when
a room is free among the holds, and so adds at most itself; a commit turns a
promise into a hold and ends a process's turn; a sweep or cancellation between
the two only removes holds. `LoopOK` says that the loop decides only webhooks.

`ShownPaidIsPaid` speaks of the address of the result page only. `PaidInv` adds
that "paid" is true wherever it is on its way there (`NothingFalse`: the pending
navigation, the redirect that waits for its timer, the answer in the hands of
`onPay`), that the backend never takes back what it received (`ServerKeeps`, one
lemma for each handler), and, for that, that nothing in flight can still fail a
payment that was received (`ReceivedIsClosed`): it has no attempt, and its status
admits none.

`BusyIsInFlight` and `AutoRefreshIsSingle` need to know that requests of a page
that was left are not live, so that the page, when it is opened again, starts
without any; requests are sequences in which an entry that leaves moves the later
ones up (`OthersStay`), and "one at a time" is said of places.

`HistoryIsTrue` looks at the rows only, but a status reaches a row by a way that
starts at what a console showed, which may be old. `Justified` says that the stage
before a status was reached; it is kept for a PATCH that has read its row
(`PatchesTrue`), a handler that has not been served (`TasksTrue`) and the rows that
are shown (`ShownTrue`), because `been`, unlike the status, only grows.

`OfferIsTakenOnce` rests on the page: the chat waits for one action at a time, it is
`busy` and was not completed before (`OneAction`); what came of an action has been
completed or is about to be (`OrdersTaken`, `TablesTaken`); and a request that the
page has given up, and that the backend may still carry out, is the only one of its
action, which nothing has come of yet (`StraysAlone`).

`AttemptsMatchMoney` compares the attempts of a reservation with its payment, and
none of the handlers does: each looks at the status, the payment or one attempt.
`AttemptStories` says what they may rely on: only the last attempt can be in flight,
then the reservation is no draft and has no money yet, and money was received
exactly when some attempt is paid. A finalizer that comes late finds its attempt
closed, so that it can neither pay a refunded reservation nor take the money back
of a paid one; a sweep or a cancellation leaves an attempt in flight, and its finalizer
then closes it without money. A webhook may put a second attempt beside one that is in
flight, and a legacy call pays without an attempt, which is why this is stated of the
mode without them.

`QuietGuestsKeep` speaks of reservations that were never
written behind another process's back (`contended` is the history of the others). For
them `QuietInv` says that what each process has read, selected or decided is still what
the row says (`Current`), and that each decision, if it is committed now, keeps the
story of the attempts, the money and the room (`PlanTells`, `PlanSafe`), however many
processes have one ready. The first of them to commit makes the reservation contended,
if there are others; a commit elsewhere moves another row. A deployment has a provider
or mocks it (`normalized_payment_provider`, `payment_service.py:320`). The webhook
endpoint takes signed events in mock mode too, but nobody is there to send them: of
events beside mock finalizers it claims nothing.

`HoldsRunFullTerm` is about two steps that are far apart: the commit of a start, which
must set `attempted_at` whatever it held, and the commit of a sweep, which must not
expire what a start renewed after its SELECT. `TermInv` carries what the first does
over to the second: a hold always has an `attempted_at`, so no sweep selects it by its
creation (`HeldHasDeadline`); a plan that takes a room after a check sets the time
itself, and no plan writes "expired" (`PlanKeepsTerm`); and of a reservation nobody
wrote behind a back, what is selected is still overdue and what was loaded is still so
(`SeesRow`).

`MoneyIsFromAttempts` holds of contended rows too, and cannot rest on what the row
says. `MoneyInv` follows the attempts instead: a task in the queue, and one that a
thread has taken, has its attempt still pending, no two processes have the same
(`Settles`, `Task`), and a plan that writes "paid" writes its attempt as well, one that
writes "refunded" found money that an attempt had brought in (`PlanFunded`). So a start, a sweep or a
cancellation may overwrite the status and the payment, but nobody can write an attempt
that another one has settled.

`AvailabilityExact`, `OfferedIsFree` and the two properties of the tokens rest on
recursive definitions: a table made by folds over rows, a scan over days, a list that
is made by a loop. Each is taken as the function that it is, and what is claimed of its
value at n is shown by the least counterexample: if some n had none, there would be a
least one, and its predecessor gives it what it needs (`LeastNat`, from the
well-foundedness of the order of the naturals). For the scan, `Scanned` says what holds
after the days up to d: which windows are closed, which one is open and since when, and
its smallest count. `FoldSet` is first shown to be the sum that is cut at zero, in
whatever order the rows come.

`GuestInv` adds to the types that the list of tokens holds a reservation once, that a
draft that is answered is one of the new reservations, and so is whatever a page, a
navigation, a redirect or a press of Pay names (`CarriedAreOwn`), and that a search asks
for no more than is stored and finds nothing that it did not ask for (`FewLoad`). The
last one makes `AccessIsNotTraded` true: the reservations that an answer names are all
remembered again, one after the other, each at the end of the list; they fit in it, so
that the first ones are still there after the last (`EndsWith`), and if all of them were
known nothing is cut off. An answer that brings in one that had been dropped meanwhile
may cost another one its place: the property says no less. `PayableIsRemembered` is not
claimed when more reservations exist than the list has places: the oldest token goes
when another one is remembered, and a page that is open for it, or on its way, stays
(section 5). The condition is part of the property, and looks at what exists by now, so
that the theorem needs none about the constants: `KnownInv` says that what is stored,
drafted, found or carried exists (`Known`), and that all that is carried is stored as
long as `Known` fits; `Known` only grows, so what fits now always did.

The types of `Consoles` are not inductive either. Of the chat: what is drafted is
complete, what is being collected is not, there is one of the two at most
(`OneAtATime`), also in the memory of the other language, and no message is sent while
something is drafted, so that no turn brings a draft back (`NoDraftIsSent`). Of the
listings: only handlers that change the list go on to load it, and the handler of a block
that was made has the id of the block (`JobsOfKind`). Of the desk: a handler ends on a
row of the kind that it began with (`WorkOfKind`). Of the search the types suffice.

Only model-checked: liveness (`HoldIsResolved`, `PressesEnd`, `WaitsEnd`,
`RetriedIsReloaded`), which is out of the prover's reach, and the three findings, which
are violations.

## 5. Findings and limits of the code

* `races_slot`: `_ensure_payment_start_allowed` says "We only lock calendar slots
  when payment starts", but it counts (`payment_service.py:88`) and commits later
  (`:249`) without a lock. Two starts put two guests in the last room. The theorem
  `OversellStaysBounded` says how bad this can get.
* `races_attempts`: "Prevent duplicate in-flight payment attempts" (`:219`) tests a
  status that the route loaded before; two starts with different keys both
  insert a pending attempt.
* `calendar_reuse`: "Hard-delete dependent booking records to prevent stale
  conflicts when ids are reused in SQLite" (`api/listings.py:610`), but payments and
  attempts stay. The next reservation gets the old id and keeps the payment row it
  finds (`reservation_service.py:545`), which may be paid. PostgreSQL does not hand
  out ids twice, and refuses to delete a reservation that has a payment.

Not findings, as no text promises otherwise, but a maintainer should know. In the
backend:

* a paid event confirms a draft on a full night (`:553`); a pending event with an
  unknown key adds a second pending attempt (`:458`), so one pending attempt is
  only promised without webhooks; a pending event that revives a draft keeps the
  `attempted_at` of an older attempt (`:543`), and the next sweep may expire it at
  once: `HoldsRunFullTerm` is about the holds that starts take;
* `has_conflict` compares a reservation without type with its like only, so that
  typed guests and an untyped one may fill the same rooms twice, one handler after
  the other; `build_room_availability` fails when no type is active
  (`room_inventory_service.py:273`);
* `create_restaurant_booking` looks for another booking of the guest and inserts
  later (`api/instay.py:432`; the comment at `:445` wants one active booking per
  guest and slot); a PATCH takes any status after any other, tickets included;
* `delete_photo` promotes the photo that is sorted first even when another one is
  the cover (`photo_service.py:99-104`).

In the client:

* Checkout: the links to another tariff change only the address, but the page keeps
  the quote it was made with (`CheckoutShell.tsx:257`, `:137`); a refresh that ends
  after the submit pulls the guest back from the payment page (`:226`).
  `isQuoteError` is asked about the message after it was translated
  (`ReservationForm.tsx:185`, `:383`), so the refresh for a refused draft is never
  made: the branch is in the model (`"retry"`) and unreachable.
* Tokens: the list keeps the newest 50 whatever is open, so with a 51st reservation
  the page of a payment may be that of a reservation whose token was dropped
  (`lib/guestAccess.ts:28`).
* Payment: a scheduled redirect is not cancelled when Pay is pressed again. Account:
  `busyReservationId` is one field, so that the row that was pressed last frees
  all; a list that was loaded before a cancellation may overwrite its row.
* In-stay: an action of the chat counts as completed when its request failed, and
  is not offered again.
* Partner: answers of older lists overwrite newer ones; opening a listing starts
  four loads that nothing guards (`app/manager/page.tsx:680`), and blocks and room
  types are written from the rows of the render (`:1522`, `:1533`), so that rows of
  one listing may be shown under another; a block may be created while the counts
  are loading; a failed mark restores what was shown before it, and with it undoes
  marks that succeeded meanwhile; the delayed reload of the log uses the filters of
  the retry.
* Search: the booking card never becomes ready again after its first search
  (`isApplyingSearch`); a search that is edited while the page loads is overwritten;
  one failing request makes the page of a stay "not found".
* Chat: the client asks the server only when nothing is drafted, so `booking_state`
  is never sent with a draft and the server's echo of one is dead code; a
  reservation that is answered late closes whatever draft is open; the memory of
  another language can bring back a draft that was booked; starting anew does not
  cancel the redirect; a turn that ends frees the message field for all; the typing
  mark stays when a chip's catalogue request fails.

## 6. What is not modelled

* Quote locks as a table (a submit is accepted or refused), the search for a
  duplicate at creation beyond "the open draft is found", prices, tariffs and
  refunds as amounts: floating-point tables of which only "refundable" matters
  to the protocols.
* Accounts: sign-up, one-time tokens, the login limit, hashing and signatures.
* Photos, leads, analytics, operations and reports: each handler is one commit of
  one row, or reads.
* Delivery and wording of notifications; what a chat message means, which rooms an
  answer shows, comparisons and cards, the chat's own poll of a payment.
* Of the pages: layout, texts, filters that only choose rows to show, maps, price
  fields, the restaurants of the catalogue (as dishes are), the filter of orders,
  and pages without state.
* In `Rooms` all reservations compete for one type; several types, blocks and
  reservations without type are in `Calendar`, whose handlers do not interleave. The
  owner of a listing is left out. Two writes that the database orders within one commit
  are one step. Several tabs of one browser share tokens only.
* Migrations, seeds, deployment scripts.

## 7. How it was built, and what could follow

The order was: `Lifecycle`, `Rooms`, `Booking`, `RoomLedger`, `PaymentRaces` and
their proofs; `RoomInventory`, `Calendar` and theirs; the guest's tab from the
checkout on, with its proof; then the pages around it, smallest first, composed in
`Consoles`. What would add most from here: creation in full (two submits that
interleave, the quote lock and its clean-up) and `create_block` beside a payment
start in `PaymentRaces`, with the theorems that `Calendar` has; `Accounts` with its
one-time tokens; and a refinement of `Booking` by the processes of `PaymentRaces` that
are not contended, of which `QuietInv` has the invariant.
