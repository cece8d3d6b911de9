----------------------------- MODULE ManagerEditor -----------------------------
(***************************************************************************)
(* The partner's listings and their editor: the list, the selection and    *)
(* the form of app/manager/page.tsx, with the room types                   *)
(* (ManagerRoomTypesSection) and the availability and blocks               *)
(* (ManagerAvailabilitySection) of the listing in the form.  The handlers  *)
(* go on with what they saw when they were pressed, and another listing    *)
(* may be opened at any time.                                              *)
(***************************************************************************)
EXTENDS Integers, FiniteSets

CONSTANTS
    Listings,   \* ids the backend may give to listings
    Types,      \* ids the backend may give to room types
    Blocks,     \* ids the backend may give to blocks
    OfListing,  \* the listing that an id of a type or block is given for
    Nights,     \* the nights of the calendar
    EditorJobs, \* bound: the handlers that are under way at once
    NoJob, NoAnswer,
    Whole       \* "the whole listing" in the block form

ASSUME EditorAssumption ==
    /\ Listings \subseteq Nat \ {0} /\ Types \subseteq Nat \ {0} /\ Blocks \subseteq Nat
    /\ EditorJobs \subseteq Nat
    /\ Nights \subseteq Nat /\ \A a, b \in Nights : a..b \subseteq Nights
    /\ OfListing \in [ Types \cup Blocks -> Listings ]

ListingState == { "none", "active", "hidden", "gone" }
TypeState == { "none", "active", "hidden", "gone" }

\* Check-in and check-out, as the nights between them; none when they are not in
\* order.
Ranges == { r \in SUBSET Nights : \A a, b \in r : a..b \subseteq r }

\* What the backend says of a listing: the windows with a free room of its type.
Availability == [ listing : Listings, nights : Ranges, windows : SUBSET Ranges ]
Asked == [ listing : Listings, nights : Ranges ]

\* A handler of the page, with what it saw when it was pressed: the listing of
\* the form, the selection, or the rows of its section; list is the answer.
Job == [ op : { "load", "save", "bulk", "delete", "block", "unblock",
                "type", "change", "drop" },
         id : Nat, edited : Listings \cup {0}, picked : SUBSET Listings,
         types : [ Types -> TypeState ], blocks : SUBSET Blocks,
         section : { "none", "types", "blocks" }, list : SUBSET Listings,
         step : { "send", "list", "rows", "end" } ]

VARIABLES
    listing, roomType, block,   \* what the backend has
    items,          \* the list that is shown
    selectedIds, inStayListingId, editingId,
    shownTypes, shownBlocks,    \* roomTypes and blocks of the page
    opened,         \* the listings whose rows startEdit has asked for
    jobs,           \* jobs[j]: the handler that j runs
    dates, chosen,  \* checkIn and checkOut; selectedRoomTypeId
    availability, waiting,      \* availability; loading
    asked           \* the requests that may still write the availability

backendVars == << listing, roomType, block >>
listVars == << items, selectedIds, inStayListingId >>
rowVars == << shownTypes, shownBlocks, opened >>
sectionVars == << dates, chosen, availability, waiting, asked >>
editorVars == << backendVars, listVars, editingId, rowVars, jobs, sectionVars >>

ManagerEditorTypeOK ==
    /\ listing \in [ Listings -> ListingState ]
    /\ roomType \in [ Types -> TypeState ]
    /\ block \in [ Blocks -> BOOLEAN ]
    /\ items \subseteq Listings /\ selectedIds \subseteq Listings
    /\ << inStayListingId, editingId >> \in (Listings \cup {0}) \X (Listings \cup {0})
    /\ shownTypes \in [ Types -> TypeState ]
    /\ shownBlocks \subseteq Blocks
    /\ opened \subseteq Listings
    /\ jobs \in [ EditorJobs -> Job \cup {NoJob} ]
    /\ dates \in Ranges /\ chosen \in Types \cup { 0, Whole }
    /\ availability \in Availability \cup {NoAnswer} /\ waiting \in BOOLEAN
    /\ asked \subseteq Asked

----------------------------------------------------------------------------
\* The availability of the listing that is edited

\* editingListing: null when the list has it no longer.
Shown(id, list) == IF id \in list THEN id ELSE 0

\* Mutant: the cleanup of the effect does not mark the request as cancelled.
CancelledNever(requests) == requests

\* The answers that may still be written once the effect has run anew.
Cancelled(requests) == {}

\* The effect of ManagerAvailabilitySection; the section is there while a
\* listing is edited, and is made anew for the next one only if it was closed.
Asks(id, nights) ==
    IF id = 0 \/ nights = {}
    THEN /\ asked' = Cancelled(asked)
         /\ availability' = NoAnswer
         /\ waiting' = waiting
    ELSE /\ asked' = Cancelled(asked) \cup {[ listing |-> id, nights |-> nights ]}
         /\ availability' = availability
         /\ waiting' = TRUE

Closed ==
    /\ asked' = Cancelled(asked)
    /\ availability' = NoAnswer /\ waiting' = FALSE
    /\ dates' = Nights /\ chosen' = 0

\* The first active type is chosen unless the choice is one of them, or Whole.
ActiveTypes(types) == { t \in Types : types[t] = "active" }
Chosen(choice, types) ==
    IF ActiveTypes(types) = {} \/ choice \in ActiveTypes(types) \cup {Whole}
    THEN choice
    ELSE CHOOSE t \in ActiveTypes(types) : \A u \in ActiveTypes(types) : t <= u

\* What the section does when the listing of the form changes to id.
SectionFollows(edited, list) ==
    IF edited = 0 THEN Closed
    ELSE /\ IF Shown(edited, list) = Shown(editingId, items)
            THEN UNCHANGED << asked, availability, waiting >>
            ELSE Asks(Shown(edited, list), dates)
         /\ UNCHANGED << dates, chosen >>

\* exactAvailableCount: the window has all of the nights.
Fits(window) == dates \subseteq window

\* selectedAvailability is the count of the chosen type among those that were
\* answered; canCreateBlock does not look at loading.
CountShown ==
    /\ availability # NoAnswer
    /\ chosen \in Types /\ OfListing[chosen] = availability.listing
    /\ \E window \in availability.windows : Fits(window)

CanCreateBlock ==
    /\ Shown(editingId, items) # 0 /\ dates # {}
    /\ chosen = Whole \/ CountShown

AvailabilityArrives(q, ok) ==
    /\ q \in asked
    /\ asked' = asked \ {q}
    /\ waiting' = FALSE
    /\ ok => listing[q.listing] = "active"
    /\ IF ok
       THEN \E window \in SUBSET q.nights :
              /\ window \in Ranges
              /\ availability' = [ listing |-> q.listing, nights |-> q.nights,
                                   windows |-> {window} ]
       ELSE availability' = NoAnswer
    /\ UNCHANGED << backendVars, listVars, editingId, rowVars, jobs, dates, chosen >>

SetDates(nights) ==
    /\ editingId # 0 /\ dates # nights
    /\ dates' = nights
    /\ Asks(Shown(editingId, items), nights)
    /\ UNCHANGED << backendVars, listVars, editingId, rowVars, jobs, chosen >>

\* refreshAvailability, by the button: not while loading.
RefreshCounts ==
    /\ Shown(editingId, items) # 0 /\ ~waiting /\ dates # {}
    /\ Asks(editingId, dates)
    /\ UNCHANGED << backendVars, listVars, editingId, rowVars, jobs, dates, chosen >>

Choose(choice) ==
    /\ Shown(editingId, items) # 0 /\ choice # chosen
    /\ choice \in ActiveTypes(shownTypes) \cup {Whole}
    /\ chosen' = choice
    /\ UNCHANGED << backendVars, listVars, editingId, rowVars, jobs, dates,
                    availability, waiting, asked >>

----------------------------------------------------------------------------
\* Opening and closing the form

\* startEdit: the blocks of the listing before stay until its own have come.
StartEdit(id) ==
    /\ id \in items
    /\ editingId' = id
    /\ shownTypes' = [ t \in Types |-> "none" ]
    /\ opened' = opened \cup {id}
    /\ SectionFollows(id, items)
    /\ UNCHANGED << backendVars, listVars, shownBlocks, jobs >>

Reset ==
    /\ editingId' = 0
    /\ shownTypes' = [ t \in Types |-> "none" ]
    /\ shownBlocks' = {}
    /\ Closed

\* Closing the form leaves the requests of its sections to themselves.
Orphaned == [ j \in EditorJobs |-> IF jobs[j] = NoJob THEN NoJob
                                   ELSE [ jobs[j] EXCEPT !.section = "none" ] ]

\* resetForm, by the button.
CancelEdit ==
    /\ editingId # 0
    /\ Reset
    /\ jobs' = Orphaned
    /\ UNCHANGED << backendVars, listVars, opened >>

\* loadRoomTypes and loadBlocks write whatever listing is edited by then.  The
\* requests are not counted: their answers come at any time, or never.
TypesArrive(id) ==
    /\ id \in opened
    /\ shownTypes' = [ t \in Types |-> IF OfListing[t] = id /\ roomType[t] # "gone"
                                      THEN roomType[t] ELSE "none" ]
    /\ chosen' = IF editingId # 0 THEN Chosen(chosen, shownTypes') ELSE chosen
    /\ UNCHANGED << backendVars, listVars, editingId, shownBlocks, opened, jobs, dates,
                    availability, waiting, asked >>

BlocksArrive(id) ==
    /\ id \in opened
    /\ shownBlocks' = { b \in Blocks : block[b] /\ OfListing[b] = id }
    /\ UNCHANGED << backendVars, listVars, editingId, shownTypes, opened, jobs,
                    sectionVars >>

----------------------------------------------------------------------------
\* The list

ToggleSelect(id) ==
    /\ id \in items
    /\ selectedIds' = IF id \in selectedIds THEN selectedIds \ {id}
                      ELSE selectedIds \cup {id}
    /\ UNCHANGED << backendVars, items, inStayListingId, editingId, rowVars, jobs,
                    sectionVars >>

\* selectAll takes the rows that the filters leave; clearSelection takes none.
SelectAll(filtered) ==
    /\ filtered \subseteq items
    /\ selectedIds' = filtered
    /\ UNCHANGED << backendVars, items, inStayListingId, editingId, rowVars, jobs,
                    sectionVars >>

PickInStay(id) ==
    /\ id \in items /\ inStayListingId # id
    /\ inStayListingId' = id
    /\ UNCHANGED << backendVars, items, selectedIds, editingId, rowVars, jobs,
                    sectionVars >>

FreeJob(j) == jobs[j] = NoJob /\ \A i \in EditorJobs : i < j => jobs[i] # NoJob
Does(j, ops, step) == jobs[j] # NoJob /\ jobs[j].op \in ops /\ jobs[j].step = step
Starts(j, op, id, section) ==
    /\ FreeJob(j)
    /\ jobs' = [ jobs EXCEPT ![j] =
         [ op |-> op, id |-> id, section |-> section, list |-> {},
           edited |-> IF op \in { "load", "save", "bulk" } THEN 0 ELSE editingId,
           picked |-> IF op = "bulk" THEN selectedIds ELSE {},
           types |-> IF section = "types" THEN shownTypes ELSE [ t \in Types |-> "none" ],
           blocks |-> IF section = "blocks" THEN shownBlocks ELSE {},
           step |-> IF op = "load" THEN "list" ELSE "send" ] ]
    /\ UNCHANGED << backendVars, listVars, editingId, rowVars, sectionVars >>
Stops(j) == jobs' = [ jobs EXCEPT ![j] = NoJob ]

\* The effect of the filters loads the list anew; onSubmit; onBulkStatus;
\* onDelete, confirmed.
Reload(j) == Starts(j, "load", 0, "none")
Submit(j) == Starts(j, "save", editingId, "none")
Bulk(j) == selectedIds # {} /\ Starts(j, "bulk", 0, "none")
Delete(j, id) == id \in items /\ Starts(j, "delete", id, "none")

Owned(id) == listing[id] \in { "active", "hidden" }

\* update_listing, create_listing, bulk_set_status and delete_listing.
Serve(j) ==
    /\ \/ /\ Does(j, {"save"}, "send") /\ jobs[j].id # 0 /\ Owned(jobs[j].id)
          /\ \E s \in { "active", "hidden" } :
               listing' = [ listing EXCEPT ![jobs[j].id] = s ]
       \/ /\ Does(j, {"save"}, "send") /\ jobs[j].id = 0
          /\ \E id \in Listings, s \in { "active", "hidden" } :
               /\ listing[id] = "none"
               /\ \A i \in Listings : i < id => listing[i] # "none"
               /\ listing' = [ listing EXCEPT ![id] = s ]
       \/ /\ Does(j, {"bulk"}, "send") /\ \E id \in jobs[j].picked : Owned(id)
          /\ \E s \in { "active", "hidden" } :
               listing' = [ id \in Listings |->
                              IF id \in jobs[j].picked /\ Owned(id) THEN s ELSE listing[id] ]
       \/ /\ Does(j, {"delete"}, "send") /\ Owned(jobs[j].id)
          /\ listing' = [ listing EXCEPT ![jobs[j].id] = "gone" ]
    /\ jobs' = [ jobs EXCEPT ![j].step = "list", ![j].picked = {},
                             ![j].id = IF jobs[j].op = "delete" THEN @ ELSE 0 ]
    /\ UNCHANGED << roomType, block, listVars, editingId, rowVars, sectionVars >>

\* getMyListings answers with the rows of its moment.
ServeList(j) ==
    /\ jobs[j] # NoJob /\ jobs[j].step = "list"
    /\ jobs' = [ jobs EXCEPT ![j].step = "rows", ![j].list = { id \in Listings : Owned(id) } ]
    /\ UNCHANGED << backendVars, listVars, editingId, rowVars, sectionVars >>

\* Mutant: the selection is kept as it is.
KeptAll(chosenIds, list) == chosenIds

\* What stays selected of the rows that were loaded.
Kept(chosenIds, list) == chosenIds \cap list

\* loadListings; the service desk keeps its listing, or takes the first.
ListArrives(j) ==
    /\ jobs[j] # NoJob /\ jobs[j].step = "rows"
    /\ LET list == jobs[j].list IN
         /\ items' = list
         /\ selectedIds' = Kept(selectedIds, list)
         /\ inStayListingId' \in
              (IF list = {} THEN {0}
               ELSE IF inStayListingId \in list THEN {inStayListingId} ELSE list)
         /\ SectionFollows(editingId, list)
    /\ jobs' = [ jobs EXCEPT ![j] = IF @.op = "load" THEN NoJob
                                    ELSE [ @ EXCEPT !.step = "end", !.list = {} ] ]
    /\ UNCHANGED << backendVars, editingId, rowVars >>

\* A handler stops at a request that fails; a list that fails is passed over.
JobFails(j) ==
    /\ jobs[j] # NoJob
    /\ \/ jobs[j].step = "send" /\ Stops(j)
       \/ jobs[j].step \in { "list", "rows" }
            /\ jobs' = [ jobs EXCEPT ![j] = IF @.op = "load" THEN NoJob
                            ELSE [ @ EXCEPT !.step = "end", !.list = {} ] ]
    /\ UNCHANGED << backendVars, listVars, editingId, rowVars, sectionVars >>

\* After the other lists: onSubmit closes whatever form is open by now, onDelete
\* the one that was open when it was pressed if it was of the deleted listing.
EndList(j) ==
    /\ Does(j, { "save", "bulk", "delete" }, "end")
    /\ IF jobs[j].op = "save" \/ (jobs[j].op = "delete" /\ jobs[j].edited = jobs[j].id)
       THEN Reset /\ jobs' = [ Orphaned EXCEPT ![j] = NoJob ] /\ UNCHANGED opened
       ELSE Stops(j) /\ UNCHANGED << editingId, rowVars, sectionVars >>
    /\ UNCHANGED << backendVars, listVars >>

----------------------------------------------------------------------------
\* The room types and the blocks: each section has one request at a time

Saving(section) == \E j \in EditorJobs : jobs[j] # NoJob /\ jobs[j].section = section
MayStart(section) == Shown(editingId, items) # 0 /\ ~Saving(section)

\* ManagerAvailabilitySection: onCreateBlock and onDeleteBlock.
CreateBlock(j) ==
    /\ MayStart("blocks") /\ CanCreateBlock
    /\ Starts(j, "block", IF chosen = Whole THEN 0 ELSE chosen, "blocks")

DeleteBlock(j, b) ==
    /\ MayStart("blocks") /\ b \in shownBlocks
    /\ Starts(j, "unblock", b, "blocks")

\* ManagerRoomTypesSection: onSubmit, toggleActive and remove.
CreateType(j) == MayStart("types") /\ Starts(j, "type", 0, "types")
ChangeType(j, op, t) ==
    /\ MayStart("types") /\ shownTypes[t] # "none"
    /\ Starts(j, op, t, "types")

\* The backend looks for the id in the listing of the request, and refuses one of
\* another; id becomes the id of the row.
ServeRow(j) ==
    /\ jobs[j] # NoJob /\ jobs[j].step = "send" /\ Owned(jobs[j].edited)
    /\ \E id \in Types \cup Blocks :
         /\ OfListing[id] = jobs[j].edited
         /\ \/ /\ jobs[j].op = "block" /\ id \in Blocks /\ ~block[id]
               /\ jobs[j].id # 0 => OfListing[jobs[j].id] = jobs[j].edited
               /\ block' = [ block EXCEPT ![id] = TRUE ] /\ UNCHANGED roomType
            \/ /\ jobs[j].op = "unblock" /\ id \in Blocks /\ id = jobs[j].id /\ block[id]
               /\ block' = [ block EXCEPT ![id] = FALSE ] /\ UNCHANGED roomType
            \/ /\ jobs[j].op = "type" /\ id \in Types /\ roomType[id] = "none"
               /\ \E s \in { "active", "hidden" } :
                    roomType' = [ roomType EXCEPT ![id] = s ]
               /\ UNCHANGED block
            \/ /\ jobs[j].op = "change" /\ id \in Types /\ id = jobs[j].id
               /\ roomType[id] \in { "active", "hidden" }
               /\ \E s \in { "active", "hidden" } :
                    roomType' = [ roomType EXCEPT ![id] = s ]
               /\ UNCHANGED block
            \/ /\ jobs[j].op = "drop" /\ id \in Types /\ id = jobs[j].id
               /\ roomType[id] \in { "active", "hidden" }
               /\ roomType' = [ roomType EXCEPT ![id] = "gone" ] /\ UNCHANGED block
         /\ jobs' = [ jobs EXCEPT ![j].step = "end", ![j].id = id ]
    /\ UNCHANGED << listing, listVars, editingId, rowVars, sectionVars >>

\* onBlocksChange puts the rows that the handler saw, with its own change, in
\* whatever listing is edited by now; a section that is still there asks for the
\* availability again.
EndBlock(j) ==
    /\ Does(j, { "block", "unblock" }, "end")
    /\ shownBlocks' = IF jobs[j].op = "block" THEN jobs[j].blocks \cup {jobs[j].id}
                      ELSE jobs[j].blocks \ {jobs[j].id}
    /\ IF jobs[j].section = "blocks" THEN Asks(Shown(editingId, items), dates)
       ELSE UNCHANGED << asked, availability, waiting >>
    /\ Stops(j)
    /\ UNCHANGED << backendVars, listVars, editingId, shownTypes, opened, dates, chosen >>

\* onItemsChange, with the row as the backend answered it.
EndType(j) ==
    /\ Does(j, { "type", "change", "drop" }, "end")
    /\ shownTypes' = [ jobs[j].types EXCEPT ![jobs[j].id] =
                         IF jobs[j].op = "drop" THEN "none" ELSE roomType[jobs[j].id] ]
    /\ chosen' = IF editingId # 0 THEN Chosen(chosen, shownTypes') ELSE chosen
    /\ Stops(j)
    /\ UNCHANGED << backendVars, listVars, editingId, shownBlocks, opened, dates,
                    availability, waiting, asked >>

----------------------------------------------------------------------------
ManagerEditorInit ==
    /\ roomType = [ t \in Types |-> "none" ] /\ block = [ b \in Blocks |-> FALSE ]
    /\ selectedIds = {} /\ inStayListingId = 0 /\ editingId = 0
    /\ shownTypes = [ t \in Types |-> "none" ] /\ shownBlocks = {} /\ opened = {}
    /\ jobs = [ j \in EditorJobs |-> NoJob ]
    /\ dates = Nights /\ chosen = 0
    /\ availability = NoAnswer /\ waiting = FALSE /\ asked = {}

\* The console is opened; or its list has come, and another console has hidden
\* or deleted all but one of the listings since.
ListInit == items = {} /\ \E n \in Listings :
    listing = [ id \in Listings |-> IF id < n THEN "active" ELSE "none" ]
CalendarInit == items = Listings /\ \E other \in { "hidden", "gone" } :
    listing = [ id \in Listings |-> IF id = 1 THEN "active" ELSE other ]

FormNext ==
    \/ \E id \in Listings : StartEdit(id)
    \/ CancelEdit
    \/ \E id \in Listings : TypesArrive(id) \/ BlocksArrive(id)
    \/ \E q \in asked, ok \in BOOLEAN : AvailabilityArrives(q, ok)
    \/ \E j \in EditorJobs :
         Reload(j) \/ ServeList(j) \/ ListArrives(j) \/ JobFails(j)

\* The list, and the calendar of a listing.
ListingsNext ==
    \/ FormNext
    \/ \E id \in Listings : ToggleSelect(id) \/ PickInStay(id)
    \/ \E filtered \in SUBSET Listings : SelectAll(filtered)
    \/ \E j \in EditorJobs :
         \/ Submit(j) \/ Bulk(j) \/ \E id \in Listings : Delete(j, id)
         \/ Serve(j) \/ EndList(j)

CalendarNext ==
    \/ FormNext
    \/ \E nights \in Ranges : SetDates(nights)
    \/ RefreshCounts
    \/ \E choice \in Types \cup {Whole} : Choose(choice)
    \/ \E j \in EditorJobs :
         \/ CreateBlock(j) \/ \E b \in Blocks : DeleteBlock(j, b)
         \/ CreateType(j)
         \/ \E op \in { "change", "drop" }, t \in Types : ChangeType(j, op, t)
         \/ ServeRow(j) \/ EndBlock(j) \/ EndType(j)

----------------------------------------------------------------------------
\* Properties

\* A listing that is selected, or that the service desk works on, is one of the
\* list that is shown: a bulk update never takes a listing that the partner does
\* not see any more, whichever of several loads came last.
ChoiceIsListed ==
    /\ selectedIds \subseteq items
    /\ inStayListingId \in items \cup {0}

\* Once nothing is being loaded, the counts are those of the listing and the
\* dates of the form, in whatever order the answers for others came; and a block
\* of rooms is offered only on a count that was given for all of its nights,
\* although the form does not wait for the answer to its dates.
CountsAreOfShown ==
    /\ ~waiting /\ availability # NoAnswer =>
         /\ availability.listing = Shown(editingId, items)
         /\ availability.nights = dates
    /\ CanCreateBlock /\ chosen # Whole => dates \subseteq availability.nights

=============================================================================
