---------------------------- MODULE CalendarProofs ----------------------------
(***************************************************************************)
(* Theorems about Calendar, for every calendar, every set of guests, room  *)
(* types and blocks, and every row a partner may write.  Every step either *)
(* gives nothing away, or admits one guest, or adds one block; each safety *)
(* property is shown for these three classes.  What handlers and guests    *)
(* are told about rooms, by the loops of RoomInventory, is exact.          *)
(***************************************************************************)
EXTENDS Calendar, RoomInventoryProofs

----------------------------------------------------------------------------
\* The classes of steps

\* Nobody is admitted, and no block is added or changed.
Shrinks ==
    /\ CheckedHolds' \subseteq CheckedHolds
    /\ \A b \in BlockIds' : b \in BlockIds /\ blocks'[b] = blocks[b]

\* What an admission has looked at.
Admitted(r) ==
    /\ Typed(r) => /\ Ask[r].type \in RoomTypeIds
                   /\ HasRooms(Ask[r].type, Ask[r], 1, r)
    /\ ~Typed(r) => ~HasConflict(r)

Admits(r) ==
    /\ Admitted(r)
    /\ CheckedHolds' \subseteq CheckedHolds \cup {r}
    /\ UNCHANGED << rooms, blocks >>

Adds(b, row) ==
    /\ row.type = NoType => ~HouseTaken(row)
    /\ row.type # NoType => BlockFits(row.type, row)
    /\ row.from < row.to
    /\ blocks[b] = NoRow
    /\ blocks' = [ blocks EXCEPT ![b] = row ]
    /\ UNCHANGED << status, unchecked, rooms >>

\* A status is written.
LEMMA StatusWritten ==
    ASSUME TypeOK, NEW r \in Reservations,
           NEW s \in ReservationStatus, Becomes(r, s)
    PROVE  /\ status' \in [ Reservations -> ReservationStatus \cup {"none"} ]
           /\ status'[r] = s
           /\ \A q \in Reservations \ {r} : status'[q] = status[q]
           /\ s \in Blocking => Holds' = Holds \cup {r}
           /\ s \notin Blocking => Holds' = Holds \ {r}
BY DEF TypeOK, Becomes, Holds

\* The statuses that hold a room, and those that do not.
LEMMA BlockingStatuses ==
    /\ Blocking \subseteq ReservationStatus
    /\ "none" \notin Blocking /\ "draft" \notin Blocking
    /\ "expired" \notin Blocking /\ "cancelled" \notin Blocking
    /\ "pending_payment" \in Blocking /\ "confirmed" \in Blocking
    /\ "draft" \in ReservationStatus /\ "expired" \in ReservationStatus
    /\ "cancelled" \in ReservationStatus
BY DEF Blocking, ReservationStatus

\* The sweep and its like: unchecked holds are forgotten with the hold.
LEMMA GiveUp ==
    ASSUME TypeOK, NEW r \in Reservations,
           NEW s \in ReservationStatus \ Blocking,
           Becomes(r, s), KeepUnchecked(unchecked)
    PROVE  Shrinks /\ unchecked' \in SUBSET Holds'
<1>1. Holds' = Holds \ {r} /\ unchecked' = unchecked \ {r}
  BY StatusWritten DEF KeepUnchecked, TypeOK, Holds
<1>2. blocks' = blocks /\ BlockIds' = BlockIds
  BY DEF Becomes, BlockIds
<1> QED
  BY <1>1, <1>2 DEF Shrinks, CheckedHolds, TypeOK

\* A guest who holds no room is not counted, named or not.
LEMMA NoHoldToExclude ==
    ASSUME NEW r \in Reservations, r \notin Holds
    PROVE  \A t, row, n : HasRooms(t, row, n, NoOne) <=> HasRooms(t, row, n, r)
<1>1. Holds \ {r} = Holds \ {NoOne}
  BY CalendarAssumption DEF Holds
<1>2. \A t, d : Guests(t, d, r) = Guests(t, d, NoOne)
  BY <1>1 DEF Guests
<1> QED
  BY <1>2 DEF HasRooms

----------------------------------------------------------------------------
\* Every step belongs to a class

\* A guest's step gives nothing away, or admits that guest.
LEMMA GuestClass ==
    ASSUME TypeOK, NEW r \in Reservations, Guest(r)
    PROVE  Shrinks \/ Admits(r)
<1> USE BlockingStatuses
<1> DEFINE Same == blocks' = blocks /\ rooms' = rooms /\ BlockIds' = BlockIds
<1>1. CASE CreateReservation(r)
  <2>1. Holds' = Holds \ {r} /\ unchecked' = unchecked /\ Same
    BY <1>1, StatusWritten DEF CreateReservation, Becomes, BlockIds
  <2> QED
    BY <2>1 DEF Shrinks, CheckedHolds
<1>2. CASE StartUnavailable(r)
  <2>1. Holds' = Holds \ {r} /\ unchecked' = unchecked /\ Same
    BY <1>2, StatusWritten DEF StartUnavailable, Becomes, BlockIds
  <2> QED
    BY <2>1 DEF Shrinks, CheckedHolds
<1>3. CASE StartPayment(r)
  <2>1. Holds' = Holds \cup {r} /\ unchecked' = unchecked /\ Same
    BY <1>3, StatusWritten DEF StartPayment, Becomes, BlockIds
  <2>2. r \notin Holds
    BY <1>3 DEF StartPayment, Holds
  <2>3. Admitted(r)
    BY <1>3, <2>2, NoHoldToExclude DEF StartPayment, StartBlocked, Admitted
  <2> QED
    BY <2>1, <2>3 DEF Admits, CheckedHolds
<1>4. CASE SettlePaid(r)
  <2>1. Holds' = Holds \cup {r} /\ unchecked' = unchecked /\ Same
    BY <1>4, StatusWritten DEF SettlePaid, Becomes, BlockIds
  <2>2. r \in Holds
    BY <1>4 DEF SettlePaid, Holds
  <2> QED
    BY <2>1, <2>2 DEF Shrinks, CheckedHolds
<1>5. CASE SettleFailed(r)
  BY <1>5, GiveUp DEF SettleFailed
<1>6. CASE WebhookPaidDraft(r)
  <2>1. Holds' = Holds \cup {r} /\ unchecked' = unchecked \cup {r} /\ Same
    BY <1>6, StatusWritten DEF WebhookPaidDraft, Becomes, BlockIds
  <2> QED
    BY <2>1 DEF Shrinks, CheckedHolds
<1>7. CASE WebhookPendingDraft(r)
  <2>1. Holds' = Holds \cup {r} /\ unchecked' = unchecked \cup {r} /\ Same
    BY <1>7, StatusWritten DEF WebhookPendingDraft, Becomes, BlockIds
  <2> QED
    BY <2>1 DEF Shrinks, CheckedHolds
<1>8. CASE Expire(r)
  BY <1>8, GiveUp DEF Expire
<1>9. CASE Cancel(r)
  BY <1>9, GiveUp DEF Cancel
<1>10. CASE PartnerConfirm(r)
  <2>1. Holds' = Holds \cup {r} /\ unchecked' = unchecked \ {r} /\ Same
    BY <1>10, StatusWritten DEF PartnerConfirm, Becomes, BlockIds
  <2>2. Admitted(r)
    BY <1>10 DEF PartnerConfirm, Admitted
  <2> QED
    BY <2>1, <2>2 DEF Admits, CheckedHolds
<1> QED
  BY <1>1, <1>2, <1>3, <1>4, <1>5, <1>6, <1>7, <1>8, <1>9, <1>10 DEF Guest

\* A partner's new block is one of BlockRow.
LEMMA AddedBlock ==
    ASSUME NEW b \in Blocks, NEW range \in Ranges,
           NEW t \in Types \cup {NoType}, NEW n \in Amounts \cup {0}
    PROVE  NewBlock(t, range, n) \in BlockRow
BY CalendarAssumption, RowAssumption DEF NewBlock, BlockRow

LEMMA BlocksClass ==
    ASSUME TypeOK, PartnerBlocks
    PROVE  Shrinks \/ \E b \in Blocks, row \in BlockRow : Adds(b, row)
<1> SUFFICES ASSUME NEW b \in Blocks,
                    \/ \E range \in Ranges :
                         \/ CloseHouse(b, range)
                         \/ \E t \in Types, n \in Amounts :
                              BlockRooms(b, t, range, n)
                    \/ DeleteBlock(b)
             PROVE  Shrinks \/ \E row \in BlockRow : Adds(b, row)
  BY DEF PartnerBlocks
<1>1. ASSUME NEW range \in Ranges, CloseHouse(b, range)
      PROVE  \E row \in BlockRow : Adds(b, row)
  <2>1. NewBlock(NoType, range, 0) \in BlockRow
    BY AddedBlock
  <2>2. Adds(b, NewBlock(NoType, range, 0))
    BY <1>1 DEF CloseHouse, AddBlock, Adds, NewBlock
  <2> QED
    BY <2>1, <2>2
<1>2. ASSUME NEW range \in Ranges, NEW t \in Types, NEW n \in Amounts,
             BlockRooms(b, t, range, n)
      PROVE  \E row \in BlockRow : Adds(b, row)
  <2>1. NewBlock(t, range, n) \in BlockRow
    BY AddedBlock
  <2>2. NewBlock(t, range, n).type = t /\ t # NoType
    BY CalendarAssumption DEF NewBlock
  <2>3. Adds(b, NewBlock(t, range, n))
    BY <1>2, <2>2 DEF BlockRooms, AddBlock, Adds
  <2> QED
    BY <2>1, <2>3
<1>3. CASE DeleteBlock(b)
  BY <1>3 DEF DeleteBlock, Shrinks, CheckedHolds, Holds, BlockIds, TypeOK
<1> QED
  BY <1>1, <1>2, <1>3

LEMMA Classes ==
    ASSUME TypeOK, [Next]_vars
    PROVE  \/ Shrinks
           \/ \E r \in Reservations : Admits(r)
           \/ \E b \in Blocks, row \in BlockRow : Adds(b, row)
<1>1. ASSUME NEW r \in Reservations, Guest(r)
      PROVE  Shrinks \/ Admits(r)
  BY <1>1, GuestClass
<1>2. CASE PartnerBlocks
  BY <1>2, BlocksClass
<1>3. CASE PartnerRooms
  BY <1>3 DEF PartnerRooms, SeedRoomTypes, DeleteRoomType, CreateRoomType,
              UpdateRoomType, WriteRooms, Shrinks, CheckedHolds, Holds, BlockIds
<1>4. CASE DeleteListing
  BY <1>4, BlockingStatuses
     DEF DeleteListing, Shrinks, CheckedHolds, Holds, BlockIds
<1>5. CASE CreateListing
  BY <1>5 DEF CreateListing, Shrinks, CheckedHolds, Holds, BlockIds
<1>6. CASE UNCHANGED vars
  BY <1>6 DEF vars, Shrinks, CheckedHolds, Holds, BlockIds
<1> QED
  BY <1>1, <1>2, <1>3, <1>4, <1>5, <1>6 DEF Next

----------------------------------------------------------------------------
\* Type correctness

LEMMA TypeInit == Init => TypeOK
BY DEF Init, TypeOK, RoomTypeIds, BlockIds, Exists

\* The part of TypeOK that a guest's step can disturb.
LEMMA TypeGuest ==
    ASSUME TypeOK, NEW r \in Reservations, Guest(r)
    PROVE  TypeOK'
<1> USE BlockingStatuses
<1>1. ASSUME NEW s \in ReservationStatus, Becomes(r, s), status[r] # "none",
             payment' \in [ Reservations -> { "none", "unpaid", "paid" } ],
             unchecked' \in SUBSET Holds'
      PROVE  TypeOK'
  <2>1. RoomTypeIds' = RoomTypeIds /\ BlockIds' = BlockIds /\ live
    BY <1>1 DEF Becomes, RoomTypeIds, BlockIds, TypeOK, Exists
  <2> QED
    BY <1>1, <2>1, StatusWritten DEF TypeOK, Becomes
<1>2. CASE CreateReservation(r)
  <2>1. Becomes(r, "draft") /\ live
        /\ payment' \in [ Reservations -> { "none", "unpaid", "paid" } ]
        /\ r \notin Holds /\ unchecked' = unchecked
    BY <1>2 DEF CreateReservation, TypeOK, Exists, Holds
  <2>2. unchecked' \in SUBSET Holds'
    BY <2>1, StatusWritten DEF TypeOK
  <2>3. RoomTypeIds' = RoomTypeIds /\ BlockIds' = BlockIds
    BY <2>1 DEF Becomes, RoomTypeIds, BlockIds
  <2> QED
    BY <2>1, <2>2, <2>3, StatusWritten DEF TypeOK, Becomes
<1>3. CASE StartUnavailable(r)
  <2>1. r \notin Holds
    BY <1>3 DEF StartUnavailable, Holds
  <2> QED
    BY <1>1, <1>3, <2>1, StatusWritten DEF StartUnavailable, TypeOK
<1>4. CASE StartPayment(r)
  BY <1>1, <1>4, StatusWritten DEF StartPayment, TypeOK
<1>5. CASE SettlePaid(r)
  BY <1>1, <1>5, StatusWritten DEF SettlePaid, TypeOK
<1>6. CASE SettleFailed(r)
  BY <1>1, <1>6, GiveUp DEF SettleFailed, TypeOK
<1>7. CASE WebhookPaidDraft(r)
  BY <1>1, <1>7, StatusWritten DEF WebhookPaidDraft, TypeOK
<1>8. CASE WebhookPendingDraft(r)
  BY <1>1, <1>8, StatusWritten DEF WebhookPendingDraft, TypeOK
<1>9. CASE Expire(r)
  BY <1>1, <1>9, GiveUp DEF Expire, TypeOK
<1>10. CASE Cancel(r)
  BY <1>1, <1>10, GiveUp DEF Cancel, TypeOK, Exists
<1>11. CASE PartnerConfirm(r)
  BY <1>1, <1>11, StatusWritten DEF PartnerConfirm, TypeOK
<1> QED
  BY <1>2, <1>3, <1>4, <1>5, <1>6, <1>7, <1>8, <1>9, <1>10, <1>11 DEF Guest

LEMMA TypePartner ==
    ASSUME TypeOK, PartnerBlocks \/ PartnerRooms
    PROVE  TypeOK'
<1>1. ASSUME NEW b \in Blocks, NEW row \in BlockRow, AddBlock(b, row)
      PROVE  TypeOK'
  <2>1. blocks' \in [ Blocks -> BlockRow \cup {NoRow} ]
        /\ \A c \in BlockIds' : blocks'[c].from < blocks'[c].to
    BY <1>1 DEF AddBlock, TypeOK, BlockIds
  <2> QED
    BY <1>1, <2>1 DEF AddBlock, TypeOK, RoomTypeIds, Exists, Holds
<1>2. CASE PartnerBlocks
  <2> SUFFICES ASSUME NEW b \in Blocks,
                      \/ \E range \in Ranges :
                           \/ CloseHouse(b, range)
                           \/ \E t \in Types, n \in Amounts :
                                BlockRooms(b, t, range, n)
                      \/ DeleteBlock(b)
               PROVE  TypeOK'
    BY <1>2 DEF PartnerBlocks
  <2>1. ASSUME NEW range \in Ranges, CloseHouse(b, range)
        PROVE  TypeOK'
    BY <1>1, <2>1, AddedBlock DEF CloseHouse
  <2>2. ASSUME NEW range \in Ranges, NEW t \in Types, NEW n \in Amounts,
               BlockRooms(b, t, range, n)
        PROVE  TypeOK'
    BY <1>1, <2>2, AddedBlock DEF BlockRooms
  <2>3. CASE DeleteBlock(b)
    BY <2>3 DEF DeleteBlock, TypeOK, BlockIds, RoomTypeIds, Exists, Holds
  <2> QED
    BY <2>1, <2>2, <2>3
<1>3. CASE PartnerRooms
  <2>1. live /\ rooms' \in [ Types -> RoomType \cup {NoRow} ]
        /\ UNCHANGED << live, blocks, status, payment, unchecked >>
    BY <1>3, RowAssumption
       DEF PartnerRooms, SeedRoomTypes, DeleteRoomType, CreateRoomType,
           UpdateRoomType, WriteRooms, TypeOK
  <2> QED
    BY <2>1 DEF TypeOK, BlockIds, Exists, Holds
<1> QED
  BY <1>2, <1>3

LEMMA TypeStep == TypeOK /\ [Next]_vars => TypeOK'
<1> SUFFICES ASSUME TypeOK, [Next]_vars PROVE TypeOK'
  OBVIOUS
<1>1. CASE DeleteListing
  BY <1>1 DEF DeleteListing, TypeOK, BlockIds, RoomTypeIds, Exists, Holds
<1>2. CASE CreateListing
  BY <1>2 DEF CreateListing, TypeOK, BlockIds, RoomTypeIds, Exists, Holds
<1>3. CASE UNCHANGED vars
  BY <1>3 DEF vars, TypeOK, BlockIds, RoomTypeIds, Exists, Holds
<1> QED
  BY <1>1, <1>2, <1>3, TypeGuest, TypePartner DEF Next

\* The tables hold rows, every unchecked hold is a hold, and a listing that was
\* deleted has left no reservation, block or room type behind.
THEOREM TypeCorrect == Spec => []TypeOK
BY TypeInit, TypeStep, PTL DEF Spec

----------------------------------------------------------------------------
\* A closed house is empty

\* Two rows that overlap share a night.
LEMMA SharedNight ==
    ASSUME NEW r \in Reservations, NEW block \in BlockRow,
           block.from < block.to, Overlap(Ask[r], block)
    PROVE  \E d \in Stay(Ask[r]) : Covers(block, d)
<1> DEFINE a == Ask[r].from
           d == IF a < block.from THEN block.from ELSE a
<1>1. /\ a \in Nat /\ Ask[r].to \in Nat /\ a < Ask[r].to
      /\ a .. Ask[r].to - 1 \subseteq Days
  BY RowAssumption
<1>2. block.from \in Nat /\ block.to \in Nat
  BY DEF BlockRow
<1>3. a <= d /\ d < Ask[r].to /\ block.from <= d /\ d < block.to /\ d \in Nat
  BY <1>1, <1>2 DEF Overlap
<1>4. d \in Days
  BY <1>1, <1>3
<1> QED
  BY <1>3, <1>4 DEF Stay, Covers

\* Nobody is admitted to a closed house.
LEMMA AdmittedIsOpen ==
    ASSUME TypeOK, NEW r \in Reservations, Admitted(r),
           NEW b \in BlockIds, blocks[b].type = NoType
    PROVE  ~Overlap(Ask[r], blocks[b])
<1>1. CASE Typed(r)
  <2>1. \A d \in Stay(Ask[r]) : ~Closed(d)
    BY <1>1 DEF Admitted, HasRooms
  <2>2. blocks[b] \in BlockRow /\ blocks[b].from < blocks[b].to
    BY DEF TypeOK, BlockIds
  <2> QED
    BY <2>1, <2>2, SharedNight DEF Closed
<1>2. CASE ~Typed(r)
  BY <1>2 DEF Admitted, HasConflict, Overlap
<1> QED
  BY <1>1, <1>2

LEMMA ClosedStep ==
    ASSUME TypeOK, ClosedMeansEmpty, [Next]_vars
    PROVE  ClosedMeansEmpty'
<1>1. CASE Shrinks
  BY <1>1 DEF Shrinks, ClosedMeansEmpty
<1>2. ASSUME NEW r \in Reservations, Admits(r)
      PROVE  ClosedMeansEmpty'
  <2>1. BlockIds' = BlockIds /\ blocks' = blocks
        /\ CheckedHolds' \subseteq CheckedHolds \cup {r}
    BY <1>2 DEF Admits, BlockIds
  <2>2. \A b \in BlockIds : blocks[b].type = NoType => ~Overlap(Ask[r], blocks[b])
    BY <1>2, AdmittedIsOpen DEF Admits
  <2> QED
    BY <2>1, <2>2 DEF ClosedMeansEmpty
<1>3. ASSUME NEW b \in Blocks, NEW row \in BlockRow, Adds(b, row)
      PROVE  ClosedMeansEmpty'
  <2>1. CheckedHolds' = CheckedHolds /\ CheckedHolds \subseteq Holds
    BY <1>3 DEF Adds, CheckedHolds, Holds
  <2>2. /\ blocks'[b] = row
        /\ \A c \in BlockIds' : c # b => c \in BlockIds /\ blocks'[c] = blocks[c]
    BY <1>3 DEF Adds, BlockIds, TypeOK
  <2>3. row.type = NoType => \A q \in Holds : ~Overlap(Ask[q], row)
    BY <1>3 DEF Adds, HouseTaken
  <2> QED
    BY <2>1, <2>2, <2>3 DEF ClosedMeansEmpty
<1> QED
  BY <1>1, <1>2, <1>3, Classes

\* No guest who was admitted ever finds the house closed, in any order of
\* bookings, blocks, sweeps, reopened reservations and changes of the types.
THEOREM ClosedHouseIsEmpty == Spec => []ClosedMeansEmpty
<1>1. Init => ClosedMeansEmpty
  BY DEF Init, ClosedMeansEmpty, BlockIds
<1>2. TypeOK /\ ClosedMeansEmpty /\ [Next]_vars => ClosedMeansEmpty'
  BY ClosedStep
<1> QED
  BY <1>1, <1>2, TypeCorrect, PTL DEF Spec

----------------------------------------------------------------------------
\* Reservations without a room type

LEMMA UntypedStep ==
    ASSUME TypeOK, UntypedAlone, [Next]_vars
    PROVE  UntypedAlone'
<1>1. CASE Shrinks
  BY <1>1 DEF Shrinks, UntypedAlone
<1>2. ASSUME NEW r \in Reservations, Admits(r)
      PROVE  UntypedAlone'
  <2>1. CheckedHolds' \subseteq CheckedHolds \cup {r}
        /\ CheckedHolds \subseteq Holds
    BY <1>2 DEF Admits, CheckedHolds
  <2>2. ~Typed(r) =>
          \A q \in CheckedHolds : q # r /\ ~Typed(q) =>
            ~Overlap(Ask[q], Ask[r]) /\ ~Overlap(Ask[r], Ask[q])
    BY <1>2, <2>1 DEF Admits, Admitted, HasConflict, Overlap
  <2> QED
    BY <2>1, <2>2 DEF UntypedAlone
<1>3. ASSUME NEW b \in Blocks, NEW row \in BlockRow, Adds(b, row)
      PROVE  UntypedAlone'
  <2>1. CheckedHolds' = CheckedHolds
    BY <1>3 DEF Adds, CheckedHolds, Holds
  <2> QED
    BY <2>1 DEF UntypedAlone
<1> QED
  BY <1>1, <1>2, <1>3, Classes

\* Two reservations that ask for no room type in particular are never admitted
\* for the same night.
THEOREM UntypedIsAlone == Spec => []UntypedAlone
<1>1. Init => UntypedAlone
  BY BlockingStatuses DEF Init, UntypedAlone, CheckedHolds, Holds
<1>2. TypeOK /\ UntypedAlone /\ [Next]_vars => UntypedAlone'
  BY UntypedStep
<1> QED
  BY <1>1, <1>2, TypeCorrect, PTL DEF Spec

----------------------------------------------------------------------------
\* Room types that are asked for

LEMMA DanglingStep ==
    ASSUME TypeOK, NoDanglingType, [Next]_vars
    PROVE  NoDanglingType'
<1>1. ASSUME NEW r \in Reservations, Guest(r)
      PROVE  NoDanglingType'
  <2>1. \E s \in ReservationStatus : Becomes(r, s)
    BY <1>1, BlockingStatuses
       DEF Guest, CreateReservation, StartUnavailable, StartPayment, SettlePaid,
           SettleFailed, WebhookPaidDraft, WebhookPendingDraft, Expire, Cancel,
           PartnerConfirm
  <2>2. RoomTypeIds' = RoomTypeIds
    BY <2>1 DEF Becomes, RoomTypeIds
  <2>3. \A q \in Reservations \ {r} : Exists(q)' => Exists(q)
    BY <2>1, StatusWritten DEF Exists
  <2>4. Typed(r) => Ask[r].type \in RoomTypeIds
    <3>1. CASE CreateReservation(r)
      BY <3>1 DEF CreateReservation
    <3>2. CASE ~CreateReservation(r)
      <4>1. Exists(r)
        BY <1>1, <3>2
           DEF Guest, StartUnavailable, StartPayment, SettlePaid, SettleFailed,
               WebhookPaidDraft, WebhookPendingDraft, Expire, Cancel,
               PartnerConfirm, Exists
      <4> QED
        BY <4>1 DEF NoDanglingType
    <3> QED
      BY <3>1, <3>2
  <2> QED
    BY <2>2, <2>3, <2>4 DEF NoDanglingType
<1>2. CASE PartnerBlocks
  <2>1. UNCHANGED << rooms, status >>
    BY <1>2 DEF PartnerBlocks, CloseHouse, BlockRooms, AddBlock, DeleteBlock
  <2> QED
    BY <2>1 DEF NoDanglingType, RoomTypeIds, Exists
<1>3. ASSUME NEW t \in Types, DeleteRoomType(t)
      PROVE  NoDanglingType'
  <2>1. RoomTypeIds \ {t} \subseteq RoomTypeIds' /\ status' = status
    BY <1>3 DEF DeleteRoomType, WriteRooms, RoomTypeIds, TypeOK
  <2>2. \A r \in Reservations : Exists(r) => Ask[r].type # t
    BY <1>3 DEF DeleteRoomType, HasReservations
  <2> QED
    BY <2>1, <2>2 DEF NoDanglingType, Exists
<1>4. ASSUME NEW t \in Types, NEW row \in RoomTypeRows,
             CreateRoomType(t, row) \/ UpdateRoomType(t, row)
      PROVE  NoDanglingType'
  <2>1. RoomTypeIds \subseteq RoomTypeIds' /\ status' = status
    BY <1>4, RowAssumption
       DEF CreateRoomType, UpdateRoomType, WriteRooms, RoomTypeIds, TypeOK
  <2> QED
    BY <2>1 DEF NoDanglingType, Exists
<1>5. CASE SeedRoomTypes
  BY <1>5 DEF SeedRoomTypes, WriteRooms, NoDanglingType, Exists
<1>6. CASE DeleteListing
  BY <1>6 DEF DeleteListing, NoDanglingType, Exists
<1>7. CASE CreateListing
  BY <1>7 DEF CreateListing, NoDanglingType, Exists, RoomTypeIds
<1>8. CASE UNCHANGED vars
  BY <1>8 DEF vars, NoDanglingType, Exists, RoomTypeIds
<1> QED
  BY <1>1, <1>2, <1>3, <1>4, <1>5, <1>6, <1>7, <1>8 DEF Next, PartnerRooms

\* A room type that a reservation asks for, even a closed one, is never deleted.
THEOREM TypesAreKept == Spec => []NoDanglingType
<1>1. Init => NoDanglingType
  BY DEF Init, NoDanglingType, Exists
<1>2. TypeOK /\ NoDanglingType /\ [Next]_vars => NoDanglingType'
  BY DanglingStep
<1> QED
  BY <1>1, <1>2, TypeCorrect, PTL DEF Spec

----------------------------------------------------------------------------
\* Rooms that are given away

CheckedGuests(t, d) ==
    { r \in CheckedHolds : Ask[r].type = t /\ Covers(Ask[r], d) }

\* The blocks that BlockedRooms counts.
BlocksOf(t, d) == { c \in BlockIds : blocks[c].type = t /\ Covers(blocks[c], d) }

LEMMA BlockedFinite ==
    ASSUME TypeOK, NEW t, NEW d
    PROVE  IsFiniteSet(BlockedRooms(t, d))
<1> DEFINE Row(b) == {b} \X (1 .. blocks[b].amount)
           B == BlocksOf(t, d)
           S == { Row(b) : b \in B }
           f == [ b \in B |-> Row(b) ]
<1>1. IsFiniteSet(B)
  <2>1. B \in SUBSET Blocks
    BY DEF BlocksOf, BlockIds
  <2> HIDE DEF B
  <2> QED
    BY <2>1, CalendarAssumption, FS_Subset
<1>2. IsFiniteSet(S)
  <2>1. f \in Surjection(B, S)
    BY DEF Surjection
  <2> HIDE DEF B, S, f
  <2> QED
    BY <1>1, <2>1, FS_Surjection
<1>3. \A s \in S : IsFiniteSet(s)
  <2> SUFFICES ASSUME NEW b \in B PROVE IsFiniteSet(Row(b))
    OBVIOUS
  <2>1. blocks[b].amount \in Nat
    BY DEF BlocksOf, BlockIds, TypeOK, BlockRow
  <2> QED
    BY <2>1, RoomsOfRow
<1>4. BlockedRooms(t, d) = UNION S
  BY DEF BlockedRooms, BlocksOf
<1> HIDE DEF S
<1> QED
  BY <1>2, <1>3, <1>4, FS_UNION

LEMMA GuestsFinite ==
    ASSUME TypeOK, NEW t, NEW d, NEW r
    PROVE  IsFiniteSet(Guests(t, d, r)) /\ IsFiniteSet(CheckedGuests(t, d))
<1>1. Guests(t, d, r) \in SUBSET Reservations
  BY DEF Guests, Holds
<1>2. CheckedGuests(t, d) \in SUBSET Reservations
  BY DEF CheckedGuests, CheckedHolds, Holds
<1> QED
  BY <1>1, <1>2, CalendarAssumption, FS_Subset

\* A typed reservation that holds a room is one of the guests of its type.
LEMMA CheckedAreGuests ==
    ASSUME NEW t \in Types, NEW d, NEW r
    PROVE  CheckedGuests(t, d) \subseteq Guests(t, d, r) \cup {r}
BY DEF CheckedGuests, CheckedHolds, Guests, Applies

LEMMA GivenParts ==
    /\ \A t, d : Given(t, d) =
         Cardinality(CheckedGuests(t, d)) + Cardinality(BlockedRooms(t, d))
    /\ \A t, d : Given(t, d)' =
         Cardinality(CheckedGuests(t, d)') + Cardinality(BlockedRooms(t, d)')
BY DEF Given, CheckedGuests

\* Where there are no more guests and no more blocked rooms, no more is given.
LEMMA GivenShrinks ==
    ASSUME TypeOK, NEW t, NEW d,
           CheckedGuests(t, d)' \subseteq CheckedGuests(t, d),
           BlockedRooms(t, d)' \subseteq BlockedRooms(t, d)
    PROVE  ~(Given(t, d)' > Given(t, d))
<1> DEFINE g == CheckedGuests(t, d)
           h == CheckedGuests(t, d)'
           b == BlockedRooms(t, d)
           c == BlockedRooms(t, d)'
<1>1. IsFiniteSet(g) /\ IsFiniteSet(b)
  BY BlockedFinite, GuestsFinite
<1>2. h \in SUBSET g /\ c \in SUBSET b
  OBVIOUS
<1>3. Given(t, d) = Cardinality(g) + Cardinality(b)
      /\ Given(t, d)' = Cardinality(h) + Cardinality(c)
  BY GivenParts
<1> HIDE DEF g, h, b, c
<1>4. Cardinality(h) <= Cardinality(g) /\ Cardinality(c) <= Cardinality(b)
      /\ IsFiniteSet(h) /\ IsFiniteSet(c)
  BY <1>1, <1>2, FS_Subset
<1>5. Cardinality(h) \in Nat /\ Cardinality(g) \in Nat
      /\ Cardinality(c) \in Nat /\ Cardinality(b) \in Nat
  BY <1>1, <1>4, FS_CardinalityType
<1> QED
  BY <1>3, <1>4, <1>5

----------------------------------------------------------------------------
\* Nothing is given away that is not there

\* Steps that give nothing away.
LEMMA ShrinksGiven ==
    ASSUME TypeOK, Shrinks, NEW t, NEW d
    PROVE  ~(Given(t, d)' > Given(t, d))
<1>1. CheckedGuests(t, d)' \subseteq CheckedGuests(t, d)
  BY DEF Shrinks, CheckedGuests
<1>2. BlockedRooms(t, d)' \subseteq BlockedRooms(t, d)
  BY DEF Shrinks, BlockedRooms
<1> QED
  BY <1>1, <1>2, GivenShrinks

\* One guest more, who found a room on every day.
LEMMA AdmitsGiven ==
    ASSUME TypeOK, NEW r \in Reservations, Admits(r), NEW t \in RoomTypeIds',
           NEW d \in Days, Given(t, d)' > Given(t, d)
    PROVE  Given(t, d)' <= rooms'[t].total
<1> DEFINE h == CheckedGuests(t, d)'
           g == Guests(t, d, r)
           b == BlockedRooms(t, d)
<1>1. rooms' = rooms /\ t \in Types /\ BlockedRooms(t, d)' = b
  BY DEF Admits, RoomTypeIds, BlockedRooms, BlockIds
<1>2. CheckedHolds' \subseteq CheckedHolds \cup {r}
  BY DEF Admits
<1>3. Ask[r].type = t /\ Covers(Ask[r], d)
  <2> SUFFICES ASSUME ~(Ask[r].type = t /\ Covers(Ask[r], d)) PROVE FALSE
    OBVIOUS
  <2>1. CheckedGuests(t, d)' \subseteq CheckedGuests(t, d)
    BY <1>2 DEF CheckedGuests
  <2> QED
    BY <1>1, <2>1, GivenShrinks
<1>4. Cardinality(g) + Cardinality(b) + 1 <= rooms[t].total
  <2>1. Typed(r) /\ d \in Stay(Ask[r])
    BY <1>1, <1>3, CalendarAssumption DEF Typed, Stay
  <2> QED
    BY <1>3, <2>1 DEF Admits, Admitted, HasRooms
<1>5. h \in SUBSET (g \cup {r})
  <2>1. h \subseteq CheckedGuests(t, d) \cup {r}
    BY <1>2 DEF CheckedGuests
  <2> QED
    BY <1>1, <2>1, CheckedAreGuests
<1>6. IsFiniteSet(g) /\ IsFiniteSet(b)
  BY BlockedFinite, GuestsFinite
<1>7. Given(t, d)' = Cardinality(h) + Cardinality(b)
  BY <1>1, GivenParts
<1> HIDE DEF h, g, b
<1>8. IsFiniteSet(g \cup {r}) /\ Cardinality(g \cup {r}) <= Cardinality(g) + 1
  <2>1. Cardinality(g) \in Nat
    BY <1>6, FS_CardinalityType
  <2>2. /\ IsFiniteSet(g \cup {r})
        /\ Cardinality(g \cup {r}) =
             IF r \in g THEN Cardinality(g) ELSE Cardinality(g) + 1
    BY <1>6, FS_AddElement
  <2> QED
    BY <2>1, <2>2
<1>9. IsFiniteSet(h) /\ Cardinality(h) <= Cardinality(g \cup {r})
  BY <1>5, <1>8, FS_Subset
<1>10. /\ Cardinality(h) \in Nat /\ Cardinality(b) \in Nat
       /\ Cardinality(g) \in Nat /\ Cardinality(g \cup {r}) \in Nat
       /\ rooms[t].total \in Nat
  <2>1. rooms[t].total \in Nat
    BY <1>1 DEF RoomTypeIds, TypeOK, RoomType
  <2> QED
    BY <1>6, <1>8, <1>9, <2>1, FS_CardinalityType
<1> QED
  BY <1>1, <1>4, <1>7, <1>8, <1>9, <1>10

\* One block more, for which there was room on every day.
LEMMA AddsGiven ==
    ASSUME TypeOK, NEW b \in Blocks, NEW row \in BlockRow, Adds(b, row),
           NEW t \in RoomTypeIds', NEW d \in Days,
           Given(t, d)' > Given(t, d)
    PROVE  Given(t, d)' <= rooms'[t].total
<1> DEFINE h == CheckedGuests(t, d)
           g == Guests(t, d, NoOne)
           x == BlockedRooms(t, d)
           y == BlockedRooms(t, d)'
           z == {b} \X (1 .. row.amount)
<1>1. /\ rooms' = rooms /\ t \in Types /\ t # NoType
      /\ CheckedGuests(t, d)' = h /\ row.amount \in Nat
  BY CalendarAssumption
     DEF Adds, RoomTypeIds, CheckedGuests, CheckedHolds, Holds, BlockRow
<1>2. /\ BlockIds' = BlockIds \cup {b} /\ b \notin BlockIds
      /\ blocks'[b] = row
      /\ \A c \in BlockIds : blocks'[c] = blocks[c]
  BY RowAssumption DEF Adds, BlockIds, TypeOK
<1>3. row.type = t /\ Covers(row, d)
  <2> SUFFICES ASSUME ~(row.type = t /\ Covers(row, d)) PROVE FALSE
    OBVIOUS
  <2>1. y \subseteq x
    BY <1>2 DEF BlockedRooms
  <2> QED
    BY <1>1, <2>1, GivenShrinks
<1>4. Cardinality(g) + Cardinality(x) + row.amount <= rooms[t].total
  <2>1. d \in Stay(row)
    BY <1>3 DEF Stay
  <2> QED
    BY <1>1, <1>3, <2>1 DEF Adds, BlockFits, HasRooms
<1>5. y = x \cup z
  <2>1. BlocksOf(t, d)' = BlocksOf(t, d) \cup {b}
    BY <1>2, <1>3 DEF BlocksOf
  <2>2. \A c \in BlocksOf(t, d) : blocks'[c] = blocks[c]
    BY <1>2 DEF BlocksOf
  <2>3. x = UNION { {c} \X (1 .. blocks[c].amount) : c \in BlocksOf(t, d) }
    BY DEF BlockedRooms, BlocksOf
  <2>4. y = UNION { {c} \X (1 .. blocks'[c].amount) : c \in BlocksOf(t, d)' }
    BY DEF BlockedRooms, BlocksOf
  <2> QED
    BY <1>2, <2>1, <2>2, <2>3, <2>4
<1>6. h \in SUBSET g
  BY CalendarAssumption DEF CheckedGuests, CheckedHolds, Guests, Applies, Holds
<1>7. IsFiniteSet(g) /\ IsFiniteSet(x)
  BY BlockedFinite, GuestsFinite
<1>8. Given(t, d)' = Cardinality(h) + Cardinality(y)
  BY <1>1, GivenParts
<1>9. IsFiniteSet(z) /\ Cardinality(z) = row.amount
  BY <1>1, RoomsOfRow
<1> HIDE DEF h, g, x, y, z
<1>10. IsFiniteSet(h) /\ Cardinality(h) <= Cardinality(g)
  BY <1>6, <1>7, FS_Subset
<1>11. /\ IsFiniteSet(x \cup z) /\ x \cap z \in SUBSET x
       /\ Cardinality(x \cup z)
            = Cardinality(x) + Cardinality(z) - Cardinality(x \cap z)
  BY <1>7, <1>9, FS_Union
<1>12. /\ Cardinality(h) \in Nat /\ Cardinality(g) \in Nat
       /\ Cardinality(x) \in Nat /\ Cardinality(x \cap z) \in Nat
       /\ rooms[t].total \in Nat
  <2>1. rooms[t].total \in Nat
    BY <1>1 DEF RoomTypeIds, TypeOK, RoomType
  <2>2. IsFiniteSet(x \cap z)
    BY <1>7, <1>11, FS_Subset
  <2> QED
    BY <1>7, <1>10, <2>1, <2>2, FS_CardinalityType
<1> QED
  BY <1>1, <1>4, <1>5, <1>8, <1>9, <1>10, <1>11, <1>12

LEMMA AdmissionHolds == TypeOK /\ [Next]_vars => AdmissionStep
<1> SUFFICES ASSUME TypeOK, [Next]_vars,
                    NEW t \in RoomTypeIds', NEW d \in Days,
                    Given(t, d)' > Given(t, d)
             PROVE  Given(t, d)' <= rooms'[t].total
  BY DEF AdmissionStep
<1> QED
  BY Classes, ShrinksGiven, AdmitsGiven, AddsGiven

\* Whatever a partner does to the number of rooms, no guest and no block is let
\* in beyond it: where more rooms are given away, there are that many.
THEOREM AdmissionsFit == Spec => AdmissionFits
<1>1. TypeOK /\ [Next]_vars => [AdmissionStep]_vars
  BY AdmissionHolds
<1> QED
  BY <1>1, TypeCorrect, PTL DEF Spec, AdmissionFits

----------------------------------------------------------------------------
\* The inventory counts exactly

\* A range of days that may be asked for.
Askable(range) ==
    /\ range[1] \in Nat \ {0} /\ range[2] \in Nat /\ range[1] < range[2]
    /\ range[1] .. range[2] - 1 \subseteq Days

\* The rooms of type t on day d, less those that are taken.
Left(t, d, r) ==
    IF Closed(d) THEN 0
    ELSE Cut(rooms[t].total,
             Cardinality(BlockedRooms(t, d)) + Cardinality(Guests(t, d, r)))

\* The table of the inventory says so.
LEMMA TableIs ==
    ASSUME TypeOK, NEW t \in RoomTypeIds, NEW r, NEW d \in Days
    PROVE  /\ AvailableOn(t, r)[d] = Left(t, d, r)
           /\ rooms[t].total \in Nat
           /\ Cardinality(BlockedRooms(t, d)) \in Nat
           /\ Cardinality(Guests(t, d, r)) \in Nat
<1> DEFINE total == rooms[t].total
           held == [ q \in Holds \ {r} |-> Ask[q] ]
           blocked == [ b \in BlockIds |-> blocks[b] ]
           B == BlocksOn(d, blocked)
           amount == [ b \in B |-> BlockAmount(blocks[b], t, total) ]
<1>1. total \in Nat /\ t \in Types /\ t # NoType
  BY CalendarAssumption DEF TypeOK, RoomTypeIds, RoomType
<1>2. AvailableOn(t, r)[d] = DayAvailable(d, t, total, Primary(t), blocked, held)
  BY DEF AvailableOn
<1>3. IsFiniteSet(Guests(t, d, r)) /\ IsFiniteSet(BlockedRooms(t, d))
  BY BlockedFinite, GuestsFinite
<1>4. GuestsOn(d, t, Primary(t), held) = Guests(t, d, r)
  BY DEF GuestsOn, Guests
<1>5. B = { b \in BlockIds : Covers(blocks[b], d) }
  BY DEF BlocksOn
<1>6. \A b \in B : /\ blocks[b] \in BlockRow
                   /\ blocked[b] = blocks[b]
  BY <1>5 DEF BlockIds, TypeOK
<1>7. amount \in [ B -> Nat ]
  <2>1. \A b \in B : BlockAmount(blocks[b], t, total) \in Nat
    BY <1>1, <1>6 DEF BlockAmount, BlockRow
  <2> QED
    BY <2>1
<1>8. IsFiniteSet(DOMAIN blocked) /\ IsFiniteSet(DOMAIN held)
  <2>1. DOMAIN blocked \in SUBSET Blocks /\ DOMAIN held \in SUBSET Reservations
    BY DEF BlockIds, Holds
  <2> QED
    BY <2>1, CalendarAssumption, FS_Subset
<1>9. /\ Cardinality(Pile(B, amount)) \in Nat
      /\ Cardinality(Guests(t, d, r)) \in Nat
      /\ AvailableOn(t, r)[d]
           = Cut(total, Cardinality(Pile(B, amount)) + Cardinality(Guests(t, d, r)))
  <2>1. \A b \in B : amount[b] = BlockAmount(blocked[b], t, total)
    BY <1>6
  <2> HIDE DEF amount, held, blocked
  <2> QED
    BY <1>1, <1>2, <1>4, <1>7, <1>8, <2>1, DayIs
<1>10. CASE Closed(d)
  <2>1. PICK b \in B : blocks[b].type = NoType
    BY <1>5, <1>10 DEF Closed
  <2>2. amount[b] = total
    BY <2>1 DEF BlockAmount
  <2>3. {b} \X (1 .. total) \subseteq Pile(B, amount)
    <3> HIDE DEF amount
    <3> QED
      BY <2>2 DEF Pile
  <2>4. IsFiniteSet(Pile(B, amount))
    <3>1. IsFiniteSet(B)
      <4>1. B \in SUBSET DOMAIN blocked
        BY DEF BlocksOn
      <4> QED
        BY <1>8, <4>1, FS_Subset
    <3>2. \A c \in B : amount[c] \in Nat
      BY <1>7
    <3> HIDE DEF amount, B
    <3> QED
      BY <3>1, <3>2, PileFinite
  <2>5. total <= Cardinality(Pile(B, amount))
    <3> DEFINE P == Pile(B, amount)
               R == {b} \X (1 .. total)
    <3>1. Cardinality(R) = total /\ R \in SUBSET P
      BY <1>1, <2>3, RoomsOfRow
    <3> HIDE DEF P, R
    <3>2. Cardinality(R) <= Cardinality(P)
      BY <2>4, <3>1, FS_Subset DEF P
    <3> QED
      BY <3>1, <3>2 DEF P
  <2>6. AvailableOn(t, r)[d] = 0
    <3> HIDE DEF amount, B, total
    <3> QED
      BY <1>1, <1>9, <2>5 DEF Cut
  <2> QED
    BY <1>1, <1>3, <1>10, <2>6, FS_CardinalityType DEF Left
<1>11. CASE ~Closed(d)
  <2>1. \A b \in B : blocks[b].type # NoType
    BY <1>5, <1>11 DEF Closed
  <2>2. \A b \in B : amount[b] = IF blocks[b].type = t THEN blocks[b].amount ELSE 0
    BY <2>1 DEF BlockAmount
  <2>3. Pile(B, amount) = BlockedRooms(t, d)
    <3>1. \A b \in B : blocks[b].type # t => {b} \X (1 .. amount[b]) = {}
      <4> SUFFICES ASSUME NEW b \in B, blocks[b].type # t
                   PROVE  {b} \X (1 .. amount[b]) = {}
        OBVIOUS
      <4>1. amount[b] = 0
        BY <2>2
      <4>2. 1 .. 0 = {}
        OBVIOUS
      <4> HIDE DEF amount
      <4> QED
        BY <4>1, <4>2
    <3>2. \A b \in B : blocks[b].type = t => amount[b] = blocks[b].amount
      BY <2>2
    <3> HIDE DEF amount
    <3> QED
      BY <1>5, <3>1, <3>2 DEF Pile, BlockedRooms
  <2> HIDE DEF amount, B, total
  <2>4. AvailableOn(t, r)[d]
          = Cut(total, Cardinality(BlockedRooms(t, d)) + Cardinality(Guests(t, d, r)))
    BY <1>9, <2>3
  <2> QED
    BY <1>1, <1>3, <1>11, <2>4, FS_CardinalityType DEF Left, total
<1> QED
  BY <1>10, <1>11

LEMMA LeftIsNat ==
    ASSUME TypeOK, NEW t \in RoomTypeIds, NEW r, NEW d \in Days
    PROVE  AvailableOn(t, r)[d] \in Nat
  BY TableIs DEF Left, Cut

\* The days of a row, and of a stay.
LEMMA RowDays ==
    ASSUME NEW row, row.from \in Nat, row.to \in Nat, row.from .. row.to - 1 \subseteq Days
    PROVE  { d \in Days : Covers(row, d) } = row.from .. row.to - 1
<1>1. ASSUME NEW d \in Days PROVE Covers(row, d) <=> d \in row.from .. row.to - 1
  <2>1. d \in Nat
    BY CalendarAssumption
  <2> QED
    BY <2>1 DEF Covers
<1> QED
  BY <1>1

LEMMA StayDays ==
    ASSUME NEW range, Askable(range)
    PROVE  Stay([ from |-> range[1], to |-> range[2] ]) = range[1] .. range[2] - 1
<1> DEFINE row == [ from |-> range[1], to |-> range[2] ]
<1>1. row.from = range[1] /\ row.to = range[2]
  OBVIOUS
<1> HIDE DEF row
<1>2. Stay(row) = row.from .. row.to - 1
  BY <1>1, RowDays DEF Askable, Stay
<1> QED
  BY <1>1, <1>2 DEF row

LEMMA CountsAreExact ==
    ASSUME TypeOK, \A range \in Ranges : Askable(range)
    PROVE  CountsExact
<1> SUFFICES ASSUME NEW t \in RoomTypeIds, NEW r \in Holds \cup {NoOne}, NEW range \in Ranges
             PROVE  LET free == AvailableOn(t, r)
                        row == [ from |-> range[1], to |-> range[2] ]
                        n == AvailableCount(Windows(free, range[1], range[2]),
                                            range[1], range[2])
                    IN  /\ n > 0 => HasRooms(t, row, n, r)
                        /\ ~HasRooms(t, row, n + 1, r)
  BY DEF CountsExact
<1> DEFINE free == AvailableOn(t, r)
           row == [ from |-> range[1], to |-> range[2] ]
           n == AvailableCount(Windows(free, range[1], range[2]), range[1], range[2])
           total == rooms[t].total
           G(d) == Cardinality(Guests(t, d, r))
           B(d) == Cardinality(BlockedRooms(t, d))
<1>1. Askable(range)
  OBVIOUS
<1>2. \A d \in range[1] .. range[2] - 1 : d \in Days /\ free[d] \in Nat
  BY <1>1, LeftIsNat DEF Askable
<1>3. /\ n \in Nat
      /\ \A d \in range[1] .. range[2] - 1 : n <= free[d]
      /\ \E d \in range[1] .. range[2] - 1 : free[d] <= n
  <2> HIDE DEF free
  <2> QED
    BY <1>1, <1>2, CountIs DEF Askable
<1>4. \A d \in range[1] .. range[2] - 1 :
        /\ free[d] = IF Closed(d) THEN 0 ELSE Cut(total, B(d) + G(d))
        /\ total \in Nat /\ B(d) \in Nat /\ G(d) \in Nat
  BY <1>2, TableIs DEF Left
<1>5. Stay(row) = range[1] .. range[2] - 1
  BY <1>1, StayDays
<1>6. ASSUME NEW m
      PROVE  HasRooms(t, row, m, r) <=> \A d \in range[1] .. range[2] - 1 :
                                          ~Closed(d) /\ G(d) + B(d) + m <= total
  BY <1>5 DEF HasRooms
<1> HIDE DEF free, row, n, total, G, B
<1>7. n > 0 => HasRooms(t, row, n, r)
  <2> SUFFICES ASSUME n > 0, NEW d \in range[1] .. range[2] - 1
               PROVE  ~Closed(d) /\ G(d) + B(d) + n <= total
    BY <1>6
  <2>1. n <= free[d] /\ n \in Nat
    BY <1>3
  <2> QED
    BY <1>4, <2>1 DEF Cut
<1>8. ~HasRooms(t, row, n + 1, r)
  <2>1. PICK d \in range[1] .. range[2] - 1 : free[d] <= n
    BY <1>3
  <2>2. ~(~Closed(d) /\ G(d) + B(d) + (n + 1) <= total)
    BY <1>3, <1>4, <2>1 DEF Cut
  <2> QED
    BY <1>6, <2>2
<1> QED
  BY <1>7, <1>8 DEF free, row, n

LEMMA WindowsAreExact ==
    ASSUME TypeOK, \A range \in Ranges : Askable(range)
    PROVE  WindowsExact
<1> SUFFICES ASSUME NEW t \in RoomTypeIds, NEW range \in Ranges
             PROVE  LET free == AvailableOn(t, NoOne)
                        from == range[1]
                        to == range[2]
                        windows == Windows(free, from, to)
                        Inside(i) == { d \in Days : Covers(windows[i], d) }
                    IN  /\ \A i \in DOMAIN windows :
                             /\ windows[i].count = Min({ free[d] : d \in Inside(i) })
                             /\ i > 1 => windows[i - 1].to < windows[i].from
                        /\ { d \in from .. to - 1 : free[d] > 0 }
                             = UNION { Inside(i) : i \in DOMAIN windows }
  BY DEF WindowsExact
<1> DEFINE free == AvailableOn(t, NoOne)
           from == range[1]
           to == range[2]
           windows == Windows(free, from, to)
           Inside(i) == { d \in Days : Covers(windows[i], d) }
<1>1. from \in Nat \ {0} /\ to \in Nat /\ from < to /\ from .. to - 1 \subseteq Days
  BY DEF Askable
<1>2. \A d \in from .. to - 1 : free[d] \in Nat
  <2> HIDE DEF from, to
  <2> QED
    BY <1>1, LeftIsNat
<1>3. /\ windows \in Seq(WindowRow)
      /\ \A i \in DOMAIN windows : IsRun(windows[i], free, from, to)
      /\ InOrder(windows)
      /\ \A d \in from .. to - 1 :
           free[d] > 0 <=> \E i \in DOMAIN windows : Covers(windows[i], d)
  <2> HIDE DEF free, from, to
  <2> QED
    BY <1>1, <1>2, WindowsAre
<1>4. \A i \in DOMAIN windows : windows[i] \in WindowRow
  <2> HIDE DEF windows
  <2> QED
    BY <1>3
<1> HIDE DEF free, from, to, windows
<1>5. ASSUME NEW i \in DOMAIN windows
      PROVE  Inside(i) = windows[i].from .. windows[i].to - 1 /\ Inside(i) \subseteq from .. to - 1
  <2>1. /\ windows[i].from \in from .. to - 1
        /\ windows[i].to \in windows[i].from + 1 .. to
    BY <1>3 DEF IsRun
  <2>2. ASSUME NEW d \in windows[i].from .. windows[i].to - 1
        PROVE  d \in Days /\ d \in from .. to - 1
    BY <1>1, <2>1
  <2>3. windows[i].from \in Nat /\ windows[i].to \in Nat
    BY <1>4 DEF WindowRow
  <2> QED
    BY <2>2, <2>3, RowDays
<1>6. ASSUME NEW i \in DOMAIN windows
      PROVE  windows[i].count = Min({ free[d] : d \in Inside(i) })
  <2> DEFINE S == { free[d] : d \in Inside(i) }
             m == windows[i].count
  <2>1. Inside(i) = windows[i].from .. windows[i].to - 1
        /\ Inside(i) \subseteq from .. to - 1
    BY <1>5
  <2>2. m \in Nat /\ S \subseteq Nat
    BY <1>2, <1>4, <2>1 DEF WindowRow
  <2>3. /\ \A d \in Inside(i) : m <= free[d]
        /\ \E d \in Inside(i) : free[d] = m
    <3> HIDE DEF Inside
    <3> QED
      BY <1>2, <1>3, <2>1 DEF IsRun
  <2>4. m \in S /\ \A x \in S : m <= x
    BY <2>3
  <2> HIDE DEF S, m
  <2>5. \A x \in S : (\A y \in S : x <= y) => x = m
    BY <2>2, <2>4
  <2>6. Min(S) = m
    BY <2>4, <2>5 DEF Min
  <2> QED
    BY <2>6 DEF S, m
<1>7. ASSUME NEW i \in DOMAIN windows, i > 1 PROVE windows[i - 1].to < windows[i].from
  BY <1>3, <1>7 DEF InOrder
<1>8. { d \in from .. to - 1 : free[d] > 0 } = UNION { Inside(i) : i \in DOMAIN windows }
  <2>1. ASSUME NEW d \in from .. to - 1, free[d] > 0
        PROVE  \E i \in DOMAIN windows : d \in Inside(i)
    BY <1>1, <1>3, <2>1
  <2>2. ASSUME NEW i \in DOMAIN windows, NEW d \in Inside(i)
        PROVE  d \in from .. to - 1 /\ free[d] > 0
    BY <1>3, <1>5, <2>2
  <2> QED
    BY <2>1, <2>2
<1> QED
  BY <1>6, <1>7, <1>8 DEF free, from, to, windows

\* What handlers and guests are told about rooms is exact, for any listing: the
\* count of a stay is the number of rooms that nobody has taken on its fullest
\* day, and the windows are the runs of days with rooms.
THEOREM AvailabilityIsExact ==
    ASSUME \A range \in Ranges : Askable(range)
    PROVE  Spec => []AvailabilityExact
<1>1. TypeOK => AvailabilityExact
  BY CountsAreExact, WindowsAreExact DEF AvailabilityExact
<1> QED
  BY <1>1, TypeCorrect, PTL

=============================================================================
