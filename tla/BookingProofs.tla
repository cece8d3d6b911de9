---------------------------- MODULE BookingProofs ----------------------------
(***************************************************************************)
(* Theorems about Booking, for every number of reservations, nights, rooms *)
(* and keys, every set of stays and every provider.                        *)
(***************************************************************************)
EXTENDS Booking, FiniteSetTheorems, SequenceTheorems, TLAPS

----------------------------------------------------------------------------
\* Lemmas about the helpers

\* The sweep writes statuses and payment statuses only, and only where a row
\* exists.
LEMMA SweepType ==
    ASSUME TypeOK
    PROVE  /\ SweptStatus \in [ Reservations -> ReservationStatus \cup {"none"} ]
           /\ SweptPayment \in [ Reservations -> PaymentStatus \cup {"none"} ]
           /\ \A r \in Reservations :
                 /\ SweptStatus[r] \in Blocking => status[r] \in Blocking
                 /\ SweptStatus[r] # status[r] => SweptStatus[r] = "expired"
                 /\ SweptStatus[r] = "none" <=> status[r] = "none"
                 /\ SweptPayment[r] = "none" <=> payment[r] = "none"
BY DEF TypeOK, SweptStatus, SweptPayment, Overdue, ReservationStatus,
       PaymentStatus, Blocking

\* The rows of the transition table that the handlers ask for.
LEMMA Moves ==
    ASSUME NEW s \in ReservationStatus
    PROVE  /\ CanMove(s, "confirmed") <=> s \in { "confirmed", "pending_payment" }
           /\ CanMove(s, "draft") <=>
                 s \in { "draft", "pending_payment", "cancelled", "expired" }
           /\ CanMove(s, "cancelled") <=> s \notin { "checked_out", "expired" }
BY DEF ReservationStatus, CanMove, Transitions

\* A webhook leaves a sequence of attempts, at least as long as before.
LEMMA MarkedType ==
    ASSUME TypeOK, NEW r \in Reservations, NEW k \in Keys \cup {NoKey},
           NEW s \in AttemptStatus
    PROVE  /\ MarkedAttempts(r, k, s) \in Seq(Attempt)
           /\ DOMAIN attempts[r] \subseteq DOMAIN MarkedAttempts(r, k, s)
<1> DEFINE rows == FoundAttempts(r, k)
<1>1. attempts[r] \in Seq(Attempt)
  BY DEF TypeOK
<1>2. rows \in Seq(Attempt) /\ DOMAIN attempts[r] \subseteq DOMAIN rows
  <2>1. CASE k = NoKey \/ KeyUsed(r, k)
    BY <1>1, <2>1 DEF FoundAttempts
  <2>2. CASE ~(k = NoKey \/ KeyUsed(r, k))
    <3>1. NewAttempt(k, FALSE) \in Attempt
      BY <2>2 DEF NewAttempt, Attempt, AttemptStatus
    <3>2. rows = Append(attempts[r], NewAttempt(k, FALSE))
      BY <2>2 DEF FoundAttempts
    <3> HIDE DEF rows
    <3>3. rows \in Seq(Attempt) /\ Len(rows) = Len(attempts[r]) + 1
      BY <1>1, <3>1, <3>2, AppendProperties
    <3>4. DOMAIN rows = 1 .. Len(rows) /\ DOMAIN attempts[r] = 1 .. Len(attempts[r])
      BY <1>1, <3>3, LenProperties
    <3>5. Len(attempts[r]) \in Nat
      BY <1>1, LenProperties
    <3> QED
      BY <3>3, <3>4, <3>5
  <2> QED
    BY <2>1, <2>2
<1>3. DOMAIN MarkedAttempts(r, k, s) = DOMAIN rows
  BY DEF MarkedAttempts
<1>4. \A i \in DOMAIN rows : MarkedAttempts(r, k, s)[i] \in Attempt
  <2> SUFFICES ASSUME NEW i \in DOMAIN rows
               PROVE  MarkedAttempts(r, k, s)[i] \in Attempt
    OBVIOUS
  <2>1. rows[i] \in Attempt
    BY <1>2
  <2>2. [ rows[i] EXCEPT !.status = s ] \in Attempt
    BY <2>1 DEF Attempt
  <2> QED
    BY <2>1, <2>2 DEF MarkedAttempts
<1>5. DOMAIN rows = 1 .. Len(rows) /\ Len(rows) \in Nat
  BY <1>2
<1>6. MarkedAttempts(r, k, s) \in [ 1 .. Len(rows) -> Attempt ]
  BY <1>3, <1>4, <1>5 DEF MarkedAttempts
<1> QED
  BY <1>2, <1>3, <1>5, <1>6

\* So does the settlement of one attempt.
LEMMA SettledType ==
    ASSUME TypeOK, NEW r \in Reservations, NEW i \in DOMAIN attempts[r],
           NEW s \in AttemptStatus,
           attempts' = [ attempts EXCEPT ![r][i].status = s ]
    PROVE  /\ attempts' \in [ Reservations -> Seq(Attempt) ]
           /\ \A q \in Reservations : DOMAIN attempts'[q] = DOMAIN attempts[q]
<1> DEFINE row == [ attempts[r][i] EXCEPT !.status = s ]
<1>1. attempts \in [ Reservations -> Seq(Attempt) ]
  BY DEF TypeOK
<1>2. attempts[r] \in Seq(Attempt) /\ attempts[r][i] \in Attempt
  BY <1>1
<1>3. row \in Attempt
  BY <1>2 DEF Attempt
<1>4. [ attempts[r] EXCEPT ![i] = row ] \in Seq(Attempt)
  BY <1>2, <1>3
<1>5. attempts' = [ attempts EXCEPT ![r] = [ attempts[r] EXCEPT ![i] = row ] ]
  BY <1>1
<1> QED
  BY <1>1, <1>2, <1>4, <1>5

\* A new attempt is put at the end.
LEMMA StartedType ==
    ASSUME TypeOK, NEW r \in Reservations, NEW k \in Keys, NEW f \in BOOLEAN,
           attempts' = [ attempts EXCEPT ![r] = Append(@, NewAttempt(k, f)) ]
    PROVE  /\ attempts' \in [ Reservations -> Seq(Attempt) ]
           /\ \A q \in Reservations : DOMAIN attempts[q] \subseteq DOMAIN attempts'[q]
           /\ NextAttempt(r) \in DOMAIN attempts'[r]
           /\ NextAttempt(r) \in Nat
<1>1. attempts \in [ Reservations -> Seq(Attempt) ] /\ attempts[r] \in Seq(Attempt)
  BY DEF TypeOK
<1>2. NewAttempt(k, f) \in Attempt
  BY DEF NewAttempt, Attempt, AttemptStatus
<1> DEFINE rows == Append(attempts[r], NewAttempt(k, f))
<1>3. rows \in Seq(Attempt) /\ Len(rows) = Len(attempts[r]) + 1
  BY <1>1, <1>2, AppendProperties
<1>4. attempts' = [ attempts EXCEPT ![r] = rows ]
  BY <1>1
<1> HIDE DEF rows
<1>5. /\ DOMAIN rows = 1 .. Len(rows)
      /\ DOMAIN attempts[r] = 1 .. Len(attempts[r])
      /\ Len(attempts[r]) \in Nat
  BY <1>1, <1>3, LenProperties
<1> QED
  BY <1>1, <1>3, <1>4, <1>5 DEF NextAttempt

----------------------------------------------------------------------------
\* Types

LEMMA TypeInit == Init => TypeOK
BY DEF Init, TypeOK, Exists, Stamps, ReservationStatus, PaymentStatus, Blocking

LEMMA TypeStep == TypeOK /\ [Next]_vars => TypeOK'
<1> SUFFICES ASSUME TypeOK, [Next]_vars PROVE TypeOK'
  OBVIOUS
<1> USE DEF ReservationStatus, PaymentStatus, Blocking, Stamps, Exists
<1>1. ASSUME NEW r \in Reservations, CreateReservation(r) PROVE TypeOK'
  <2>1. \A q \in Reservations : payment'[q] # "none" => Exists(q)'
    BY <1>1, SweepType DEF CreateReservation, TypeOK
  <2> QED
    BY <1>1, <2>1, SweepType DEF CreateReservation, TypeOK, KeepUnchecked
<1>2. ASSUME NEW r \in Reservations, InsertPayment(r) PROVE TypeOK'
  BY <1>2 DEF InsertPayment, TypeOK
<1>3. ASSUME NEW r \in Reservations, NEW k \in Keys, StartReused(r, k)
      PROVE  TypeOK'
  BY <1>3, SweepType DEF StartReused, StartAllowed, TypeOK, KeepUnchecked, Ensured
<1>4. ASSUME NEW r \in Reservations, NEW k \in Keys, StartUnavailable(r, k)
      PROVE  TypeOK'
  BY <1>4, SweepType DEF StartUnavailable, TypeOK, KeepUnchecked, Ensured
<1>5. ASSUME NEW r \in Reservations, NEW k \in Keys, NEW f \in BOOLEAN,
             StartAttempt(r, k, f)
      PROVE  TypeOK'
  <2>1. /\ attempts' \in [ Reservations -> Seq(Attempt) ]
        /\ \A q \in Reservations : DOMAIN attempts[q] \subseteq DOMAIN attempts'[q]
        /\ NextAttempt(r) \in DOMAIN attempts'[r]
        /\ NextAttempt(r) \in Nat
    BY <1>5, StartedType DEF StartAttempt
  <2>2. /\ finalizers' \in SUBSET (Reservations \X Nat)
        /\ \A t \in finalizers' : t[2] \in DOMAIN attempts'[t[1]]
    BY <1>5, <2>1 DEF StartAttempt, TypeOK
  <2> QED
    BY <1>5, <2>1, <2>2, SweepType DEF StartAttempt, TypeOK, KeepUnchecked
<1>6. ASSUME NEW r \in Reservations, LegacyUnavailable(r) PROVE TypeOK'
  BY <1>6, SweepType DEF LegacyUnavailable, TypeOK, KeepUnchecked, Ensured
<1>7. ASSUME NEW r \in Reservations, NEW f \in BOOLEAN, LegacyPayment(r, f)
      PROVE  TypeOK'
  BY <1>7, SweepType DEF LegacyPayment, TypeOK, KeepUnchecked
<1>8. ASSUME NEW r \in Reservations, NEW f \in BOOLEAN, Cancel(r, f)
      PROVE  TypeOK'
  BY <1>8, SweepType DEF Cancel, TypeOK, KeepUnchecked, Refunded
<1>9. ASSUME NEW r \in Reservations, NEW i \in DOMAIN attempts[r],
             FinalizeClosed(r, i)
      PROVE  TypeOK'
  BY <1>9, SettledType
     DEF FinalizeClosed, Settle, TypeOK, AttemptStatus
<1>10. ASSUME NEW r \in Reservations, NEW i \in DOMAIN attempts[r],
              FinalizeSettled(r, i)
       PROVE  TypeOK'
  <2>1. FinalStatus(attempts[r][i]) \in AttemptStatus
    BY DEF FinalStatus, AttemptStatus
  <2>2. /\ attempts' \in [ Reservations -> Seq(Attempt) ]
        /\ \A q \in Reservations : DOMAIN attempts'[q] = DOMAIN attempts[q]
    BY <1>10, <2>1, SettledType DEF FinalizeSettled, Settle
  <2> QED
    BY <1>10, <2>1, <2>2
       DEF FinalizeSettled, Settle, TypeOK, KeepUnchecked, FinalTarget,
           AttemptStatus
<1>11. ASSUME NEW r \in Reservations, NEW i \in DOMAIN attempts[r],
              FinalizeDropped(r, i)
       PROVE  TypeOK'
  BY <1>11 DEF FinalizeDropped, TypeOK
<1>12. ASSUME NEW r \in Reservations, NEW e \in Events,
              NEW k \in Keys \cup {NoKey}, NEW s \in AttemptStatus,
              Accept(e, r, k, s)
       PROVE  /\ seen' \in SUBSET Events
              /\ stamp' \in [ Reservations -> Stamps ]
              /\ attempts' \in [ Reservations -> Seq(Attempt) ]
              /\ finalizers' \in SUBSET (Reservations \X Nat)
              /\ \A t \in finalizers' : t[2] \in DOMAIN attempts'[t[1]]
  BY <1>12, MarkedType DEF Accept, TypeOK, FirstAttempted
<1>13. ASSUME NEW r \in Reservations, NEW e \in Events,
              NEW k \in Keys \cup {NoKey}, WebhookPaid(e, r, k)
       PROVE  TypeOK'
  <2>1. Accept(e, r, k, "paid")
    BY <1>13 DEF WebhookPaid
  <2>2. \A q \in Reservations : payment'[q] # "none" => Exists(q)'
    BY <1>13, <2>1 DEF WebhookPaid, Accept, AfterPaid, TypeOK
  <2> QED
    BY <1>12, <1>13, <2>1, <2>2
       DEF WebhookPaid, TypeOK, KeepUnchecked, AfterPaid, AttemptStatus
<1>14. ASSUME NEW r \in Reservations, NEW e \in Events,
              NEW k \in Keys \cup {NoKey}, WebhookFailed(e, r, k)
       PROVE  TypeOK'
  <2>1. Accept(e, r, k, "failed")
    BY <1>14 DEF WebhookFailed
  <2>2. \A q \in Reservations : payment'[q] # "none" => Exists(q)'
    BY <1>14, <2>1 DEF WebhookFailed, Accept, AfterFailed, TypeOK
  <2> QED
    BY <1>12, <1>14, <2>1, <2>2
       DEF WebhookFailed, TypeOK, KeepUnchecked, AfterFailed, AttemptStatus
<1>15. ASSUME NEW r \in Reservations, NEW e \in Events,
              NEW k \in Keys \cup {NoKey}, WebhookPending(e, r, k)
       PROVE  TypeOK'
  <2>1. Accept(e, r, k, "pending")
    BY <1>15 DEF WebhookPending
  <2>2. \A q \in Reservations : payment'[q] # "none" => Exists(q)'
    BY <1>15, <2>1 DEF WebhookPending, Accept, AfterPending, TypeOK
  <2> QED
    BY <1>12, <1>15, <2>1, <2>2
       DEF WebhookPending, TypeOK, KeepUnchecked, AfterPending, AttemptStatus
<1>16. ASSUME NEW r \in Reservations, NEW e \in Events, WebhookRejected(e, r)
       PROVE  TypeOK'
  BY <1>16 DEF WebhookRejected, TypeOK, Ensured
<1>17. ASSUME NEW r \in Reservations, PartnerConfirm(r) PROVE TypeOK'
  BY <1>17, SweepType DEF PartnerConfirm, TypeOK, KeepUnchecked
<1>18. ASSUME NEW r \in Reservations, Elapse(r) PROVE TypeOK'
  BY <1>18 DEF Elapse, TypeOK
<1>19. ASSUME ExpireStale PROVE TypeOK'
  BY <1>19, SweepType DEF ExpireStale, TypeOK, KeepUnchecked
<1>20. ASSUME Restart PROVE TypeOK'
  BY <1>20 DEF Restart, TypeOK
<1>21. ASSUME UNCHANGED vars PROVE TypeOK'
  BY <1>21 DEF vars, TypeOK
<1> QED
  BY <1>1, <1>2, <1>3, <1>4, <1>5, <1>6, <1>7, <1>8, <1>9, <1>10, <1>11,
     <1>13, <1>14, <1>15, <1>16, <1>17, <1>18, <1>19, <1>20, <1>21
     DEF Next, Guest, Finalizer, Provider

\* Every reachable state of every instance is well typed; in particular every
\* queued finalizer finds its attempt.
THEOREM TypeCorrect == Spec => []TypeOK
BY TypeInit, TypeStep, PTL DEF Spec

----------------------------------------------------------------------------
\* Rooms

Occupied(H, n) == { q \in H : n \in Stay[q] }

\* What a step may do to the checked holds: only release some, or take a room
\* for one reservation that the calendar had room for after the sweep.
OnlyReleases == CheckedHolds' \subseteq CheckedHolds

Admits(r) ==
    /\ RoomFree(SweptStatus, r)
    /\ CheckedHolds' \subseteq CheckedHolds \cup {r}
    /\ \A q \in CheckedHolds' \ {r} : SweptStatus[q] \in Blocking

LEMMA HoldsStep ==
    ASSUME TypeOK, [Next]_vars
    PROVE  OnlyReleases \/ \E r \in Reservations : Admits(r)
<1> USE DEF CheckedHolds, Holds, Blocking
<1> DEFINE Goal == OnlyReleases \/ \E r \in Reservations : Admits(r)
<1>1. ASSUME NEW r \in Reservations, CreateReservation(r) PROVE Goal
  BY <1>1, SweepType DEF CreateReservation, TypeOK, KeepUnchecked, OnlyReleases
<1>2. ASSUME NEW r \in Reservations, InsertPayment(r) PROVE Goal
  BY <1>2 DEF InsertPayment, OnlyReleases
<1>3. ASSUME NEW r \in Reservations, NEW k \in Keys, StartReused(r, k)
      PROVE  Goal
  BY <1>3, SweepType DEF StartReused, TypeOK, KeepUnchecked, OnlyReleases
<1>4. ASSUME NEW r \in Reservations, NEW k \in Keys, StartUnavailable(r, k)
      PROVE  Goal
  BY <1>4, SweepType
     DEF StartUnavailable, TypeOK, KeepUnchecked, OnlyReleases
<1>5. ASSUME NEW r \in Reservations, NEW k \in Keys, NEW f \in BOOLEAN,
             StartAttempt(r, k, f)
      PROVE  Goal
  <2>1. CASE SweptStatus[r] = "draft"
    BY <1>5, <2>1, SweepType
       DEF StartAttempt, StartBlocked, TypeOK, KeepUnchecked, Admits
  <2>2. CASE SweptStatus[r] = "pending_payment"
    BY <1>5, <2>2, SweepType DEF StartAttempt, TypeOK, KeepUnchecked, OnlyReleases
  <2> QED
    BY <1>5, <2>1, <2>2 DEF StartAttempt, StartAllowed
<1>6. ASSUME NEW r \in Reservations, LegacyUnavailable(r) PROVE Goal
  BY <1>6, SweepType
     DEF LegacyUnavailable, TypeOK, KeepUnchecked, OnlyReleases
<1>7. ASSUME NEW r \in Reservations, NEW f \in BOOLEAN, LegacyPayment(r, f)
      PROVE  Goal
  <2>1. CASE SweptStatus[r] = "draft"
    BY <1>7, <2>1, SweepType
       DEF LegacyPayment, StartBlocked, TypeOK, KeepUnchecked, Admits
  <2>2. CASE SweptStatus[r] = "pending_payment"
    BY <1>7, <2>2, SweepType
       DEF LegacyPayment, TypeOK, KeepUnchecked, OnlyReleases
  <2> QED
    BY <1>7, <2>1, <2>2 DEF LegacyPayment, StartAllowed
<1>8. ASSUME NEW r \in Reservations, NEW f \in BOOLEAN, Cancel(r, f)
      PROVE  Goal
  BY <1>8, SweepType DEF Cancel, TypeOK, KeepUnchecked, OnlyReleases
<1>9. ASSUME NEW r \in Reservations, Finalizer(r) PROVE Goal
  <2>1. ASSUME NEW i \in DOMAIN attempts[r], FinalizeSettled(r, i) PROVE Goal
    <3>1. status[r] \in { "pending_payment", "confirmed", "draft" }
      BY <2>1, Moves
         DEF FinalizeSettled, FinalTarget, TypeOK, Unsettled, Exists
    <3>2. status[r] = "draft" => FinalTarget(attempts[r][i]) = "draft"
      BY <2>1, <3>1, Moves DEF FinalizeSettled, FinalTarget, ReservationStatus
    <3> QED
      BY <2>1, <3>1, <3>2
         DEF FinalizeSettled, FinalTarget, TypeOK, KeepUnchecked, OnlyReleases
  <2> QED
    BY <1>9, <2>1 DEF Finalizer, FinalizeClosed, FinalizeDropped, OnlyReleases
<1>10. ASSUME NEW r \in Reservations, Provider(r) PROVE Goal
  BY <1>10
     DEF Provider, WebhookRejected, WebhookPaid, WebhookFailed, WebhookPending,
         Accept, AfterPaid, AfterFailed, AfterPending, TypeOK, KeepUnchecked,
         OnlyReleases
<1>11. ASSUME NEW r \in Reservations, PartnerConfirm(r) PROVE Goal
  BY <1>11, SweepType DEF PartnerConfirm, TypeOK, KeepUnchecked, Admits
<1>12. ASSUME NEW r \in Reservations, Elapse(r) PROVE Goal
  BY <1>12 DEF Elapse, OnlyReleases
<1>13. ASSUME ExpireStale PROVE Goal
  BY <1>13, SweepType DEF ExpireStale, TypeOK, KeepUnchecked, OnlyReleases
<1>14. ASSUME Restart \/ UNCHANGED vars PROVE Goal
  BY <1>14 DEF Restart, vars, OnlyReleases
<1> QED
  BY <1>1, <1>2, <1>3, <1>4, <1>5, <1>6, <1>7, <1>8, <1>9, <1>10, <1>11,
     <1>12, <1>13, <1>14
     DEF Next, Guest

\* The guests that r competes with on night n.
Others(r, n) ==
    { q \in Reservations \ {r} : SweptStatus[q] \in Blocking /\ n \in Stay[q] }

\* Taking a room that is left never fills a night beyond the rooms.
LEMMA CapacityStep ==
    ASSUME TypeOK, TypeOK', CheckedHoldsFit,
           OnlyReleases \/ \E r \in Reservations : Admits(r)
    PROVE  CheckedHoldsFit'
<1> SUFFICES ASSUME NEW n \in Nights
             PROVE  Cardinality(Occupied(CheckedHolds', n)) <= Inventory
  BY DEF CheckedHoldsFit, Occupied
<1> DEFINE Before == Occupied(CheckedHolds, n)
           After  == Occupied(CheckedHolds', n)
<1>1. IsFiniteSet(Before) /\ Cardinality(Before) \in Nat
  BY FiniteAssumption, FS_Subset, FS_CardinalityType DEF Occupied, CheckedHolds, Holds
<1>2. IsFiniteSet(After) /\ Cardinality(After) \in Nat
  BY FiniteAssumption, FS_Subset, FS_CardinalityType DEF Occupied, CheckedHolds, Holds
<1>3. Cardinality(Before) <= Inventory
  BY DEF CheckedHoldsFit, Occupied
<1>4. CASE After \subseteq Before
  <2>1. Cardinality(After) <= Cardinality(Before)
    BY <1>1, <1>4, FS_Subset
  <2> QED
    BY <1>1, <1>2, <1>3, <2>1, InventoryAssumption
<1>5. ASSUME NEW r \in Reservations, Admits(r), r \in After
      PROVE  Cardinality(After) <= Inventory
  <2>1. n \in Stay[r]
    BY <1>5 DEF Occupied
  <2>2. IsFiniteSet(Others(r, n)) /\ Cardinality(Others(r, n)) \in Nat
    BY FiniteAssumption, FS_Subset, FS_CardinalityType DEF Others
  <2>3. Cardinality(Others(r, n)) < Inventory
    BY <1>5, <2>1 DEF Admits, RoomFree, Others
  <2>4. After \subseteq Others(r, n) \cup {r}
    BY <1>5 DEF Admits, Occupied, Others, CheckedHolds, Holds
  <2>5. /\ IsFiniteSet(Others(r, n) \cup {r})
        /\ Cardinality(Others(r, n) \cup {r}) = Cardinality(Others(r, n)) + 1
    BY <2>2, FS_AddElement DEF Others
  <2>6. Cardinality(After) <= Cardinality(Others(r, n) \cup {r})
    BY <2>4, <2>5, FS_Subset
  <2> QED
    BY <1>2, <2>2, <2>3, <2>5, <2>6, InventoryAssumption
<1>6. CASE OnlyReleases
  BY <1>4, <1>6 DEF OnlyReleases, Occupied
<1>7. ASSUME NEW r \in Reservations, Admits(r), r \notin After
      PROVE  After \subseteq Before
  BY <1>7 DEF Admits, Occupied
<1> QED
  BY <1>4, <1>5, <1>6, <1>7

\* The reservations that a handler admitted after a look at the calendar
\* never exceed the rooms on any night, in every mode: webhooks included, for
\* which the guests admitted without a look are left out of the count.
THEOREM CheckedHoldsAlwaysFit == Spec => []CheckedHoldsFit
<1>1. Init => CheckedHoldsFit
  <2> SUFFICES ASSUME Init, NEW n \in Nights
               PROVE  Cardinality({ r \in CheckedHolds : n \in Stay[r] })
                        <= Inventory
    BY DEF CheckedHoldsFit
  <2>1. { r \in CheckedHolds : n \in Stay[r] } = {}
    BY DEF Init, CheckedHolds, Holds, Blocking
  <2> QED
    BY <2>1, FS_EmptySet, InventoryAssumption
<1>2. TypeOK /\ TypeOK' /\ CheckedHoldsFit /\ [Next]_vars => CheckedHoldsFit'
  BY HoldsStep, CapacityStep
<1> QED
  BY <1>1, <1>2, TypeCorrect, PTL DEF Spec

\* Without a provider every hold is a checked hold.
AllChecked == unchecked = {}

LEMMA NoProviderNoUnchecked ==
    ASSUME WebhookStatuses = {}
    PROVE  Spec => []AllChecked
<1>1. Init => AllChecked
  BY DEF Init, AllChecked
<1>2. AllChecked /\ [Next]_vars => AllChecked'
  <2> SUFFICES ASSUME AllChecked, [Next]_vars PROVE AllChecked'
    OBVIOUS
  <2> USE DEF AllChecked, KeepUnchecked
  <2>1. ASSUME NEW r \in Reservations, Guest(r) PROVE AllChecked'
    BY <2>1 DEF Guest, CreateReservation, InsertPayment, StartReused,
                StartUnavailable, StartAttempt, LegacyUnavailable,
                LegacyPayment, Cancel
  <2>2. ASSUME NEW r \in Reservations, Finalizer(r) PROVE AllChecked'
    BY <2>2 DEF Finalizer, FinalizeClosed, FinalizeSettled, FinalizeDropped
  <2>3. ASSUME NEW r \in Reservations, Provider(r) PROVE AllChecked'
    BY <2>3 DEF Provider, WebhookRejected, WebhookPaid, WebhookFailed,
                WebhookPending, Accept
  <2>4. ASSUME NEW r \in Reservations, PartnerConfirm(r) \/ Elapse(r)
        PROVE  AllChecked'
    BY <2>4 DEF PartnerConfirm, Elapse
  <2>5. CASE ExpireStale \/ Restart \/ UNCHANGED vars
    BY <2>5 DEF ExpireStale, Restart, vars
  <2> QED
    BY <2>1, <2>2, <2>3, <2>4, <2>5 DEF Next
<1> QED
  BY <1>1, <1>2, PTL DEF Spec

\* In mock mode no night is ever sold to more guests than it has rooms.
THEOREM MockModeNeverOversells ==
    ASSUME WebhookStatuses = {}
    PROVE  Spec => []RoomsNotOversold
<1>1. AllChecked /\ CheckedHoldsFit => RoomsNotOversold
  <2> SUFFICES ASSUME AllChecked, CheckedHoldsFit PROVE RoomsNotOversold
    OBVIOUS
  <2>1. CheckedHolds = Holds
    BY DEF CheckedHolds, AllChecked
  <2> QED
    BY <2>1 DEF CheckedHoldsFit, RoomsNotOversold
<1> QED
  BY <1>1, CheckedHoldsAlwaysFit, NoProviderNoUnchecked, PTL

\* The checked holds implement the room ledger: whatever a handler does to
\* them is a release, or the taking of a room that the ledger allows.
THEOREM ImplementsLedger == Spec => LedgerSpec
<1>1. Init => Ledger!Init
  BY DEF Init, Ledger!Init, CheckedHolds, Holds, Blocking
<1>2. TypeOK /\ TypeOK' /\ [Next]_vars => [Ledger!Next]_CheckedHolds
  <2> SUFFICES ASSUME TypeOK, TypeOK', [Next]_vars
               PROVE  Ledger!Next
    OBVIOUS
  <2>1. CASE OnlyReleases
    <3> DEFINE S == CheckedHolds \ CheckedHolds'
    <3>1. S \in SUBSET CheckedHolds /\ CheckedHolds' = CheckedHolds \ S
      BY <2>1 DEF OnlyReleases
    <3> QED
      BY <3>1 DEF Ledger!Next, Ledger!Release
  <2>2. ASSUME NEW r \in Reservations, Admits(r), ~OnlyReleases
        PROVE  Ledger!Next
    <3> DEFINE S == CheckedHolds \ CheckedHolds'
               H == (CheckedHolds \ S) \ {r}
    <3>1. S \in SUBSET CheckedHolds
      OBVIOUS
    <3>2. CheckedHolds' = (CheckedHolds \ S) \cup {r}
      BY <2>2 DEF Admits, OnlyReleases
    <3>3. ASSUME NEW n \in Stay[r]
          PROVE  Cardinality(Ledger!Occupants(H, n)) < Inventory
      <4>1. /\ IsFiniteSet(Others(r, n))
            /\ Cardinality(Others(r, n)) \in Nat
        BY FiniteAssumption, FS_Subset, FS_CardinalityType DEF Others
      <4>2. Cardinality(Others(r, n)) < Inventory
        BY <2>2 DEF Admits, RoomFree, Others
      <4>3. Ledger!Occupants(H, n) \subseteq Others(r, n)
        BY <2>2 DEF Admits, Others, Ledger!Occupants, CheckedHolds, Holds
      <4>4. /\ Cardinality(Ledger!Occupants(H, n)) <= Cardinality(Others(r, n))
            /\ IsFiniteSet(Ledger!Occupants(H, n))
        BY <4>1, <4>3, FS_Subset
      <4>5. Cardinality(Ledger!Occupants(H, n)) \in Nat
        BY <4>4, FS_CardinalityType
      <4> QED
        BY <4>1, <4>2, <4>4, <4>5, InventoryAssumption
    <3>4. Ledger!Admissible(H, r)
      BY <3>3 DEF Ledger!Admissible
    <3>5. Ledger!Acquire(r)
      BY <3>1, <3>2, <3>4 DEF Ledger!Acquire
    <3> QED
      BY <3>5 DEF Ledger!Next
  <2> QED
    BY <2>1, <2>2, HoldsStep
<1> QED
  BY <1>1, <1>2, TypeCorrect, PTL DEF Spec, LedgerSpec, Ledger!Spec

----------------------------------------------------------------------------
\* Money

LEMMA DeadlineStep == TypeOK /\ HeldHasDeadline /\ [Next]_vars => HeldHasDeadline'
<1> SUFFICES ASSUME TypeOK, HeldHasDeadline, [Next]_vars,
                    NEW q \in Reservations, status'[q] = "pending_payment"
             PROVE  stamp'[q] \in { "attempted", "attempted_stale" }
  BY DEF HeldHasDeadline
<1> DEFINE Goal == stamp'[q] \in { "attempted", "attempted_stale" }
<1> USE DEF HeldHasDeadline
<1>0. SweptStatus[q] = "pending_payment" => status[q] = "pending_payment"
  BY SweepType
<1>1. ASSUME NEW r \in Reservations, Guest(r) PROVE Goal
  BY <1>0, <1>1, SweepType
     DEF Guest, CreateReservation, InsertPayment, StartReused, StartUnavailable,
         StartAttempt, LegacyUnavailable, LegacyPayment, Cancel, TypeOK
<1>2. ASSUME NEW r \in Reservations, Finalizer(r) PROVE Goal
  BY <1>2 DEF Finalizer, FinalizeClosed, FinalizeSettled, FinalizeDropped,
              FinalTarget, TypeOK
<1>3. ASSUME NEW r \in Reservations, Provider(r) PROVE Goal
  BY <1>3 DEF Provider, WebhookRejected, WebhookPaid, WebhookFailed,
              WebhookPending, Accept, AfterPaid, AfterFailed, AfterPending,
              FirstAttempted, TypeOK, Stamps
<1>4. ASSUME NEW r \in Reservations, PartnerConfirm(r) \/ Elapse(r) PROVE Goal
  BY <1>0, <1>4, SweepType DEF PartnerConfirm, Elapse, TypeOK
<1>5. ASSUME ExpireStale \/ Restart \/ UNCHANGED vars PROVE Goal
  BY <1>0, <1>5 DEF ExpireStale, Restart, vars
<1> QED
  BY <1>1, <1>2, <1>3, <1>4, <1>5 DEF Next

\* Every pending reservation was given an attempted_at by whatever made it
\* pending, so that the TTL of the sweep counts from the payment.
THEOREM HeldAlwaysHasDeadline == Spec => []HeldHasDeadline
<1>1. Init => HeldHasDeadline
  BY DEF Init, HeldHasDeadline
<1> QED
  BY <1>1, DeadlineStep, TypeCorrect, PTL DEF Spec

LEMMA PaidStep == TypeOK /\ PaidIsNotOpen /\ [Next]_vars => PaidIsNotOpen'
<1> SUFFICES ASSUME TypeOK, PaidIsNotOpen, [Next]_vars,
                    NEW q \in Reservations, payment'[q] \in { "paid", "refunded" }
             PROVE  status'[q] \notin { "draft", "pending_payment" }
  BY DEF PaidIsNotOpen
<1> DEFINE Goal == status'[q] \notin { "draft", "pending_payment" }
<1> USE DEF PaidIsNotOpen
<1>0. /\ SweptPayment[q] \in { "paid", "refunded" } => SweptPayment[q] = payment[q]
      /\ SweptStatus[q] \in { "draft", "pending_payment" } =>
            SweptStatus[q] = status[q]
  BY SweepType DEF SweptPayment
<1>1. ASSUME NEW r \in Reservations, CreateReservation(r) PROVE Goal
  BY <1>0, <1>1, SweepType DEF CreateReservation, TypeOK, Exists
<1>2. ASSUME NEW r \in Reservations, NEW k \in Keys,
             StartReused(r, k) \/ StartUnavailable(r, k)
      PROVE  Goal
  BY <1>0, <1>2, SweepType DEF StartReused, StartUnavailable, Ensured, TypeOK
<1>3. ASSUME NEW r \in Reservations, NEW k \in Keys, NEW f \in BOOLEAN,
             StartAttempt(r, k, f)
      PROVE  Goal
  BY <1>0, <1>3, SweepType DEF StartAttempt, TypeOK
<1>4. ASSUME NEW r \in Reservations, NEW f \in BOOLEAN,
             LegacyUnavailable(r) \/ LegacyPayment(r, f)
      PROVE  Goal
  BY <1>0, <1>4, SweepType DEF LegacyUnavailable, LegacyPayment, Ensured, TypeOK
<1>5. ASSUME NEW r \in Reservations, NEW f \in BOOLEAN, Cancel(r, f)
      PROVE  Goal
  BY <1>0, <1>5, SweepType DEF Cancel, Refunded, TypeOK
<1>6. ASSUME NEW r \in Reservations, InsertPayment(r) PROVE Goal
  BY <1>6 DEF InsertPayment, TypeOK
<1>7. ASSUME NEW r \in Reservations, Finalizer(r) PROVE Goal
  BY <1>7 DEF Finalizer, FinalizeClosed, FinalizeSettled, FinalizeDropped,
              Settle, FinalStatus, FinalTarget, TypeOK
<1>8. ASSUME NEW r \in Reservations, Provider(r) PROVE Goal
  BY <1>8 DEF Provider, WebhookRejected, WebhookPaid, WebhookFailed,
              WebhookPending, Accept, AfterPaid, AfterFailed, AfterPending,
              TerminalPaid, Ensured, TypeOK
<1>9. ASSUME NEW r \in Reservations, PartnerConfirm(r) \/ Elapse(r) PROVE Goal
  BY <1>0, <1>9, SweepType DEF PartnerConfirm, Elapse, TypeOK
<1>10. ASSUME ExpireStale \/ Restart \/ UNCHANGED vars PROVE Goal
  BY <1>0, <1>10 DEF ExpireStale, Restart, vars
<1> QED
  BY <1>1, <1>2, <1>3, <1>4, <1>5, <1>6, <1>7, <1>8, <1>9, <1>10
     DEF Next, Guest

\* In every mode, a guest who has paid is never asked to pay again.
THEOREM PaidIsNeverOpen == Spec => []PaidIsNotOpen
<1>1. Init => PaidIsNotOpen
  BY DEF Init, PaidIsNotOpen
<1> QED
  BY <1>1, PaidStep, TypeCorrect, PTL DEF Spec

\* In every mode, a confirmed guest loses the room by cancellation only.
THEOREM ConfirmedIsAlwaysKept == Spec => ConfirmedIsKept
<1>1. TypeOK /\ [Next]_vars => [KeptStep]_vars
  <2> SUFFICES ASSUME TypeOK, [Next]_vars,
                      NEW q \in Reservations, status[q] = "confirmed"
               PROVE  status'[q] \in { "confirmed", "checked_in", "cancelled" }
    BY DEF KeptStep
  <2> DEFINE Goal == status'[q] \in { "confirmed", "checked_in", "cancelled" }
  <2>0. SweptStatus[q] = "confirmed"
    BY DEF SweptStatus, Overdue
  <2>1. ASSUME NEW r \in Reservations, Guest(r) PROVE Goal
    BY <2>0, <2>1, SweepType
       DEF Guest, CreateReservation, InsertPayment, StartReused,
           StartUnavailable, StartAllowed, StartAttempt, LegacyUnavailable,
           LegacyPayment, Cancel, Exists, TypeOK
  <2>2. ASSUME NEW r \in Reservations, Finalizer(r) PROVE Goal
    BY <2>2, Moves
       DEF Finalizer, FinalizeClosed, FinalizeSettled, FinalizeDropped,
           FinalTarget, TypeOK, ReservationStatus
  <2>3. ASSUME NEW r \in Reservations, Provider(r) PROVE Goal
    BY <2>3 DEF Provider, WebhookRejected, WebhookPaid, WebhookFailed,
                WebhookPending, Accept, AfterPaid, AfterFailed, AfterPending,
                TypeOK
  <2>4. ASSUME NEW r \in Reservations, PartnerConfirm(r) \/ Elapse(r)
        PROVE  Goal
    BY <2>0, <2>4, SweepType DEF PartnerConfirm, Elapse, TypeOK
  <2>5. ASSUME ExpireStale \/ Restart \/ UNCHANGED vars PROVE Goal
    BY <2>0, <2>5 DEF ExpireStale, Restart, vars
  <2> QED
    BY <2>1, <2>2, <2>3, <2>4, <2>5 DEF Next
<1> QED
  BY <1>1, TypeCorrect, PTL DEF Spec, ConfirmedIsKept

\* With a real provider no finalizer is ever queued.
NoFinalizer == finalizers = {}

LEMMA ProviderModeHasNoFinalizer ==
    ASSUME MockProvider = FALSE
    PROVE  Spec => []NoFinalizer
<1>1. Init => NoFinalizer
  BY DEF Init, NoFinalizer
<1>2. NoFinalizer /\ [Next]_vars => NoFinalizer'
  <2> SUFFICES ASSUME NoFinalizer, [Next]_vars PROVE NoFinalizer'
    OBVIOUS
  <2>1. ASSUME NEW r \in Reservations, Guest(r) PROVE NoFinalizer'
    BY <2>1
    DEF NoFinalizer, Guest, CreateReservation, InsertPayment, StartReused,
        StartUnavailable, StartAttempt, LegacyUnavailable, LegacyPayment, Cancel
  <2>2. ASSUME NEW r \in Reservations, Finalizer(r) PROVE NoFinalizer'
    BY <2>2
    DEF NoFinalizer, Finalizer, FinalizeClosed, FinalizeSettled, FinalizeDropped
  <2>3. ASSUME NEW r \in Reservations, Provider(r) PROVE NoFinalizer'
    BY <2>3
    DEF NoFinalizer, Provider, WebhookRejected, WebhookPaid, WebhookFailed,
        WebhookPending, Accept
  <2>4. ASSUME NEW r \in Reservations, PartnerConfirm(r) \/ Elapse(r)
        PROVE  NoFinalizer'
    BY <2>4 DEF NoFinalizer, PartnerConfirm, Elapse
  <2>5. ASSUME ExpireStale \/ Restart \/ UNCHANGED vars PROVE NoFinalizer'
    BY <2>5 DEF NoFinalizer, ExpireStale, Restart, vars
  <2> QED
    BY <2>1, <2>2, <2>3, <2>4, <2>5 DEF Next
<1> QED
  BY <1>1, <1>2, PTL DEF Spec

\* With a real provider, a payment that was received stays paid or refunded,
\* whatever events arrive, in whatever order and however late.
THEOREM ProviderMoneyNeverForgotten ==
    ASSUME MockProvider = FALSE
    PROVE  Spec => MoneyNeverForgotten
<1>1. TypeOK /\ PaidIsNotOpen /\ NoFinalizer /\ [Next]_vars => [MoneyStep]_vars
  <2> SUFFICES ASSUME TypeOK, PaidIsNotOpen, NoFinalizer, [Next]_vars,
                      NEW q \in Reservations, payment[q] \in { "paid", "refunded" }
               PROVE  payment'[q] \in { "paid", "refunded" }
    BY DEF MoneyStep
  <2> DEFINE Goal == payment'[q] \in { "paid", "refunded" }
  <2>0. /\ SweptPayment[q] = payment[q]
        /\ SweptStatus[q] \notin { "draft", "pending_payment" }
    BY SweepType DEF SweptPayment, PaidIsNotOpen, TypeOK
  <2>1. ASSUME NEW r \in Reservations, Guest(r) PROVE Goal
    BY <2>0, <2>1, SweepType
       DEF Guest, CreateReservation, InsertPayment, StartReused,
           StartUnavailable, StartAllowed, StartAttempt, LegacyUnavailable,
           LegacyPayment, Cancel, Ensured, Refunded, TypeOK
  <2>2. ASSUME NEW r \in Reservations, Finalizer(r) PROVE FALSE
    BY <2>2 DEF Finalizer, FinalizeClosed, FinalizeSettled, FinalizeDropped,
                NoFinalizer
  <2>3. ASSUME NEW r \in Reservations, Provider(r) PROVE Goal
    BY <2>3 DEF Provider, WebhookRejected, WebhookPaid, WebhookFailed,
                WebhookPending, Accept, TerminalPaid, Ensured, TypeOK
  <2>4. ASSUME NEW r \in Reservations, PartnerConfirm(r) \/ Elapse(r)
        PROVE  Goal
    BY <2>0, <2>4 DEF PartnerConfirm, Elapse
  <2>5. ASSUME ExpireStale \/ Restart \/ UNCHANGED vars PROVE Goal
    BY <2>0, <2>5 DEF ExpireStale, Restart, vars
  <2> QED
    BY <2>1, <2>2, <2>3, <2>4, <2>5 DEF Next
<1> QED
  BY <1>1, TypeCorrect, PaidIsNeverOpen, ProviderModeHasNoFinalizer, PTL
     DEF Spec, MoneyNeverForgotten

----------------------------------------------------------------------------
\* Attempts in mock mode

\* The inductive part of AttemptsMatchMoney.  Only the last row of a
\* reservation can be in flight, and none is in flight for a draft: a draft is
\* what a failed attempt leaves, or what was never paid for.  It is why
\* _start_pending_payment_attempt, which looks at the latest row only, and
\* only for a pending reservation, never puts a second one beside the first.
InFlight(r, i) == attempts[r][i].status = "pending"

AttemptStory(r) ==
    /\ \A i \in DOMAIN attempts[r] :
          InFlight(r, i) => /\ i = Len(attempts[r])
                            /\ status[r] \notin { "none", "draft" }
                            /\ payment[r] \notin { "paid", "refunded" }
    /\ payment[r] \in { "paid", "refunded" } <=>
          \E i \in DOMAIN attempts[r] : attempts[r][i].status = "paid"

AttemptStories == \A r \in Reservations : AttemptStory(r)

\* A step that leaves the attempts of r alone, and its payment received or not
\* received, keeps its story if it does not make a draft of it.
LEMMA StoryUntouched ==
    ASSUME NEW r \in Reservations, AttemptStory(r),
           attempts'[r] = attempts[r],
           payment[r] \in { "paid", "refunded" }
             <=> payment'[r] \in { "paid", "refunded" },
           status'[r] \in { "none", "draft" } => status[r] \in { "none", "draft" }
    PROVE  AttemptStory(r)'
BY DEF AttemptStory, InFlight

\* What the sweep does to a story: nothing.
LEMMA SweptStory ==
    ASSUME TypeOK, NEW r \in Reservations
    PROVE  /\ SweptPayment[r] \in { "paid", "refunded" }
                <=> payment[r] \in { "paid", "refunded" }
           /\ SweptStatus[r] \in { "none", "draft" }
                <=> status[r] \in { "none", "draft" }
BY SweepType DEF SweptPayment, SweptStatus, Overdue, TypeOK

\* A new attempt is put behind rows of which none is in flight.
LEMMA StoryStarted ==
    ASSUME TypeOK, PaidIsNotOpen, NEW r \in Reservations, AttemptStory(r),
           NEW k \in Keys, NEW f \in BOOLEAN, StartAttempt(r, k, f)
    PROVE  AttemptStory(r)'
<1> DEFINE rows == attempts[r]
           n == Len(rows) + 1
<1>1. rows \in Seq(Attempt) /\ Len(rows) \in Nat /\ DOMAIN rows = 1 .. Len(rows)
  BY DEF TypeOK
<1>2. NewAttempt(k, f) \in Attempt
  BY DEF NewAttempt, Attempt, AttemptStatus
<1>3. attempts'[r] = Append(rows, NewAttempt(k, f))
  BY DEF StartAttempt, TypeOK
<1>4. /\ DOMAIN attempts'[r] = 1 .. n
      /\ Len(attempts'[r]) = n
      /\ attempts'[r][n].status = "pending"
      /\ \A i \in DOMAIN rows : attempts'[r][i] = rows[i]
  BY <1>1, <1>2, <1>3 DEF NewAttempt
<1>5. status'[r] = "pending_payment" /\ payment'[r] = "pending"
  BY SweepType DEF StartAttempt
<1>6. SweptStatus[r] = status[r] /\ status[r] \in { "draft", "pending_payment" }
  BY SweepType DEF StartAttempt, StartAllowed
<1>7. \A i \in DOMAIN rows : rows[i].status # "pending"
  <2>1. CASE status[r] = "draft"
    BY <2>1 DEF AttemptStory, InFlight
  <2>2. CASE status[r] = "pending_payment"
    BY <1>1, <1>6, <2>2
       DEF StartAttempt, ReusesAttempt, LatestPending, AttemptStory, InFlight
  <2> QED
    BY <1>6, <2>1, <2>2
<1>8. \A i \in DOMAIN rows : rows[i].status # "paid"
  BY <1>6 DEF PaidIsNotOpen, AttemptStory
<1>9. \A i \in 1 .. n : i = n \/ i \in DOMAIN rows
  BY <1>1
<1> QED
  BY <1>4, <1>5, <1>7, <1>8, <1>9 DEF AttemptStory, InFlight

\* The attempt in flight is settled together with the payment.
LEMMA StorySettled ==
    ASSUME TypeOK, NEW r \in Reservations, AttemptStory(r),
           NEW i \in DOMAIN attempts[r], InFlight(r, i),
           NEW s \in { "paid", "failed" }, Settle(r, i, s)
    PROVE  /\ AttemptStory(r)'
           /\ \A j \in DOMAIN attempts'[r] : ~InFlight(r, j)'
<1>1. /\ attempts[r] \in Seq(Attempt) /\ attempts[r][i] \in Attempt
      /\ attempts \in [ Reservations -> Seq(Attempt) ]
  BY DEF TypeOK
<1>2. attempts'[r] = [ attempts[r] EXCEPT ![i].status = s ]
  BY <1>1 DEF Settle
<1>3. /\ DOMAIN attempts'[r] = DOMAIN attempts[r]
      /\ attempts'[r][i].status = s
      /\ \A j \in DOMAIN attempts[r] : j # i => attempts'[r][j] = attempts[r][j]
  BY <1>1, <1>2 DEF Attempt
<1>4. payment'[r] = s
  BY DEF Settle, TypeOK
<1>5. \A j \in DOMAIN attempts'[r] : attempts'[r][j].status # "pending"
  BY <1>3 DEF AttemptStory, InFlight
<1>6. \A j \in DOMAIN attempts[r] : attempts[r][j].status # "paid"
  BY DEF AttemptStory, InFlight
<1>7. payment'[r] \in { "paid", "refunded" } <=>
        \E j \in DOMAIN attempts'[r] : attempts'[r][j].status = "paid"
  BY <1>3, <1>4, <1>6
<1> QED
  BY <1>5, <1>7 DEF AttemptStory, InFlight

LEMMA StoryStep ==
    ASSUME WebhookStatuses = {}, LegacyCalls = FALSE,
           TypeOK, PaidIsNotOpen, AttemptStories, [Next]_vars
    PROVE  AttemptStories'
<1> SUFFICES ASSUME NEW q \in Reservations PROVE AttemptStory(q)'
  BY DEF AttemptStories
<1>0. AttemptStory(q)
  BY DEF AttemptStories
<1>1. ASSUME NEW r \in Reservations, CreateReservation(r) PROVE AttemptStory(q)'
  BY <1>0, <1>1, StoryUntouched, SweptStory, SweepType
     DEF CreateReservation, Exists
<1>2. ASSUME NEW r \in Reservations, InsertPayment(r) PROVE AttemptStory(q)'
  BY <1>0, <1>2, StoryUntouched DEF InsertPayment, TypeOK
<1>3. ASSUME NEW r \in Reservations, NEW k \in Keys,
             StartReused(r, k) \/ StartUnavailable(r, k)
      PROVE  AttemptStory(q)'
  BY <1>0, <1>3, StoryUntouched, SweptStory, SweepType
     DEF StartReused, StartUnavailable, Ensured
<1>4. ASSUME NEW r \in Reservations, NEW k \in Keys, NEW f \in BOOLEAN,
             StartAttempt(r, k, f)
      PROVE  AttemptStory(q)'
  <2>1. CASE q = r
    BY <1>0, <1>4, <2>1, StoryStarted
  <2>2. CASE q # r
    <3>1. attempts'[q] = attempts[q] /\ status'[q] = SweptStatus[q]
          /\ payment'[q] = SweptPayment[q]
      BY <1>4, <2>2, SweepType DEF StartAttempt, TypeOK
    <3> QED
      BY <1>0, <3>1, StoryUntouched, SweptStory
  <2> QED
    BY <2>1, <2>2
<1>5. ASSUME NEW r \in Reservations, NEW f \in BOOLEAN,
             LegacyUnavailable(r) \/ LegacyPayment(r, f)
      PROVE  FALSE
  BY <1>5 DEF LegacyUnavailable, LegacyPayment
<1>6. ASSUME NEW r \in Reservations, NEW f \in BOOLEAN, Cancel(r, f)
      PROVE  AttemptStory(q)'
  BY <1>0, <1>6, StoryUntouched, SweptStory, SweepType DEF Cancel, Refunded
<1>7. ASSUME NEW r \in Reservations, NEW i \in DOMAIN attempts[r],
             Unsettled(r, i), NEW s \in { "paid", "failed" }, Settle(r, i, s),
             \/ status'[r] = status[r]
             \/ status' = [ status EXCEPT ![r] = FinalTarget(attempts[r][i]) ],
             \A p \in Reservations : p # r => status'[p] = status[p]
      PROVE  AttemptStory(q)'
  <2>1. CASE q = r
    BY <1>0, <1>7, <2>1, StorySettled DEF Unsettled, InFlight
  <2>2. CASE q # r
    BY <1>0, <1>7, <2>2, StoryUntouched DEF Settle, TypeOK
  <2> QED
    BY <2>1, <2>2
<1>8. ASSUME NEW r \in Reservations, Finalizer(r) PROVE AttemptStory(q)'
  <2>1. ASSUME NEW i \in DOMAIN attempts[r], FinalizeClosed(r, i)
        PROVE  AttemptStory(q)'
    BY <1>7, <2>1 DEF FinalizeClosed
  <2>2. ASSUME NEW i \in DOMAIN attempts[r], FinalizeSettled(r, i)
        PROVE  AttemptStory(q)'
    <3>1. FinalStatus(attempts[r][i]) \in { "paid", "failed" }
      BY DEF FinalStatus
    <3> QED
      BY <1>7, <2>2, <3>1 DEF FinalizeSettled, TypeOK
  <2>3. ASSUME NEW i \in DOMAIN attempts[r], FinalizeDropped(r, i)
        PROVE  AttemptStory(q)'
    BY <1>0, <2>3, StoryUntouched DEF FinalizeDropped
  <2> QED
    BY <1>8, <2>1, <2>2, <2>3 DEF Finalizer
<1>9. ASSUME NEW r \in Reservations, Provider(r) PROVE FALSE
  BY <1>9 DEF Provider, WebhookRejected, WebhookPaid, WebhookFailed,
              WebhookPending, Accept
<1>10. ASSUME NEW r \in Reservations, PartnerConfirm(r) PROVE AttemptStory(q)'
  BY <1>0, <1>10, StoryUntouched, SweptStory, SweepType DEF PartnerConfirm
<1>11. ASSUME NEW r \in Reservations, Elapse(r) PROVE AttemptStory(q)'
  BY <1>0, <1>11, StoryUntouched DEF Elapse
<1>12. CASE ExpireStale
  BY <1>0, <1>12, StoryUntouched, SweptStory DEF ExpireStale
<1>13. CASE Restart \/ UNCHANGED vars
  BY <1>0, <1>13, StoryUntouched DEF Restart, vars
<1> QED
  BY <1>1, <1>2, <1>3, <1>4, <1>5, <1>6, <1>8, <1>9, <1>10, <1>11, <1>12,
     <1>13 DEF Next, Guest

LEMMA StoriesHold ==
    ASSUME WebhookStatuses = {}, LegacyCalls = FALSE
    PROVE  Spec => []AttemptStories
<1>1. Init => AttemptStories
  BY DEF Init, AttemptStories, AttemptStory, InFlight
<1>2. TypeOK /\ PaidIsNotOpen /\ AttemptStories /\ [Next]_vars => AttemptStories'
  BY StoryStep
<1> QED
  BY <1>1, <1>2, TypeCorrect, PaidIsNeverOpen, PTL DEF Spec

\* In mock mode a reservation has at most one attempt in flight, its payment
\* was received exactly when one of its attempts is paid, and no attempt that
\* could charge again is in flight then.
THEOREM AttemptsAlwaysMatchMoney ==
    ASSUME WebhookStatuses = {}, LegacyCalls = FALSE
    PROVE  Spec => []AttemptsMatchMoney
<1>1. TypeOK /\ AttemptStories => AttemptsMatchMoney
  <2> SUFFICES ASSUME TypeOK, AttemptStories, NEW r \in Reservations
               PROVE  /\ Cardinality(PendingAttempts(r)) <= 1
                      /\ payment[r] \in { "paid", "refunded" } <=>
                            \E i \in DOMAIN attempts[r] :
                                attempts[r][i].status = "paid"
                      /\ payment[r] \in { "paid", "refunded" } =>
                            PendingAttempts(r) = {}
    BY DEF AttemptsMatchMoney
  <2>1. AttemptStory(r)
    BY DEF AttemptStories
  <2>2. PendingAttempts(r) \subseteq { Len(attempts[r]) }
    BY <2>1 DEF AttemptStory, InFlight, PendingAttempts
  <2>3. Cardinality(PendingAttempts(r)) <= Cardinality({ Len(attempts[r]) })
    BY <2>2, FS_Singleton, FS_Subset
  <2>4. Cardinality({ Len(attempts[r]) }) = 1
    BY FS_Singleton
  <2> QED
    BY <2>1, <2>3, <2>4 DEF AttemptStory, InFlight, PendingAttempts
<1> QED
  BY <1>1, TypeCorrect, StoriesHold, PTL

\* In mock mode a payment that was received stays paid or refunded: a
\* finalizer that comes late finds its attempt settled, or finds that its
\* reservation was closed before anything was paid.
THEOREM MockMoneyNeverForgotten ==
    ASSUME WebhookStatuses = {}, LegacyCalls = FALSE
    PROVE  Spec => MoneyNeverForgotten
<1>1. TypeOK /\ PaidIsNotOpen /\ AttemptStories /\ [Next]_vars => [MoneyStep]_vars
  <2> SUFFICES ASSUME TypeOK, PaidIsNotOpen, AttemptStories, [Next]_vars,
                      NEW q \in Reservations, payment[q] \in { "paid", "refunded" }
               PROVE  payment'[q] \in { "paid", "refunded" }
    BY DEF MoneyStep
  <2> DEFINE Goal == payment'[q] \in { "paid", "refunded" }
  <2>0. /\ SweptPayment[q] = payment[q]
        /\ SweptStatus[q] \notin { "draft", "pending_payment" }
    BY SweepType DEF SweptPayment, PaidIsNotOpen, TypeOK
  <2>1. ASSUME NEW r \in Reservations, Guest(r) PROVE Goal
    BY <2>0, <2>1, SweepType
       DEF Guest, CreateReservation, InsertPayment, StartReused,
           StartUnavailable, StartAllowed, StartAttempt, LegacyUnavailable,
           LegacyPayment, Cancel, Ensured, Refunded, TypeOK
  <2>2. ASSUME NEW r \in Reservations, Finalizer(r) PROVE Goal
    <3>1. ASSUME NEW i \in DOMAIN attempts[r], Unsettled(r, i),
                 NEW s \in AttemptStatus, Settle(r, i, s)
          PROVE  Goal
      <4>1. r # q
        BY <3>1 DEF AttemptStories, AttemptStory, InFlight, Unsettled
      <4> QED
        BY <3>1, <4>1 DEF Settle, TypeOK
    <3>2. ASSUME NEW i \in DOMAIN attempts[r]
          PROVE  FinalStatus(attempts[r][i]) \in AttemptStatus
                 /\ "failed" \in AttemptStatus
      BY DEF FinalStatus, AttemptStatus
    <3> QED
      BY <2>2, <3>1, <3>2
         DEF Finalizer, FinalizeClosed, FinalizeSettled, FinalizeDropped
  <2>3. ASSUME NEW r \in Reservations, Provider(r) PROVE Goal
    BY <2>3 DEF Provider, WebhookRejected, WebhookPaid, WebhookFailed,
                WebhookPending, Accept
  <2>4. ASSUME NEW r \in Reservations, PartnerConfirm(r) \/ Elapse(r)
        PROVE  Goal
    BY <2>0, <2>4 DEF PartnerConfirm, Elapse
  <2>5. ASSUME ExpireStale \/ Restart \/ UNCHANGED vars PROVE Goal
    BY <2>0, <2>5 DEF ExpireStale, Restart, vars
  <2> QED
    BY <2>1, <2>2, <2>3, <2>4, <2>5 DEF Next
<1> QED
  BY <1>1, TypeCorrect, PaidIsNeverOpen, StoriesHold, PTL
     DEF Spec, MoneyNeverForgotten

LEMMA RefundStep ==
    ASSUME WebhookStatuses = {}, TypeOK, CancelledIsRefunded, [Next]_vars
    PROVE  CancelledIsRefunded'
<1> SUFFICES ASSUME NEW q \in AlwaysRefundable, status'[q] = "cancelled"
             PROVE  payment'[q] # "paid"
  BY DEF CancelledIsRefunded
<1> DEFINE Goal == payment'[q] # "paid"
<1>0. q \in Reservations
  BY ProviderAssumption
<1>1. /\ SweptPayment[q] = "paid" => payment[q] = "paid"
      /\ SweptStatus[q] = "cancelled" => status[q] = "cancelled"
      /\ status[q] = "cancelled" => payment[q] # "paid"
  BY <1>0, SweepType DEF SweptPayment, CancelledIsRefunded
<1>2. ASSUME NEW r \in Reservations, NEW f \in BOOLEAN, Cancel(r, f) PROVE Goal
  BY <1>0, <1>1, <1>2, SweepType DEF Cancel, Refunded
<1>3. ASSUME NEW r \in Reservations, Guest(r),
             \A f \in BOOLEAN : ~Cancel(r, f)
      PROVE  Goal
  BY <1>0, <1>1, <1>3, SweepType
     DEF Guest, CreateReservation, InsertPayment, StartReused, StartUnavailable,
         StartAttempt, LegacyUnavailable, LegacyPayment, Ensured, TypeOK
<1>4. ASSUME NEW r \in Reservations, Finalizer(r) PROVE Goal
  BY <1>0, <1>1, <1>4
     DEF Finalizer, FinalizeClosed, FinalizeSettled, FinalizeDropped, Settle,
         FinalTarget, TypeOK
<1>5. ASSUME NEW r \in Reservations, Provider(r) PROVE Goal
  BY <1>5 DEF Provider, WebhookRejected, WebhookPaid, WebhookFailed,
              WebhookPending, Accept
<1>6. ASSUME NEW r \in Reservations, PartnerConfirm(r) \/ Elapse(r) PROVE Goal
  BY <1>0, <1>1, <1>6, SweepType DEF PartnerConfirm, Elapse
<1>7. ASSUME ExpireStale \/ Restart \/ UNCHANGED vars PROVE Goal
  BY <1>0, <1>1, <1>7 DEF ExpireStale, Restart, vars
<1> QED
  BY <1>2, <1>3, <1>4, <1>5, <1>6, <1>7 DEF Next

\* Without a provider, a reservation whose tariff always leaves something to
\* refund is never cancelled with the guest's money kept, in whatever order
\* the cancellation, the sweep, the finalizers and the partner come.
THEOREM CancelledIsAlwaysRefunded ==
    ASSUME WebhookStatuses = {}
    PROVE  Spec => []CancelledIsRefunded
<1>1. Init => CancelledIsRefunded
  BY ProviderAssumption DEF Init, CancelledIsRefunded
<1>2. TypeOK /\ CancelledIsRefunded /\ [Next]_vars => CancelledIsRefunded'
  BY RefundStep
<1> QED
  BY <1>1, <1>2, TypeCorrect, PTL DEF Spec

=============================================================================
