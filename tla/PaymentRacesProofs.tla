-------------------------- MODULE PaymentRacesProofs --------------------------
(***************************************************************************)
(* Theorems about PaymentRaces, for every number of reservations, nights,  *)
(* rooms, threads and webhooks: the sessions stay well formed, races       *)
(* oversell a night by at most the number of competing processes minus     *)
(* one, one thread never does, each start buys a whole TTL, a reservation  *)
(* that was not written behind another's back keeps its money and its      *)
(* room, and in mock mode no money is on record that no attempt brought.   *)
(***************************************************************************)
EXTENDS PaymentRaces, FiniteSetTheorems, SequenceTheorems, TLAPS

----------------------------------------------------------------------------
\* Sequences of attempts

\* An attempt put at the end keeps the other rows where they are.
LEMMA InsertedType ==
    ASSUME NEW s \in Seq(Attempt), NEW a \in Attempt
    PROVE  /\ Append(s, a) \in Seq(Attempt)
           /\ DOMAIN s \subseteq DOMAIN Append(s, a)
           /\ Len(s) + 1 \in DOMAIN Append(s, a)
           /\ Len(s) + 1 \in Nat
<1> DEFINE t == Append(s, a)
<1>1. t \in Seq(Attempt) /\ Len(t) = Len(s) + 1
  BY AppendProperties
<1> HIDE DEF t
<1>2. DOMAIN t = 1 .. Len(t) /\ DOMAIN s = 1 .. Len(s) /\ Len(s) \in Nat
  BY <1>1, LenProperties
<1>3. t \in Seq(Attempt) /\ DOMAIN s \subseteq DOMAIN t /\ Len(s) + 1 \in DOMAIN t
  BY <1>1, <1>2
<1> QED
  BY <1>2, <1>3 DEF t

\* So does a new status of one row, whatever row is meant.
LEMMA SettledType ==
    ASSUME NEW s \in Seq(Attempt), NEW i \in Nat, NEW o \in AttemptStatus
    PROVE  /\ [ s EXCEPT ![i].status = o ] \in Seq(Attempt)
           /\ DOMAIN [ s EXCEPT ![i].status = o ] = DOMAIN s
<1> DEFINE t == [ s EXCEPT ![i].status = o ]
<1>1. DOMAIN s = 1 .. Len(s) /\ Len(s) \in Nat /\ s \in [ 1 .. Len(s) -> Attempt ]
  BY LenProperties
<1>2. \A j \in DOMAIN s : t[j] \in Attempt
  <2> SUFFICES ASSUME NEW j \in DOMAIN s PROVE t[j] \in Attempt
    OBVIOUS
  <2>1. s[j] \in Attempt
    BY <1>1
  <2>2. [ s[j] EXCEPT !.status = o ] \in Attempt
    BY <2>1 DEF Attempt
  <2> QED
    BY <2>1, <2>2
<1>3. t \in [ 1 .. Len(s) -> Attempt ]
  BY <1>1, <1>2
<1> QED
  BY <1>1, <1>3

\* What a commit leaves of the attempts of its reservation.
LEMMA WrittenType ==
    ASSUME TypeOK, NEW p \in Procs, at[p] = "decided"
    PROVE  /\ AttemptsWritten(p) \in Seq(Attempt)
           /\ DOMAIN attempts[req[p].r] \subseteq DOMAIN AttemptsWritten(p)
           /\ plan[p].insert =>
                /\ NewRow(req[p].r) \in DOMAIN AttemptsWritten(p)
                /\ NewRow(req[p].r) \in Nat
<1>1. PlanOK(p) /\ req[p] \in Request /\ plan[p] \in Plan
  BY DEF TypeOK, SessionsOK, PlanOK
<1>2. /\ attempts[req[p].r] \in Seq(Attempt)
      /\ plan[p].insert \in BOOLEAN /\ plan[p].row \in Nat
  BY <1>1 DEF TypeOK, RowsOK, Request, Plan
<1>3. CASE plan[p].insert
  <2> DEFINE a == [ key |-> req[p].key, status |-> plan[p].outcome ]
  <2>1. a \in Attempt
    BY <1>1, <1>3 DEF Attempt, PlanOK
  <2>2. AttemptsWritten(p) = Append(attempts[req[p].r], a)
    BY <1>3 DEF AttemptsWritten
  <2> HIDE DEF a
  <2> QED
    BY <1>2, <2>1, <2>2, InsertedType DEF NewRow
<1>4. CASE ~plan[p].insert /\ plan[p].row > 0
  <2>1. AttemptsWritten(p) =
          [ attempts[req[p].r] EXCEPT ![plan[p].row].status = plan[p].outcome ]
    BY <1>4 DEF AttemptsWritten
  <2> QED
    BY <1>1, <1>2, <1>4, <2>1, SettledType DEF PlanOK
<1>5. CASE ~plan[p].insert /\ ~(plan[p].row > 0)
  BY <1>2, <1>5 DEF AttemptsWritten
<1> QED
  BY <1>2, <1>3, <1>4, <1>5

----------------------------------------------------------------------------
\* Sessions

\* A process that has finished leaves the others' sessions alone.
LEMMA DoneSessions ==
    ASSUME SessionsOK, NEW p \in Procs, Done(p)
    PROVE  SessionsOK'
<1>1. /\ at' \in [ Procs -> Steps ]
      /\ req' \in [ Procs -> Request \cup {None} ]
      /\ saw' \in [ Procs -> ReservationStatus \cup {None} ]
      /\ sel' \in [ Procs -> SUBSET Reservations ]
      /\ plan' \in [ Procs -> Plan \cup {None} ]
  BY DEF SessionsOK, Done, Steps
<1>2. at'[p] = "idle" /\ req'[p] = None
  BY DEF SessionsOK, Done
<1>3. \A q \in Procs \ {p} :
         at'[q] = at[q] /\ req'[q] = req[q] /\ plan'[q] = plan[q]
  BY DEF SessionsOK, Done
<1> QED
  BY <1>1, <1>2, <1>3 DEF SessionsOK, PlanOK

\* A process that has decided has a plan for its request.
LEMMA DecidedSessions ==
    ASSUME SessionsOK, NEW p \in Procs,
           NEW rq \in Request, NEW pl \in Plan,
           pl.insert => rq.key \in Keys,
           pl.insert \/ pl.row > 0 => pl.outcome \in AttemptStatus,
           rq.op = "start" => pl.insert,
           rq.op = "webhook" => rq.event \in Events,
           at' = [ at EXCEPT ![p] = "decided" ],
           req' = [ req EXCEPT ![p] = rq ],
           plan' = [ plan EXCEPT ![p] = pl ],
           UNCHANGED << saw, sel >>
    PROVE  SessionsOK'
<1>1. /\ at' \in [ Procs -> Steps ]
      /\ req' \in [ Procs -> Request \cup {None} ]
      /\ saw' \in [ Procs -> ReservationStatus \cup {None} ]
      /\ sel' \in [ Procs -> SUBSET Reservations ]
      /\ plan' \in [ Procs -> Plan \cup {None} ]
  BY DEF SessionsOK, Steps
<1>2. at'[p] = "decided" /\ req'[p] = rq /\ plan'[p] = pl
  BY DEF SessionsOK
<1>3. \A q \in Procs \ {p} :
         at'[q] = at[q] /\ req'[q] = req[q] /\ plan'[q] = plan[q]
  BY DEF SessionsOK
<1>4. rq # None /\ pl # None
  BY NoneAssumption
<1> QED
  BY <1>1, <1>2, <1>3, <1>4 DEF SessionsOK, PlanOK

\* A handler that decides keeps its request.
LEMMA DecideSessions ==
    ASSUME SessionsOK, NEW p \in Procs, NEW pl \in Plan, Decide(p, pl),
           req[p] # None,
           pl.insert => req[p].key \in Keys,
           pl.insert \/ pl.row > 0 => pl.outcome \in AttemptStatus,
           req[p].op = "start" => pl.insert,
           req[p].op # "webhook"
    PROVE  SessionsOK'
<1>1. req[p] \in Request /\ req' = [ req EXCEPT ![p] = req[p] ]
  BY DEF SessionsOK, Decide
<1>2. /\ at' = [ at EXCEPT ![p] = "decided" ]
      /\ plan' = [ plan EXCEPT ![p] = pl ]
      /\ UNCHANGED << saw, sel >>
  BY DEF Decide
<1> QED
  BY <1>1, <1>2, DecidedSessions

\* Sessions nobody touches stay well formed.
LEMMA SameSessions ==
    ASSUME SessionsOK, UNCHANGED local
    PROVE  SessionsOK'
BY DEF SessionsOK, PlanOK, local

\* Rows nobody touches stay well formed, whoever has them in hand.
LEMMA SameRows ==
    ASSUME RowsOK, UNCHANGED << rows, restarts, unchecked, contended >>
    PROVE  RowsOK'
BY DEF RowsOK, rows

\* A reservation that is noted as contended is one that was written.
LEMMA NotedType ==
    ASSUME RowsOK, NEW p \in Procs, NEW S \in SUBSET Reservations,
           NoteContention(p, S)
    PROVE  contended' \in SUBSET Reservations
BY DEF RowsOK, NoteContention

----------------------------------------------------------------------------
\* Type correctness

\* The plan a start decides on.
LEMMA StartPlanType ==
    ASSUME TypeOK, NEW p \in Procs, IsRequest(p, "start"),
           NEW st \in {"pending_payment", "same"},
           NEW pay \in {"pending", "same"}, NEW t \in BOOLEAN
    PROVE  [ status |-> st, payment |-> pay, outcome |-> "pending", row |-> 0,
             insert |-> TRUE, touch |-> t, checked |-> TRUE ] \in Plan
BY DEF Plan, ReservationStatus, PaymentStatus, AttemptStatus

\* The plan of a handler that settles no attempt.
LEMMA ManualPlanType ==
    ASSUME NEW st \in ReservationStatus, NEW pay \in PaymentStatus \cup {"same"},
           NEW c \in BOOLEAN
    PROVE  /\ ManualPlan(st, pay, c) \in Plan
           /\ ManualPlan(st, pay, c).insert = FALSE
           /\ ManualPlan(st, pay, c).row = 0
BY DEF Plan, ManualPlan

\* Initially nothing runs.
LEMMA TypeInit == Init => TypeOK
<1> SUFFICES ASSUME Init PROVE TypeOK
  OBVIOUS
<1>1. << >> \in Seq(Attempt)
  BY EmptySeq
<1>2. RowsOK
  BY <1>1, ModeAssumption
     DEF Init, RowsOK, ReservationStatus, PaymentStatus, Stamps, Blocking
<1>3. SessionsOK
  BY DEF Init, SessionsOK, Steps, PlanOK
<1> QED
  BY <1>2, <1>3 DEF TypeOK

\* A commit writes what was planned.
LEMMA CommitRows ==
    ASSUME TypeOK, NEW p \in Procs, Commit(p)
    PROVE  RowsOK'
<1> DEFINE r == req[p].r
<1>1. /\ RowsOK /\ SessionsOK /\ at[p] = "decided" /\ PlanOK(p)
      /\ req[p] \in Request /\ plan[p] \in Plan
  BY DEF TypeOK, SessionsOK, Commit, PlanOK
<1>2. /\ r \in Reservations
      /\ plan[p].status \in ReservationStatus \cup {"same"}
      /\ plan[p].payment \in PaymentStatus \cup {"same"}
      /\ plan[p].insert \in BOOLEAN
      /\ plan[p].touch \in BOOLEAN
      /\ plan[p].checked \in BOOLEAN
  BY <1>1 DEF Request, Plan
<1>3. status' \in [ Reservations -> ReservationStatus ]
  BY <1>1, <1>2 DEF Commit, RowsOK, Written
<1>4. payment' \in [ Reservations -> PaymentStatus ]
  BY <1>1, <1>2 DEF Commit, RowsOK, Written
<1>5. stamp' \in [ Reservations -> Stamps ]
  BY <1>1, <1>2 DEF Commit, RowsOK, Stamps
<1>6. /\ AttemptsWritten(p) \in Seq(Attempt)
      /\ DOMAIN attempts[r] \subseteq DOMAIN AttemptsWritten(p)
      /\ plan[p].insert => /\ NewRow(r) \in DOMAIN AttemptsWritten(p)
                           /\ NewRow(r) \in Nat
  BY <1>1, WrittenType
<1>7. attempts' = [ attempts EXCEPT ![r] = AttemptsWritten(p) ]
  BY DEF Commit
<1>8. attempts' \in [ Reservations -> Seq(Attempt) ]
  BY <1>1, <1>2, <1>6, <1>7 DEF RowsOK
<1>9. seen' \in SUBSET Events
  BY <1>1 DEF Commit, RowsOK, PlanOK
<1>10. finalizers' \subseteq finalizers \cup { << r, NewRow(r) >> }
  BY DEF Commit
<1>11. plan[p].insert \/ finalizers' = finalizers
  BY <1>1 DEF Commit, PlanOK
<1>12. finalizers' \in SUBSET (Reservations \X Nat)
  BY <1>1, <1>2, <1>6, <1>10, <1>11 DEF RowsOK
<1>13. \A q \in Reservations : DOMAIN attempts[q] \subseteq DOMAIN attempts'[q]
  BY <1>1, <1>2, <1>6, <1>7 DEF RowsOK
<1>14. NewRow(r) \in DOMAIN attempts'[r] \/ finalizers' = finalizers
  BY <1>1, <1>2, <1>6, <1>7, <1>11 DEF RowsOK
<1>15. \A t \in finalizers' : t[2] \in DOMAIN attempts'[t[1]]
  <2> SUFFICES ASSUME NEW t \in finalizers' PROVE t[2] \in DOMAIN attempts'[t[1]]
    OBVIOUS
  <2>1. CASE t \in finalizers
    <3>1. t[2] \in DOMAIN attempts[t[1]] /\ t[1] \in Reservations
      BY <1>1, <2>1 DEF RowsOK
    <3> QED
      BY <3>1, <1>13
  <2>2. CASE t \notin finalizers
    BY <2>2, <1>10, <1>14
  <2> QED
    BY <2>1, <2>2
<1>16. unchecked' \in SUBSET { q \in Reservations : status'[q] \in Blocking }
  BY <1>1, <1>2 DEF Commit, UncheckedAfter, RowsOK
<1>17. restarts' = restarts /\ contended' \in SUBSET Reservations
  BY <1>1, <1>2, NotedType DEF Commit
<1> QED
  BY <1>1, <1>3, <1>4, <1>5, <1>8, <1>9, <1>12, <1>15, <1>16, <1>17 DEF RowsOK

\* Every step keeps rows and sessions well formed.
LEMMA TypeStep == TypeOK /\ [Next]_vars => TypeOK'
<1> SUFFICES ASSUME TypeOK, [Next]_vars PROVE TypeOK'
  OBVIOUS
<1>0. RowsOK /\ SessionsOK
  BY DEF TypeOK
<1>1. ASSUME NEW p \in Procs, SweepSelect(p) PROVE TypeOK'
  <2>1. RowsOK'
    BY <1>0, <1>1, SameRows DEF SweepSelect
  <2>2. SessionsOK'
    BY <1>0, <1>1 DEF SessionsOK, SweepSelect, PlanOK, Steps, AllOverdue
  <2> QED
    BY <2>1, <2>2 DEF TypeOK
<1>2. ASSUME NEW p \in Procs, NEW op \in Calls, NEW r \in Reservations,
             NEW k \in Keys \cup {None}, Open(p, op, r, k),
             op = "start" => k \in Keys
      PROVE  TypeOK'
  <2> DEFINE rq == [ op |-> op, r |-> r, key |-> k, row |-> 0, event |-> None ]
  <2>1. RowsOK'
    BY <1>0, <1>2, SameRows DEF Open
  <2>2. rq \in Request /\ rq # None /\ (rq.op = "start" => rq.key \in Keys)
    BY <1>2, ModeAssumption, NoneAssumption DEF Request
  <2>3. /\ at' = [ at EXCEPT ![p] = "opened" ]
        /\ req' = [ req EXCEPT ![p] = rq ]
        /\ saw' = [ saw EXCEPT ![p] = IF op = "confirm" THEN None ELSE status[r] ]
        /\ UNCHANGED << sel, plan >>
    BY <1>2 DEF Open
  <2>4. status[r] \in ReservationStatus
    BY <1>0 DEF RowsOK
  <2> HIDE DEF rq
  <2>5. SessionsOK'
    BY <1>0, <2>2, <2>3, <2>4 DEF SessionsOK, PlanOK, Steps
  <2> QED
    BY <2>1, <2>5 DEF TypeOK
<1>3. ASSUME NEW p \in Procs, Tasks(p) PROVE TypeOK'
  <2>1. PICK t \in finalizers, s \in { "paid", "failed" } :
              FinalizeDecided(p, t, s) \/ FinalizeDropped(p, t, s)
    BY <1>3 DEF Tasks
  <2>2. t \in Reservations \X Nat
    BY <1>0 DEF RowsOK
  <2>3. CASE FinalizeDecided(p, t, s)
    <3> DEFINE r == t[1]
               final == IF Closed(r) THEN "failed" ELSE s
               rq == [ op |-> "finalize", r |-> r, key |-> None, row |-> t[2],
                       event |-> None ]
               pl == [ status  |-> IF Closed(r) THEN "same"
                                   ELSE Changed(status[r], FinalTarget(s)),
                       payment |-> Changed(payment[r], final),
                       outcome |-> final,
                       row     |-> t[2],
                       insert  |-> FALSE,
                       touch   |-> FALSE,
                       checked |-> r \notin unchecked ]
    <3>1. r \in Reservations /\ t[2] \in Nat
      BY <2>2
    <3>2. /\ at' = [ at EXCEPT ![p] = "decided" ]
          /\ req' = [ req EXCEPT ![p] = rq ]
          /\ plan' = [ plan EXCEPT ![p] = pl ]
          /\ UNCHANGED << saw, sel >>
      BY <2>3 DEF FinalizeDecided
    <3>3. rq \in Request /\ rq.op = "finalize"
      BY <3>1 DEF Request
    <3>4. final \in { "paid", "failed" }
      OBVIOUS
    <3>5. /\ (IF Closed(r) THEN "same" ELSE Changed(status[r], FinalTarget(s)))
               \in ReservationStatus \cup {"same"}
          /\ Changed(payment[r], final) \in PaymentStatus \cup {"same"}
      BY <3>4 DEF Changed, FinalTarget, ReservationStatus, PaymentStatus
    <3>6. pl \in Plan /\ pl.insert = FALSE /\ pl.outcome \in AttemptStatus
      BY <3>1, <3>4, <3>5 DEF Plan, AttemptStatus
    <3> HIDE DEF rq, pl
    <3>7. SessionsOK'
      BY <1>0, <3>2, <3>3, <3>6, DecidedSessions
    <3>8. /\ UNCHANGED << status, payment, stamp, attempts, seen, restarts,
                          unchecked, contended >>
          /\ finalizers' \subseteq finalizers
      BY <1>0, <2>3 DEF FinalizeDecided
    <3>9. RowsOK'
      BY <1>0, <3>8 DEF RowsOK
    <3> QED
      BY <3>7, <3>9 DEF TypeOK
  <2>4. CASE FinalizeDropped(p, t, s)
    <3>1. SessionsOK'
      BY <1>0, <2>4, SameSessions DEF FinalizeDropped
    <3>2. RowsOK'
      BY <1>0, <2>4 DEF FinalizeDropped, RowsOK
    <3> QED
      BY <3>1, <3>2 DEF TypeOK
  <2> QED
    BY <2>1, <2>3, <2>4
<1>4. ASSUME NEW p \in Procs, Proceed(p) PROVE TypeOK'
  <2>1. CASE SweepCommit(p)
    <3>0. contended' \in SUBSET Reservations
      BY <1>0, <2>1, NotedType DEF SweepCommit, SessionsOK
    <3>1. RowsOK'
      BY <1>0, <2>1, <3>0
         DEF RowsOK, SweepCommit, ReservationStatus, PaymentStatus, Blocking
    <3>2. SessionsOK'
      BY <1>0, <2>1 DEF SessionsOK, SweepCommit, PlanOK, Steps
    <3> QED
      BY <3>1, <3>2 DEF TypeOK
  <2>2. CASE StartRefused(p) \/ CancelRefused(p) \/ ConfirmRefused(p)
             \/ CommitLost(p)
    <3>1. Done(p) /\ UNCHANGED << rows, restarts, unchecked, contended >>
      BY <2>2 DEF StartRefused, CancelRefused, ConfirmRefused, CommitLost, Refuse
    <3> QED
      BY <1>0, <3>1, DoneSessions, SameRows DEF TypeOK
  <2>3. CASE StartUnavailable(p)
    <3>1. SessionsOK'
      BY <1>0, <2>3, DoneSessions DEF StartUnavailable
    <3>2. req[p] \in Request /\ req[p].r \in Reservations
      BY <1>0, <2>3 DEF StartUnavailable, IsRequest, SessionsOK, Request
    <3>3. contended' \in SUBSET Reservations
      BY <1>0, <2>3, <3>2, NotedType DEF StartUnavailable
    <3>4. RowsOK'
      BY <1>0, <2>3, <3>2, <3>3
         DEF RowsOK, StartUnavailable, ReservationStatus, Blocking
    <3> QED
      BY <3>1, <3>4 DEF TypeOK
  <2>4. CASE StartDecided(p)
    <3> DEFINE r == req[p].r
               st == Changed(Loaded(p), "pending_payment")
               pay == Changed(payment[r], "pending")
               touch == SetsAttemptedAt("start", stamp[r])
               pl == [ status |-> st, payment |-> pay, outcome |-> "pending",
                       row |-> 0, insert |-> TRUE, touch |-> touch,
                       checked |-> TRUE ]
    <3>1. Decide(p, pl) /\ IsRequest(p, "start") /\ ~ReusesAttempt(p)
      BY <2>4 DEF StartDecided
    <3>2. st \in { "pending_payment", "same" } /\ pay \in { "pending", "same" }
          /\ touch \in BOOLEAN
      BY DEF Changed, SetsAttemptedAt
    <3>3. pl \in Plan /\ pl.insert /\ pl.outcome \in AttemptStatus
      BY <3>2, <3>1, StartPlanType DEF AttemptStatus
    <3> HIDE DEF pl
    <3>4. req[p] # None /\ req[p].op = "start" /\ req[p].key \in Keys
      BY <1>0, <3>1 DEF IsRequest, SessionsOK
    <3>5. SessionsOK'
      BY <1>0, <3>1, <3>3, <3>4, DecideSessions
    <3>6. RowsOK'
      BY <1>0, <3>1, SameRows DEF Decide
    <3> QED
      BY <3>5, <3>6 DEF TypeOK
  <2>5. ASSUME NEW refundable \in BOOLEAN, CancelDecided(p, refundable)
        PROVE  TypeOK'
    <3> DEFINE pay == IF RefundDue(req[p].r) /\ refundable
                      THEN "refunded" ELSE "same"
               pl == ManualPlan("cancelled", pay, FALSE)
    <3>1. Decide(p, pl) /\ IsRequest(p, "cancel")
      BY <2>5 DEF CancelDecided
    <3>2. pay \in PaymentStatus \cup {"same"} /\ "cancelled" \in ReservationStatus
      BY DEF PaymentStatus, ReservationStatus
    <3> HIDE DEF pay
    <3>3. pl \in Plan /\ pl.insert = FALSE /\ pl.row = 0
      BY <3>2, ManualPlanType
    <3> HIDE DEF pl
    <3>4. req[p] # None /\ req[p].op = "cancel"
      BY <3>1 DEF IsRequest
    <3>5. SessionsOK'
      BY <1>0, <3>1, <3>3, <3>4, DecideSessions
    <3>6. RowsOK'
      BY <1>0, <3>1, SameRows DEF Decide
    <3> QED
      BY <3>5, <3>6 DEF TypeOK
  <2>6. CASE ConfirmDecided(p)
    <3> DEFINE pl == ManualPlan("confirmed", "same", TRUE)
    <3>1. Decide(p, pl) /\ IsRequest(p, "confirm")
      BY <2>6 DEF ConfirmDecided
    <3>2. "confirmed" \in ReservationStatus
      BY DEF ReservationStatus
    <3>3. pl \in Plan /\ pl.insert = FALSE /\ pl.row = 0
      BY <3>2, ManualPlanType
    <3> HIDE DEF pl
    <3>4. req[p] # None /\ req[p].op = "confirm"
      BY <3>1 DEF IsRequest
    <3>5. SessionsOK'
      BY <1>0, <3>1, <3>3, <3>4, DecideSessions
    <3>6. RowsOK'
      BY <1>0, <3>1, SameRows DEF Decide
    <3> QED
      BY <3>5, <3>6 DEF TypeOK
  <2>7. CASE Commit(p)
    <3>1. Done(p)
      BY <2>7 DEF Commit
    <3> QED
      BY <1>0, <2>7, <3>1, DoneSessions, CommitRows DEF TypeOK
  <2>8. CASE ConfirmReopens(p)
    <3>1. RowsOK'
      BY <1>0, <2>8, SameRows DEF ConfirmReopens
    <3>2. /\ Loaded(p) \in ReservationStatus /\ req[p] # None
      BY <2>8 DEF ConfirmReopens, Reopened, ReservationStatus, IsRequest
    <3>3. SessionsOK'
      BY <1>0, <2>8, <3>2 DEF ConfirmReopens, SessionsOK, PlanOK, Steps
    <3> QED
      BY <3>1, <3>3 DEF TypeOK
  <2> QED
    BY <1>4, <2>1, <2>2, <2>3, <2>4, <2>5, <2>6, <2>7, <2>8 DEF Proceed
<1>5. CASE Webhooks
  <2>1. PICK e \in Events, r \in Reservations, k \in Keys \cup {None},
             s \in WebhookStatuses : WebhookDecided(e, r, k, s)
    BY <1>5 DEF Webhooks
  <2> DEFINE rq == [ op |-> "webhook", r |-> r, key |-> k,
                     row |-> EventRow(r, k), event |-> e ]
             st == Changed(status[r], AfterEvent(r, s))
             pay == Changed(payment[r], PaymentAfterEvent(r, s))
             pl == [ status  |-> st,
                     payment |-> pay,
                     outcome |-> s,
                     row     |-> EventRow(r, k),
                     insert  |-> k # None /\ ~KeyUsed(r, k),
                     touch   |-> SetsAttemptedAt("webhook", stamp[r]),
                     checked |-> status[r] # "draft" /\ r \notin unchecked ]
  <2>2. /\ at' = [ at EXCEPT ![Loop] = "decided" ]
        /\ req' = [ req EXCEPT ![Loop] = rq ]
        /\ plan' = [ plan EXCEPT ![Loop] = pl ]
        /\ UNCHANGED << saw, sel >>
    BY <2>1 DEF WebhookDecided
  <2>3. s \in { "paid", "failed", "pending" }
    BY ModeAssumption
  <2>4. EventRow(r, k) \in Nat
    <3>1. attempts[r] \in Seq(Attempt)
      BY <1>0 DEF RowsOK
    <3>2. DOMAIN attempts[r] \subseteq Nat /\ Len(attempts[r]) \in Nat
      BY <3>1, LenProperties
    <3>3. KeyUsed(r, k) => RowOfKey(r, k) \in DOMAIN attempts[r]
      BY DEF KeyUsed, RowOfKey
    <3> QED
      BY <3>2, <3>3 DEF EventRow
  <2>5. st \in ReservationStatus \cup {"same"}
    <3>1. status[r] \in ReservationStatus
      BY <1>0 DEF RowsOK
    <3>2. AfterEvent(r, s) \in ReservationStatus
      BY <3>1 DEF AfterEvent, AfterPaid, AfterFailed, AfterPending,
                  ReservationStatus
    <3> QED
      BY <3>2 DEF Changed
  <2>6. pay \in PaymentStatus \cup {"same"}
    BY <1>0, <2>3 DEF RowsOK, Changed, PaymentAfterEvent, PaymentStatus
  <2>7. SetsAttemptedAt("webhook", stamp[r]) \in BOOLEAN
    BY DEF SetsAttemptedAt
  <2> HIDE DEF st, pay
  <2>8. rq \in Request /\ rq.op = "webhook" /\ rq.event \in Events
        /\ rq.key = k
    BY <2>4 DEF Request
  <2>9. pl \in Plan /\ pl.outcome \in AttemptStatus
        /\ (pl.insert => k \in Keys)
    BY <2>3, <2>4, <2>5, <2>6, <2>7 DEF Plan, AttemptStatus
  <2> HIDE DEF rq, pl
  <2>10. Loop \in Procs
    BY DEF Procs
  <2>11. SessionsOK'
    BY <1>0, <2>2, <2>8, <2>9, <2>10, DecidedSessions
  <2>12. RowsOK'
    BY <1>0, <2>1, SameRows DEF WebhookDecided
  <2> QED
    BY <2>11, <2>12 DEF TypeOK
<1>6. ASSUME NEW r \in Reservations, Elapse(r) PROVE TypeOK'
  <2>1. SessionsOK'
    BY <1>0, <1>6, SameSessions DEF Elapse
  <2>2. RowsOK'
    BY <1>0, <1>6 DEF RowsOK, Elapse, Stamps
  <2> QED
    BY <2>1, <2>2 DEF TypeOK
<1>7. CASE Restart
  <2>1. SessionsOK'
    BY <1>7 DEF SessionsOK, Restart, Steps, PlanOK
  <2>2. RowsOK'
    BY <1>0, <1>7, ModeAssumption DEF RowsOK, Restart
  <2> QED
    BY <2>1, <2>2 DEF TypeOK
<1>8. CASE UNCHANGED vars
  BY <1>0, <1>8, SameRows, SameSessions DEF TypeOK, vars
<1>9. ASSUME NEW p \in Procs, Requests(p) PROVE TypeOK'
  <2>1. PICK r \in Reservations :
          \/ \E k \in Keys : Open(p, "start", r, k)
          \/ Open(p, "cancel", r, None)
          \/ Open(p, "confirm", r, None)
    BY <1>9 DEF Requests
  <2>2. \A op, k : Open(p, op, r, k) => op \in Calls
    BY DEF Open
  <2> QED
    BY <2>1, <2>2, <1>2
<1> QED
  BY <1>1, <1>3, <1>4, <1>5, <1>6, <1>7, <1>8, <1>9 DEF Next

\* Whatever the interleaving, rows and sessions stay well formed: a process
\* that has decided can write its plan, a queued task finds its row.
THEOREM TypeCorrect == Spec => []TypeOK
<1>1. Init => TypeOK
  BY TypeInit
<1>2. TypeOK /\ [Next]_vars => TypeOK'
  BY TypeStep
<1> QED
  BY <1>1, <1>2, PTL DEF Spec

----------------------------------------------------------------------------
\* The bound on overselling

\* The loop runs webhooks and sweeps only, and a sweep of its own belongs to
\* no request; so it never starts or confirms a payment by itself.
LoopOK ==
    /\ at[Loop] \notin { "opened", "swept" }
    /\ at[Loop] # "decided" => req[Loop] = None
    /\ at[Loop] = "decided" => WebhookStatuses # {}

\* The step of another process leaves the loop alone.
LEMMA DoneLoop ==
    ASSUME SessionsOK, LoopOK, NEW p \in Procs, Done(p)
    PROVE  LoopOK'
<1>1. at'[p] = "idle" /\ req'[p] = None
  BY DEF SessionsOK, Done
<1>2. p # Loop => at'[Loop] = at[Loop] /\ req'[Loop] = req[Loop]
  BY DEF SessionsOK, Done, Procs
<1> QED
  BY <1>1, <1>2 DEF LoopOK

LEMMA LoopStep == TypeOK /\ LoopOK /\ [Next]_vars => LoopOK'
<1> SUFFICES ASSUME TypeOK, LoopOK, [Next]_vars PROVE LoopOK'
  OBVIOUS
<1>0. SessionsOK /\ Loop \in Procs /\ Loop \notin Workers
  BY ProcessAssumption DEF TypeOK, Procs
<1>1. ASSUME NEW p \in Procs, SweepSelect(p) PROVE LoopOK'
  BY <1>0, <1>1 DEF SweepSelect, LoopOK, SessionsOK
<1>2. ASSUME NEW p \in Procs, Requests(p) PROVE LoopOK'
  <2>1. PICK op, r, k : Open(p, op, r, k)
    BY <1>2 DEF Requests
  <2> QED
    BY <1>0, <2>1 DEF Open, LoopOK, SessionsOK
<1>3. ASSUME NEW p \in Procs, Tasks(p) PROVE LoopOK'
  <2>1. PICK t \in finalizers, s \in { "paid", "failed" } :
              FinalizeDecided(p, t, s) \/ FinalizeDropped(p, t, s)
    BY <1>3 DEF Tasks
  <2>2. CASE FinalizeDecided(p, t, s)
    BY <1>0, <2>2 DEF FinalizeDecided, LoopOK, SessionsOK
  <2>3. CASE FinalizeDropped(p, t, s)
    BY <2>3 DEF FinalizeDropped, LoopOK, local
  <2> QED
    BY <2>1, <2>2, <2>3
<1>4. ASSUME NEW p \in Procs, Proceed(p) PROVE LoopOK'
  <2>1. CASE SweepCommit(p)
    BY <1>0, <2>1 DEF SweepCommit, LoopOK, SessionsOK
  <2>2. ASSUME Done(p) PROVE LoopOK'
    BY <1>0, <2>2, DoneLoop
  <2>3. ASSUME NEW op, IsRequest(p, op), NEW pl, Decide(p, pl) PROVE LoopOK'
    <3>1. p # Loop
      BY <2>3 DEF IsRequest, Ready, LoopOK
    <3> QED
      BY <1>0, <2>3, <3>1 DEF Decide, LoopOK, SessionsOK
  <2>4. CASE StartRefused(p) \/ StartUnavailable(p) \/ CancelRefused(p)
             \/ ConfirmRefused(p) \/ CommitLost(p) \/ Commit(p)
    BY <2>2, <2>4 DEF StartRefused, StartUnavailable, CancelRefused,
                      ConfirmRefused, CommitLost, Commit, Refuse
  <2>5. CASE StartDecided(p) \/ (\E b \in BOOLEAN : CancelDecided(p, b))
             \/ ConfirmDecided(p)
    BY <2>3, <2>5 DEF StartDecided, CancelDecided, ConfirmDecided
  <2>6. CASE ConfirmReopens(p)
    <3>1. p # Loop
      BY <2>6 DEF ConfirmReopens, IsRequest, Ready, LoopOK
    <3> QED
      BY <1>0, <2>6, <3>1 DEF ConfirmReopens, LoopOK, SessionsOK
  <2> QED
    BY <1>4, <2>1, <2>4, <2>5, <2>6 DEF Proceed
<1>5. CASE Webhooks
  <2>1. PICK e \in Events, r \in Reservations, k \in Keys \cup {None},
             s \in WebhookStatuses : WebhookDecided(e, r, k, s)
    BY <1>5 DEF Webhooks
  <2>2. at' = [ at EXCEPT ![Loop] = "decided" ]
    BY <2>1 DEF WebhookDecided
  <2> QED
    BY <1>0, <2>1, <2>2 DEF LoopOK, SessionsOK
<1>6. ASSUME NEW r \in Reservations, Elapse(r) PROVE LoopOK'
  BY <1>6 DEF Elapse, LoopOK, local
<1>7. CASE Restart
  BY <1>0, <1>7 DEF Restart, LoopOK
<1>8. CASE UNCHANGED vars
  BY <1>8 DEF vars, local, LoopOK
<1> QED
  BY <1>1, <1>2, <1>3, <1>4, <1>5, <1>6, <1>7, <1>8 DEF Next

\* A process that has checked that the room is free, and will take it when
\* it commits.
Admits(p) ==
    at[p] = "decided" /\ plan[p].status \in Blocking /\ plan[p].checked

Admitting == { p \in Procs : Admits(p) }
Taking == { req[p].r : p \in Admitting }

\* The checked holds of night n, and those that are on their way.
Promised(n) == { r \in CheckedHolds \cup Taking : n \in Stay[r] }

\* Rooms are promised to at most as many guests too many as there are
\* processes to promise one at the same time.  OversellBounded alone is not
\* inductive: it does not see the promises.
PromisesBounded ==
    \A n \in Nights :
        Cardinality(Promised(n)) <= Inventory + Cardinality(Takers) - 1

\* An image is no larger than what it is the image of.
LEMMA ImageBound ==
    ASSUME NEW D, IsFiniteSet(D), NEW f
    PROVE  /\ IsFiniteSet({ f[x] : x \in D })
           /\ Cardinality({ f[x] : x \in D }) <= Cardinality(D)
<1> DEFINE T == { f[x] : x \in D }
           g == [ x \in D |-> f[x] ]
<1>1. g \in Surjection(D, T)
  BY DEF Surjection
<1> HIDE DEF T, g
<1>2. IsFiniteSet(T) /\ Cardinality(T) <= Cardinality(D)
  BY <1>1, FS_Surjection
<1> QED
  BY <1>2 DEF T

\* Two finite sets and one element more.
LEMMA OneMore ==
    ASSUME NEW A, NEW B, NEW r, NEW C, IsFiniteSet(A), IsFiniteSet(B),
           C \subseteq A \cup B \cup {r}
    PROVE  /\ Cardinality(A) \in Nat /\ Cardinality(B) \in Nat
           /\ Cardinality(C) \in Nat
           /\ Cardinality(C) <= Cardinality(A) + Cardinality(B) + 1
<1>1. /\ IsFiniteSet(A \cup B)
      /\ Cardinality(A) \in Nat /\ Cardinality(B) \in Nat
      /\ Cardinality(A \cup B) \in Nat
      /\ Cardinality(A \cup B) <= Cardinality(A) + Cardinality(B)
  <2>1. /\ IsFiniteSet(A \cup B)
        /\ Cardinality(A \cup B) =
             Cardinality(A) + Cardinality(B) - Cardinality(A \cap B)
    BY FS_Union
  <2>2. IsFiniteSet(A \cap B)
    BY FS_Intersection
  <2>3. /\ Cardinality(A) \in Nat /\ Cardinality(B) \in Nat
        /\ Cardinality(A \cup B) \in Nat /\ Cardinality(A \cap B) \in Nat
    BY <2>1, <2>2, FS_CardinalityType
  <2> QED
    BY <2>1, <2>3
<1> DEFINE U == A \cup B
<1>2. IsFiniteSet(U) /\ C \subseteq U \cup {r}
  BY <1>1
<1> HIDE DEF U
<1>3. /\ IsFiniteSet(U \cup {r})
      /\ Cardinality(U \cup {r}) =
           IF r \in U THEN Cardinality(U) ELSE Cardinality(U) + 1
  BY <1>2, FS_AddElement
<1>4. IsFiniteSet(C) /\ Cardinality(C) <= Cardinality(U \cup {r})
  BY <1>2, <1>3, FS_Subset
<1>5. Cardinality(C) \in Nat
  BY <1>4, FS_CardinalityType
<1>6. Cardinality(U) \in Nat /\ Cardinality(U) <= Cardinality(A) + Cardinality(B)
  BY <1>1 DEF U
<1>7. Cardinality(U \cup {r}) <= Cardinality(U) + 1
  BY <1>3, <1>6
<1> QED
  BY <1>1, <1>3, <1>4, <1>5, <1>6, <1>7

\* Who may take a room: the threads, and the loop when there are webhooks.
LEMMA TakersFinite ==
    /\ IsFiniteSet(Takers)
    /\ Cardinality(Takers) \in Nat
    /\ Cardinality(Takers) >= 1
<1>1. IsFiniteSet(Workers) /\ Workers # {}
  BY ProcessAssumption
<1>2. IsFiniteSet(Workers \cup {Loop})
  BY <1>1, FS_AddElement
<1>3. IsFiniteSet(Takers) /\ Takers # {}
  BY <1>1, <1>2 DEF Takers
<1>4. Cardinality(Takers) \in Nat /\ Cardinality(Takers) # 0
  BY <1>3, FS_CardinalityType, FS_EmptySet
<1> QED
  BY <1>3, <1>4

LEMMA AdmittingTakes ==
    ASSUME LoopOK
    PROVE  Admitting \subseteq Takers
BY DEF LoopOK, Admitting, Admits, Takers, Procs

LEMMA TakingType ==
    ASSUME TypeOK
    PROVE  Taking \subseteq Reservations
<1> SUFFICES ASSUME NEW p \in Procs, Admits(p) PROVE req[p].r \in Reservations
  BY DEF Taking, Admitting
<1>1. req[p] \in Request
  BY DEF TypeOK, SessionsOK, Admits, PlanOK
<1> QED
  BY <1>1 DEF Request

\* A step that adds neither a checked hold nor a promise keeps the bound.
LEMMA NoNewPromise ==
    ASSUME TypeOK, PromisesBounded,
           CheckedHolds' \cup Taking' \subseteq CheckedHolds \cup Taking
    PROVE  PromisesBounded'
<1> SUFFICES ASSUME NEW n \in Nights
             PROVE  Cardinality(Promised(n)') <=
                      Inventory + Cardinality(Takers) - 1
  BY DEF PromisesBounded, Takers
<1>1. Promised(n)' \subseteq Promised(n)
  BY DEF Promised
<1>2. Promised(n) \subseteq Reservations
  BY TakingType DEF Promised, CheckedHolds, Holds
<1>3. IsFiniteSet(Promised(n))
  BY <1>2, FiniteAssumption, FS_Subset
<1>4. /\ IsFiniteSet(Promised(n)')
      /\ Cardinality(Promised(n)') <= Cardinality(Promised(n))
  BY <1>1, <1>3, FS_Subset
<1>5. Cardinality(Promised(n)) \in Nat /\ Cardinality(Promised(n)') \in Nat
  BY <1>3, <1>4, FS_CardinalityType
<1>6. Cardinality(Promised(n)) <= Inventory + Cardinality(Takers) - 1
  BY DEF PromisesBounded
<1> QED
  BY <1>4, <1>5, <1>6, TakersFinite, InventoryAssumption

\* A process that has just seen a free room promises it: the holds it counted
\* leave one room, and each other process may have promised that one too.
LEMMA NewPromise ==
    ASSUME TypeOK, TypeOK', LoopOK', PromisesBounded, NEW p \in Procs,
           at[p] # "decided",
           NEW pl, Decide(p, pl), RoomFree(status, req[p].r), Admits(p)'
    PROVE  PromisesBounded'
<1> DEFINE r == req[p].r
           D == Admitting' \ {p}
<1>1. /\ UNCHANGED << status, unchecked, req >>
      /\ \A q \in Procs \ {p} : at'[q] = at[q] /\ plan'[q] = plan[q]
  BY DEF Decide, rows, TypeOK, SessionsOK
<1>2. CheckedHolds' = CheckedHolds /\ Taking' \subseteq Taking \cup {r}
  BY <1>1 DEF CheckedHolds, Holds, Taking, Admitting, Admits
<1>3. p \in Admitting' /\ Admitting' \subseteq Takers
  <2>1. p \in Admitting'
    BY DEF Admitting
  <2>2. (LoopOK => Admitting \subseteq Takers)'
    BY DEF LoopOK, Admitting, Admits, Takers, Procs
  <2>3. Takers' = Takers
    BY DEF Takers
  <2> QED
    BY <2>1, <2>2, <2>3
<1>4. /\ IsFiniteSet(D) /\ Cardinality(D) \in Nat
      /\ Cardinality(D) <= Cardinality(Takers) - 1
  <2>1. D \subseteq Takers \ {p} /\ p \in Takers
    BY <1>3
  <2>2. /\ IsFiniteSet(Takers \ {p})
        /\ Cardinality(Takers \ {p}) = Cardinality(Takers) - 1
    BY <2>1, TakersFinite, FS_RemoveElement
  <2> HIDE DEF D
  <2>3. IsFiniteSet(D) /\ Cardinality(D) <= Cardinality(Takers \ {p})
    BY <2>1, <2>2, FS_Subset
  <2> QED
    BY <2>2, <2>3, FS_CardinalityType
<1> DEFINE rs == [ q \in Procs |-> req'[q].r ]
           B == { rs[q] : q \in D }
<1>5. D \subseteq Procs
  BY DEF Admitting
<1>6. Taking' \subseteq B \cup {r}
  BY <1>1 DEF Taking, Admitting
<1> HIDE DEF D, rs
<1>7. IsFiniteSet(B) /\ Cardinality(B) <= Cardinality(D)
  BY <1>4, ImageBound
<1> HIDE DEF B
<1> SUFFICES ASSUME NEW n \in Nights
             PROVE  Cardinality(Promised(n)') <=
                      Inventory + Cardinality(Takers) - 1
  BY DEF PromisesBounded, Takers
<1>8. CASE n \in Stay[r]
  <2> DEFINE A == { q \in Reservations \ {r} :
                      status[q] \in Blocking /\ n \in Stay[q] }
  <2>1. Cardinality(A) < Inventory
    BY <1>8 DEF RoomFree
  <2>2. IsFiniteSet(A)
    BY FiniteAssumption, FS_Subset
  <2>3. Promised(n)' \subseteq A \cup B \cup {r}
    BY <1>2, <1>6 DEF Promised, CheckedHolds, Holds
  <2> HIDE DEF A
  <2>4. /\ Cardinality(A) \in Nat /\ Cardinality(B) \in Nat
        /\ Cardinality(Promised(n)') \in Nat
        /\ Cardinality(Promised(n)') <= Cardinality(A) + Cardinality(B) + 1
    BY <2>2, <2>3, <1>7, OneMore
  <2> QED
    BY <2>1, <2>4, <1>4, <1>7, TakersFinite, InventoryAssumption
<1>9. CASE n \notin Stay[r]
  <2>1. Promised(n)' \subseteq Promised(n)
    BY <1>2, <1>9 DEF Promised
  <2>2. Promised(n) \subseteq Reservations
    BY TakingType DEF Promised, CheckedHolds, Holds
  <2>3. IsFiniteSet(Promised(n))
    BY <2>2, FiniteAssumption, FS_Subset
  <2>4. /\ IsFiniteSet(Promised(n)')
        /\ Cardinality(Promised(n)') <= Cardinality(Promised(n))
    BY <2>1, <2>3, FS_Subset
  <2>5. Cardinality(Promised(n)) \in Nat /\ Cardinality(Promised(n)') \in Nat
    BY <2>3, <2>4, FS_CardinalityType
  <2>6. Cardinality(Promised(n)) <= Inventory + Cardinality(Takers) - 1
    BY DEF PromisesBounded
  <2> QED
    BY <2>4, <2>5, <2>6, TakersFinite, InventoryAssumption
<1> QED
  BY <1>8, <1>9

\* A step after which a process no longer promises anything, the others
\* promise what they promised, and no checked hold is new.
LEMMA PromiseEnds ==
    ASSUME TypeOK, PromisesBounded, NEW p \in Procs, ~Admits(p)',
           \A q \in Procs \ {p} :
             at'[q] = at[q] /\ plan'[q] = plan[q] /\ req'[q] = req[q],
           CheckedHolds' \subseteq CheckedHolds \cup Taking
    PROVE  PromisesBounded'
<1>1. Taking' \subseteq Taking
  BY DEF Taking, Admitting, Admits
<1> QED
  BY <1>1, NoNewPromise

\* A process that promises again what is a checked hold already.
LEMMA PromiseKnown ==
    ASSUME TypeOK, PromisesBounded, NEW p \in Procs,
           Admits(p)' => req'[p].r \in CheckedHolds,
           \A q \in Procs \ {p} :
             at'[q] = at[q] /\ plan'[q] = plan[q] /\ req'[q] = req[q],
           UNCHANGED << status, unchecked >>
    PROVE  PromisesBounded'
<1>1. CheckedHolds' = CheckedHolds
  BY DEF CheckedHolds, Holds
<1>2. Taking' \subseteq Taking \cup CheckedHolds
  BY DEF Taking, Admitting, Admits
<1> QED
  BY <1>1, <1>2, NoNewPromise

\* A commit makes a checked hold of what was promised, and of nothing else.
LEMMA CommitHolds ==
    ASSUME TypeOK, NEW p \in Procs, Commit(p)
    PROVE  CheckedHolds' \subseteq CheckedHolds \cup Taking
<1> DEFINE r == req[p].r
<1>1. /\ req[p] \in Request /\ plan[p] \in Plan /\ at[p] = "decided"
  BY DEF TypeOK, SessionsOK, Commit, PlanOK
<1>2. /\ r \in Reservations
      /\ plan[p].status \in ReservationStatus \cup {"same"}
      /\ plan[p].checked \in BOOLEAN
  BY <1>1 DEF Request, Plan
<1>3. "same" \notin Blocking
  BY DEF Blocking
<1>4. status' = [ status EXCEPT ![r] = Written(plan[p].status, @) ]
  BY DEF Commit
<1>5. unchecked' = UncheckedAfter(p)
  BY DEF Commit
<1> SUFFICES ASSUME NEW q \in CheckedHolds', q \notin CheckedHolds
             PROVE  q \in Taking
  OBVIOUS
<1>6. q \in Reservations /\ status'[q] \in Blocking /\ q \notin unchecked'
  BY DEF CheckedHolds, Holds
<1>7. q = r
  <2> SUFFICES ASSUME q # r PROVE FALSE
    OBVIOUS
  <2>1. status'[q] = status[q]
    BY <1>4, <1>6 DEF TypeOK, RowsOK
  <2>2. q \in unchecked
    BY <1>6, <2>1 DEF CheckedHolds, Holds
  <2> QED
    BY <2>2, <1>5, <1>6 DEF UncheckedAfter
<1>8. CASE plan[p].status \in Blocking /\ plan[p].checked
  BY <1>1, <1>7, <1>8 DEF Taking, Admitting, Admits
<1>9. CASE ~(plan[p].status \in Blocking /\ plan[p].checked)
  <2>1. \A x \in unchecked : status'[x] \in Blocking => x \in unchecked'
    BY <1>5, <1>9 DEF UncheckedAfter
  <2>2. q \notin unchecked
    BY <1>6, <2>1
  <2>3. status[r] \notin Blocking
    BY <2>2, <1>6, <1>7 DEF CheckedHolds, Holds
  <2>4. plan[p].status \in Blocking
    BY <1>2, <1>4, <1>6, <1>7, <2>3 DEF Written, TypeOK, RowsOK
  <2>5. r \in unchecked'
    BY <1>4, <1>5, <1>6, <1>7, <1>9, <2>3, <2>4 DEF UncheckedAfter
  <2> QED
    BY <2>5, <1>6, <1>7
<1> QED
  BY <1>8, <1>9

LEMMA PromiseStep ==
    TypeOK /\ LoopOK /\ PromisesBounded /\ [Next]_vars => PromisesBounded'
<1> SUFFICES ASSUME TypeOK, LoopOK, PromisesBounded, [Next]_vars
             PROVE  PromisesBounded'
  OBVIOUS
<1>0. SessionsOK /\ TypeOK' /\ LoopOK'
  BY TypeStep, LoopStep DEF TypeOK
<1>1. ASSUME UNCHANGED << status, unchecked >> PROVE CheckedHolds' = CheckedHolds
  BY <1>1 DEF CheckedHolds, Holds
<1>2. ASSUME NEW p \in Procs, Done(p)
      PROVE  /\ ~Admits(p)'
             /\ \A q \in Procs \ {p} :
                  at'[q] = at[q] /\ plan'[q] = plan[q] /\ req'[q] = req[q]
  BY <1>0, <1>2 DEF Done, SessionsOK, Admits
<1>3. ASSUME NEW p \in Procs, SweepSelect(p) PROVE PromisesBounded'
  <2>1. /\ ~Admits(p)'
        /\ \A q \in Procs \ {p} :
             at'[q] = at[q] /\ plan'[q] = plan[q] /\ req'[q] = req[q]
    BY <1>0, <1>3 DEF SweepSelect, SessionsOK, Admits
  <2>2. UNCHANGED << status, unchecked >>
    BY <1>3 DEF SweepSelect, rows
  <2> QED
    BY <1>1, <2>1, <2>2, PromiseEnds
<1>4. ASSUME NEW p \in Procs, Requests(p) PROVE PromisesBounded'
  <2>1. PICK op, r, k : Open(p, op, r, k)
    BY <1>4 DEF Requests
  <2>2. /\ ~Admits(p)'
        /\ \A q \in Procs \ {p} :
             at'[q] = at[q] /\ plan'[q] = plan[q] /\ req'[q] = req[q]
    BY <1>0, <2>1 DEF Open, SessionsOK, Admits
  <2>3. UNCHANGED << status, unchecked >>
    BY <2>1 DEF Open, rows
  <2> QED
    BY <1>1, <2>2, <2>3, PromiseEnds
<1>5. ASSUME NEW p \in Procs, Tasks(p) PROVE PromisesBounded'
  <2>1. PICK t \in finalizers, s \in { "paid", "failed" } :
              FinalizeDecided(p, t, s) \/ FinalizeDropped(p, t, s)
    BY <1>5 DEF Tasks
  <2>2. CASE FinalizeDecided(p, t, s)
    <3>1. t[1] \in Reservations
      BY DEF TypeOK, RowsOK
    <3>2. status[t[1]] \in ReservationStatus
      BY <3>1 DEF TypeOK, RowsOK
    <3>3. /\ at'[p] = "decided" /\ req'[p].r = t[1]
          /\ plan'[p].checked = (t[1] \notin unchecked)
          /\ plan'[p].status = IF Closed(t[1]) THEN "same"
                               ELSE Changed(status[t[1]], FinalTarget(s))
          /\ Closed(t[1]) \/ CanMove(status[t[1]], FinalTarget(s))
      BY <1>0, <2>2 DEF FinalizeDecided, SessionsOK
    <3>4. ASSUME plan'[p].status \in Blocking
          PROVE  status[t[1]] \in Blocking
      BY <3>2, <3>3, <3>4 DEF Changed, FinalTarget, CanMove, Transitions,
                              Blocking, ReservationStatus
    <3>5. Admits(p)' => req'[p].r \in CheckedHolds
      BY <3>1, <3>3, <3>4 DEF Admits, CheckedHolds, Holds
    <3>6. \A q \in Procs \ {p} :
             at'[q] = at[q] /\ plan'[q] = plan[q] /\ req'[q] = req[q]
      BY <1>0, <2>2 DEF FinalizeDecided, SessionsOK
    <3>7. UNCHANGED << status, unchecked >>
      BY <2>2 DEF FinalizeDecided
    <3> QED
      BY <3>5, <3>6, <3>7, PromiseKnown
  <2>3. CASE FinalizeDropped(p, t, s)
    <3>1. UNCHANGED << status, unchecked, at, plan, req >>
      BY <2>3 DEF FinalizeDropped, local
    <3> QED
      BY <3>1, NoNewPromise DEF CheckedHolds, Holds, Taking, Admitting, Admits
  <2> QED
    BY <2>1, <2>2, <2>3
<1>6. ASSUME NEW p \in Procs, Proceed(p) PROVE PromisesBounded'
  <2>1. CASE SweepCommit(p)
    <3>1. /\ ~Admits(p)'
          /\ \A q \in Procs \ {p} :
               at'[q] = at[q] /\ plan'[q] = plan[q] /\ req'[q] = req[q]
      BY <1>0, <2>1 DEF SweepCommit, SessionsOK, Admits
    <3>2. CheckedHolds' \subseteq CheckedHolds
      BY <2>1 DEF SweepCommit, CheckedHolds, Holds, Blocking
    <3> QED
      BY <3>1, <3>2, PromiseEnds
  <2>2. CASE StartRefused(p) \/ CancelRefused(p) \/ ConfirmRefused(p)
             \/ CommitLost(p)
    <3>1. Done(p) /\ UNCHANGED << status, unchecked >>
      BY <2>2 DEF StartRefused, CancelRefused, ConfirmRefused, CommitLost,
                  Refuse, rows
    <3> QED
      BY <1>1, <1>2, <3>1, PromiseEnds
  <2>3. CASE StartUnavailable(p)
    <3>1. Done(p)
      BY <2>3 DEF StartUnavailable
    <3>2. CheckedHolds' \subseteq CheckedHolds
      BY <2>3 DEF StartUnavailable, CheckedHolds, Holds, Blocking, TypeOK, RowsOK
    <3> QED
      BY <1>2, <3>1, <3>2, PromiseEnds
  <2>4. CASE StartDecided(p)
    <3> DEFINE r == req[p].r
               pl == [ status  |-> Changed(Loaded(p), "pending_payment"),
                       payment |-> Changed(payment[r], "pending"),
                       outcome |-> "pending",
                       row     |-> 0,
                       insert  |-> TRUE,
                       touch   |-> SetsAttemptedAt("start", stamp[r]),
                       checked |-> TRUE ]
    <3>1. /\ Decide(p, pl) /\ IsRequest(p, "start") /\ ~StartBlocked(p)
          /\ Loaded(p) \in { "draft", "pending_payment" }
          /\ pl.status = Changed(Loaded(p), "pending_payment")
      BY <2>4 DEF StartDecided
    <3> HIDE DEF pl
    <3>2. /\ plan'[p] = pl
          /\ \A q \in Procs \ {p} :
               at'[q] = at[q] /\ plan'[q] = plan[q] /\ req'[q] = req[q]
          /\ UNCHANGED << status, unchecked >>
      BY <1>0, <3>1 DEF Decide, SessionsOK, rows
    <3>3. CASE Admits(p)'
      <4>1. Loaded(p) = "draft"
        BY <3>1, <3>2, <3>3 DEF Admits, Changed, Blocking
      <4>2. RoomFree(status, r)
        BY <3>1, <4>1 DEF StartBlocked
      <4>3. at[p] # "decided"
        BY <3>1 DEF IsRequest, Ready
      <4> QED
        BY <1>0, <3>1, <3>3, <4>2, <4>3, NewPromise
    <3>4. CASE ~Admits(p)'
      BY <1>1, <3>2, <3>4, PromiseEnds
    <3> QED
      BY <3>3, <3>4
  <2>5. ASSUME NEW refundable \in BOOLEAN, CancelDecided(p, refundable)
        PROVE  PromisesBounded'
    <3> DEFINE pay == IF RefundDue(req[p].r) /\ refundable
                      THEN "refunded" ELSE "same"
               pl == ManualPlan("cancelled", pay, FALSE)
    <3>1. Decide(p, pl) /\ pl.status = "cancelled"
      BY <2>5 DEF CancelDecided, ManualPlan
    <3> HIDE DEF pl
    <3>2. /\ plan'[p] = pl
          /\ \A q \in Procs \ {p} :
               at'[q] = at[q] /\ plan'[q] = plan[q] /\ req'[q] = req[q]
          /\ UNCHANGED << status, unchecked >>
      BY <1>0, <3>1 DEF Decide, SessionsOK, rows
    <3>3. ~Admits(p)'
      BY <3>1, <3>2 DEF Admits, Blocking
    <3> QED
      BY <1>1, <3>2, <3>3, PromiseEnds
  <2>6. CASE ConfirmDecided(p)
    <3> DEFINE pl == ManualPlan("confirmed", "same", TRUE)
    <3>1. /\ Decide(p, pl) /\ RoomFree(status, req[p].r)
          /\ at[p] # "decided"
          /\ pl.status = "confirmed" /\ pl.checked = TRUE
      BY <2>6 DEF ConfirmDecided, IsRequest, Ready, ManualPlan
    <3> HIDE DEF pl
    <3>2. at'[p] = "decided" /\ plan'[p] = pl
      BY <1>0, <3>1 DEF Decide, SessionsOK
    <3>3. Admits(p)'
      BY <3>1, <3>2 DEF Admits, Blocking
    <3> QED
      BY <1>0, <3>1, <3>3, NewPromise
  <2>7. CASE Commit(p)
    <3>1. Done(p)
      BY <2>7 DEF Commit
    <3>2. CheckedHolds' \subseteq CheckedHolds \cup Taking
      BY <2>7, CommitHolds
    <3> QED
      BY <1>2, <3>1, <3>2, PromiseEnds
  <2>8. CASE ConfirmReopens(p)
    <3>1. /\ ~Admits(p)' /\ UNCHANGED << status, unchecked >>
          /\ \A q \in Procs \ {p} :
               at'[q] = at[q] /\ plan'[q] = plan[q] /\ req'[q] = req[q]
      BY <1>0, <2>8 DEF ConfirmReopens, SessionsOK, Admits, rows
    <3> QED
      BY <1>1, <3>1, PromiseEnds
  <2> QED
    BY <1>6, <2>1, <2>2, <2>3, <2>4, <2>5, <2>6, <2>7, <2>8 DEF Proceed
<1>7. CASE Webhooks
  <2>1. PICK e \in Events, r \in Reservations, k \in Keys \cup {None},
             s \in WebhookStatuses : WebhookDecided(e, r, k, s)
    BY <1>7 DEF Webhooks
  <2>2. /\ Loop \in Procs /\ status[r] \in ReservationStatus
    BY DEF Procs, TypeOK, RowsOK
  <2>3. /\ at'[Loop] = "decided" /\ req'[Loop].r = r
        /\ plan'[Loop].checked = (status[r] # "draft" /\ r \notin unchecked)
        /\ plan'[Loop].status = Changed(status[r], AfterEvent(r, s))
    BY <1>0, <2>1, <2>2 DEF WebhookDecided, SessionsOK
  <2>4. ASSUME plan'[Loop].status \in Blocking, status[r] # "draft"
        PROVE  status[r] \in Blocking
    BY <2>2, <2>3, <2>4 DEF Changed, AfterEvent, AfterPaid, AfterFailed,
                            AfterPending, Blocking, ReservationStatus
  <2>5. Admits(Loop)' => req'[Loop].r \in CheckedHolds
    BY <2>3, <2>4 DEF Admits, CheckedHolds, Holds
  <2>6. /\ \A q \in Procs \ {Loop} :
             at'[q] = at[q] /\ plan'[q] = plan[q] /\ req'[q] = req[q]
        /\ UNCHANGED << status, unchecked >>
    BY <1>0, <2>1 DEF WebhookDecided, SessionsOK, rows
  <2> QED
    BY <2>2, <2>5, <2>6, PromiseKnown
<1>8. CASE \E r \in Reservations : Elapse(r)
  <2>1. UNCHANGED << status, unchecked, at, plan, req >>
    BY <1>8 DEF Elapse, local
  <2> QED
    BY <2>1, NoNewPromise DEF CheckedHolds, Holds, Taking, Admitting, Admits
<1>9. CASE Restart
  <2>1. UNCHANGED << status, unchecked >> /\ Taking' = {}
    BY <1>9 DEF Restart, Taking, Admitting, Admits
  <2> QED
    BY <1>1, <2>1, NoNewPromise
<1>10. CASE UNCHANGED vars
  <2>1. UNCHANGED << status, unchecked, at, plan, req >>
    BY <1>10 DEF vars, rows, local
  <2> QED
    BY <2>1, NoNewPromise DEF CheckedHolds, Holds, Taking, Admitting, Admits
<1> QED
  BY <1>3, <1>4, <1>5, <1>6, <1>7, <1>8, <1>9, <1>10 DEF Next

\* At the start nothing is promised.
LEMMA PromiseInit == Init => LoopOK /\ PromisesBounded
<1> SUFFICES ASSUME Init PROVE LoopOK /\ PromisesBounded
  OBVIOUS
<1>1. LoopOK
  BY DEF Init, LoopOK, Procs
<1>2. \A n : Promised(n) = {}
  BY DEF Init, Promised, CheckedHolds, Holds, Blocking, Taking, Admitting, Admits
<1>3. PromisesBounded
  BY <1>2, FS_EmptySet, TakersFinite, InventoryAssumption DEF PromisesBounded
<1> QED
  BY <1>1, <1>3

\* What is promised covers what is held.
LEMMA PromisesCoverHolds == TypeOK /\ PromisesBounded => OversellBounded
<1> SUFFICES ASSUME TypeOK, PromisesBounded, NEW n \in Nights
             PROVE  Cardinality({ r \in CheckedHolds : n \in Stay[r] }) <=
                      Inventory + Cardinality(Takers) - 1
  BY DEF OversellBounded
<1> DEFINE H == { r \in CheckedHolds : n \in Stay[r] }
<1>1. H \subseteq Promised(n) /\ Promised(n) \subseteq Reservations
  BY TakingType DEF Promised, CheckedHolds, Holds
<1> HIDE DEF H
<1>2. IsFiniteSet(Promised(n))
  BY <1>1, FiniteAssumption, FS_Subset
<1>3. IsFiniteSet(H) /\ Cardinality(H) <= Cardinality(Promised(n))
  BY <1>1, <1>2, FS_Subset
<1>4. Cardinality(H) \in Nat /\ Cardinality(Promised(n)) \in Nat
  BY <1>2, <1>3, FS_CardinalityType
<1>5. Cardinality(Promised(n)) <= Inventory + Cardinality(Takers) - 1
  BY DEF PromisesBounded
<1>6. Cardinality(H) <= Inventory + Cardinality(Takers) - 1
  BY <1>3, <1>4, <1>5, TakersFinite, InventoryAssumption
<1> QED
  BY <1>6 DEF H

\* However many handlers race for a room, and for however long, a night is
\* oversold by at most the number of processes that can hold a decision
\* minus one: every guest too many is one that a process let in between its
\* check and its commit.
THEOREM OversellStaysBounded == Spec => []OversellBounded
<1>1. Init => TypeOK /\ LoopOK /\ PromisesBounded
  BY TypeInit, PromiseInit
<1>2. TypeOK /\ LoopOK /\ PromisesBounded /\ [Next]_vars
        => TypeOK' /\ LoopOK' /\ PromisesBounded'
  BY TypeStep, LoopStep, PromiseStep
<1>3. TypeOK /\ PromisesBounded => OversellBounded
  BY PromisesCoverHolds
<1> QED
  BY <1>1, <1>2, <1>3, PTL DEF Spec

----------------------------------------------------------------------------
\* One thread and no webhooks

\* Without webhooks every room is taken after a look at the availability.
AllChecked == unchecked = {}
PlansChecked ==
    \A p \in Procs :
        at[p] = "decided" /\ plan[p].status \in Blocking => plan[p].checked
NothingUnchecked == AllChecked /\ PlansChecked

LEMMA PlansCheckedSame ==
    ASSUME PlansChecked, NEW p \in Procs,
           at'[p] = "decided" /\ plan'[p].status \in Blocking => plan'[p].checked,
           \A q \in Procs \ {p} : at'[q] = at[q] /\ plan'[q] = plan[q]
    PROVE  PlansChecked'
BY DEF PlansChecked

LEMMA CheckedStep ==
    ASSUME WebhookStatuses = {}
    PROVE  TypeOK /\ NothingUnchecked /\ [Next]_vars => NothingUnchecked'
<1> SUFFICES ASSUME TypeOK, NothingUnchecked, [Next]_vars
             PROVE  NothingUnchecked'
  OBVIOUS
<1>0. SessionsOK /\ PlansChecked /\ unchecked = {}
  BY DEF TypeOK, NothingUnchecked, AllChecked
<1>1. ASSUME NEW p \in Procs, Done(p) PROVE PlansChecked'
  <2>1. /\ at'[p] = "idle"
        /\ \A q \in Procs \ {p} : at'[q] = at[q] /\ plan'[q] = plan[q]
    BY <1>0, <1>1 DEF Done, SessionsOK
  <2> QED
    BY <1>0, <2>1, PlansCheckedSame
<1>2. ASSUME NEW p \in Procs, NEW pl, Decide(p, pl),
             pl.status \in Blocking => pl.checked
      PROVE  NothingUnchecked'
  <2>1. /\ plan'[p] = pl /\ unchecked' = unchecked
        /\ \A q \in Procs \ {p} : at'[q] = at[q] /\ plan'[q] = plan[q]
    BY <1>0, <1>2 DEF Decide, SessionsOK
  <2> QED
    BY <1>0, <1>2, <2>1, PlansCheckedSame DEF NothingUnchecked, AllChecked
<1>3. ASSUME NEW p \in Procs, SweepSelect(p) \/ Requests(p)
      PROVE  NothingUnchecked'
  <2>1. /\ at'[p] # "decided" /\ unchecked' = unchecked
        /\ \A q \in Procs \ {p} : at'[q] = at[q] /\ plan'[q] = plan[q]
    BY <1>0, <1>3 DEF SweepSelect, Requests, Open, SessionsOK
  <2> QED
    BY <1>0, <2>1, PlansCheckedSame DEF NothingUnchecked, AllChecked
<1>4. ASSUME NEW p \in Procs, Tasks(p) PROVE NothingUnchecked'
  <2>1. PICK t \in finalizers, s \in { "paid", "failed" } :
              FinalizeDecided(p, t, s) \/ FinalizeDropped(p, t, s)
    BY <1>4 DEF Tasks
  <2>2. CASE FinalizeDecided(p, t, s)
    <3>1. /\ plan'[p].checked = (t[1] \notin unchecked) /\ unchecked' = unchecked
          /\ \A q \in Procs \ {p} : at'[q] = at[q] /\ plan'[q] = plan[q]
      BY <1>0, <2>2 DEF FinalizeDecided, SessionsOK
    <3>2. plan'[p].checked
      BY <1>0, <3>1
    <3> QED
      BY <1>0, <3>1, <3>2, PlansCheckedSame DEF NothingUnchecked, AllChecked
  <2>3. CASE FinalizeDropped(p, t, s)
    BY <1>0, <2>3
       DEF FinalizeDropped, local, NothingUnchecked, AllChecked, PlansChecked
  <2> QED
    BY <2>1, <2>2, <2>3
<1>5. ASSUME NEW p \in Procs, Proceed(p) PROVE NothingUnchecked'
  <2>1. CASE SweepCommit(p)
    <3>1. /\ at'[p] # "decided"
          /\ \A q \in Procs \ {p} : at'[q] = at[q] /\ plan'[q] = plan[q]
      BY <1>0, <2>1 DEF SweepCommit, SessionsOK
    <3>2. unchecked' = {}
      BY <1>0, <2>1 DEF SweepCommit
    <3> QED
      BY <1>0, <3>1, <3>2, PlansCheckedSame DEF NothingUnchecked, AllChecked
  <2>2. CASE StartRefused(p) \/ CancelRefused(p) \/ ConfirmRefused(p)
             \/ CommitLost(p) \/ StartUnavailable(p)
    <3>1. Done(p) /\ unchecked' = {}
      BY <1>0, <2>2 DEF StartRefused, CancelRefused, ConfirmRefused,
                        CommitLost, StartUnavailable, Refuse
    <3> QED
      BY <1>1, <3>1 DEF NothingUnchecked, AllChecked
  <2>3. CASE StartDecided(p)
    BY <1>2, <2>3 DEF StartDecided
  <2>4. CASE \E refundable \in BOOLEAN : CancelDecided(p, refundable)
    BY <1>2, <2>4 DEF CancelDecided, ManualPlan, Blocking
  <2>5. CASE ConfirmDecided(p)
    BY <1>2, <2>5 DEF ConfirmDecided, ManualPlan
  <2>6. CASE Commit(p)
    <3>1. Done(p) /\ unchecked' = UncheckedAfter(p) /\ at[p] = "decided"
      BY <2>6 DEF Commit
    <3>2. unchecked' = {}
      BY <1>0, <3>1 DEF UncheckedAfter, PlansChecked
    <3> QED
      BY <1>1, <3>1, <3>2 DEF NothingUnchecked, AllChecked
  <2>7. CASE ConfirmReopens(p)
    <3>1. /\ at'[p] # "decided" /\ unchecked' = unchecked
          /\ \A q \in Procs \ {p} : at'[q] = at[q] /\ plan'[q] = plan[q]
      BY <1>0, <2>7 DEF ConfirmReopens, SessionsOK
    <3> QED
      BY <1>0, <3>1, PlansCheckedSame DEF NothingUnchecked, AllChecked
  <2> QED
    BY <1>5, <2>1, <2>2, <2>3, <2>4, <2>5, <2>6, <2>7 DEF Proceed
<1>6. ~Webhooks
  BY DEF Webhooks
<1>7. CASE (\E r \in Reservations : Elapse(r)) \/ UNCHANGED vars
  BY <1>0, <1>7
     DEF Elapse, vars, local, NothingUnchecked, AllChecked, PlansChecked
<1>8. CASE Restart
  BY <1>0, <1>8 DEF Restart, NothingUnchecked, AllChecked, PlansChecked
<1> QED
  BY <1>3, <1>4, <1>5, <1>6, <1>7, <1>8 DEF Next

\* When one process only can promise rooms, none is promised twice.
LEMMA OneTaker ==
    ASSUME NEW w, Workers = {w}, WebhookStatuses = {}
    PROVE  TypeOK /\ NothingUnchecked /\ OversellBounded => RoomsNotOversold
<1> SUFFICES ASSUME NothingUnchecked, OversellBounded, NEW n \in Nights
             PROVE  Cardinality({ r \in Holds : n \in Stay[r] }) <= Inventory
  BY DEF RoomsNotOversold
<1>1. Cardinality(Takers) = 1
  BY FS_Singleton DEF Takers
<1>2. CheckedHolds = Holds
  BY DEF CheckedHolds, NothingUnchecked, AllChecked
<1>3. Cardinality({ r \in CheckedHolds : n \in Stay[r] }) <= Inventory + 1 - 1
  BY <1>1 DEF OversellBounded
<1>4. Inventory + 1 - 1 = Inventory
  BY InventoryAssumption
<1> QED
  BY <1>2, <1>3, <1>4

\* A pool of one thread, and no webhooks, never oversells a night, although
\* the expiry worker on the loop still runs between any two steps.
THEOREM OneThreadNeverOversells ==
    ASSUME NEW w, Workers = {w}, WebhookStatuses = {}
    PROVE  Spec => []RoomsNotOversold
<1>1. Init => NothingUnchecked
  BY DEF Init, NothingUnchecked, AllChecked, PlansChecked
<1>2. TypeOK /\ NothingUnchecked /\ [Next]_vars => NothingUnchecked'
  BY CheckedStep
<1>3. TypeOK /\ NothingUnchecked /\ OversellBounded => RoomsNotOversold
  BY OneTaker
<1>4. Spec => []TypeOK
  BY TypeCorrect
<1>5. Spec => []OversellBounded
  BY OversellStaysBounded
<1> QED
  BY <1>1, <1>2, <1>3, <1>4, <1>5, PTL DEF Spec

----------------------------------------------------------------------------
\* The term of a hold

\* The inductive invariant behind HoldsRunFullTerm.  It has three parts: a hold
\* always has an attempted_at (without it a sweep could select a hold by its
\* created_at); a process that is about to take a room after a check sets
\* attempted_at itself, and none is about to write "expired" by way of a plan;
\* and what a process has selected or loaded is still so, unless another one
\* wrote the row meanwhile.
HasDeadline(r) == stamp[r] \in { "attempted", "attempted_stale" }
HeldHasDeadline ==
    \A r \in Reservations : status[r] = "pending_payment" => HasDeadline(r)

PlanKeepsTerm(p) ==
    at[p] = "decided" =>
        /\ plan[p].status # "expired"
        /\ plan[p].status = "pending_payment" =>
             plan[p].touch \/ (~plan[p].checked /\ HasDeadline(req[p].r))

SeesRow(p, r) ==
    /\ at[p] = "idle" => saw[p] = None
    /\ r \in sel[p] => stamp[r] = "attempted_stale"
    /\ req[p] # None /\ req[p].r = r /\ saw[p] # None => saw[p] = status[r]

TermInv ==
    /\ HeldHasDeadline
    /\ \A p \in Procs :
         /\ PlanKeepsTerm(p)
         /\ \A r \in Reservations \ contended : SeesRow(p, r)

\* p writes the rows of S: those that another process has in hand are noted.
LEMMA Noted ==
    ASSUME NEW p \in Procs, NEW S, NoteContention(p, S)
    PROVE  /\ contended \subseteq contended'
           /\ \A r \in S, q \in Procs \ {p} :
                r \in InHand(q) => r \in contended'
BY DEF NoteContention

\* A step that writes no row notes none.
LEMMA NothingNoted ==
    ASSUME NEW p \in Procs, contended' = contended
    PROVE  NoteContention(p, {})
BY DEF NoteContention

\* The rest of p's step, once the row and the session of p are looked at.
LEMMA TermFrame ==
    ASSUME TypeOK, TermInv, NEW p \in Procs, NEW S, NoteContention(p, S),
           \A q \in Procs \ {p} :
             /\ at'[q] = at[q] /\ req'[q] = req[q] /\ saw'[q] = saw[q]
             /\ sel'[q] = sel[q] /\ plan'[q] = plan[q],
           \A r \in Reservations \ S :
             status'[r] = status[r] /\ stamp'[r] = stamp[r],
           \A r : HasDeadline(r) => HasDeadline(r)',
           HeldHasDeadline', PlanKeepsTerm(p)',
           \A r \in Reservations \ contended' : SeesRow(p, r)'
    PROVE  TermInv'
<1> SUFFICES ASSUME NEW q \in Procs \ {p}
             PROVE  /\ PlanKeepsTerm(q)'
                    /\ \A r \in Reservations \ contended' : SeesRow(q, r)'
  BY DEF TermInv
<1>1. /\ at'[q] = at[q] /\ req'[q] = req[q] /\ saw'[q] = saw[q]
      /\ sel'[q] = sel[q] /\ plan'[q] = plan[q]
  OBVIOUS
<1>2. PlanKeepsTerm(q)'
  <2>1. PlanKeepsTerm(q)
    BY DEF TermInv
  <2> QED
    BY <1>1, <2>1 DEF PlanKeepsTerm
<1>3. ASSUME NEW r \in Reservations \ contended' PROVE SeesRow(q, r)'
  <2>1. SeesRow(q, r)
    BY Noted DEF TermInv
  <2>2. CASE r \in InHand(q)
    <3>1. status'[r] = status[r] /\ stamp'[r] = stamp[r]
      BY <2>2, Noted
    <3> QED
      BY <1>1, <2>1, <3>1 DEF SeesRow
  <2>3. CASE r \notin InHand(q)
    BY <1>1, <2>1, <2>3 DEF SeesRow, InHand
  <2> QED
    BY <2>2, <2>3
<1> QED
  BY <1>2, <1>3

\* p finishes without a plan.
LEMMA TermDone ==
    ASSUME TypeOK, TermInv, NEW p \in Procs, Done(p),
           NEW S, NoteContention(p, S),
           \A r \in Reservations \ S :
             status'[r] = status[r] /\ stamp'[r] = stamp[r],
           \A r : HasDeadline(r) => HasDeadline(r)', HeldHasDeadline'
    PROVE  TermInv'
<1>1. /\ at'[p] = "idle" /\ req'[p] = None /\ saw'[p] = None /\ sel'[p] = {}
      /\ \A q \in Procs \ {p} :
           /\ at'[q] = at[q] /\ req'[q] = req[q] /\ saw'[q] = saw[q]
           /\ sel'[q] = sel[q] /\ plan'[q] = plan[q]
  BY DEF Done, TypeOK, SessionsOK
<1>2. PlanKeepsTerm(p)' /\ \A r : SeesRow(p, r)'
  BY <1>1 DEF PlanKeepsTerm, SeesRow
<1> QED
  BY <1>1, <1>2, TermFrame

\* p writes no row.
LEMMA TermReads ==
    ASSUME TypeOK, TermInv, NEW p \in Procs,
           UNCHANGED << status, stamp, contended >>,
           \A q \in Procs \ {p} :
             /\ at'[q] = at[q] /\ req'[q] = req[q] /\ saw'[q] = saw[q]
             /\ sel'[q] = sel[q] /\ plan'[q] = plan[q],
           PlanKeepsTerm(p)',
           \A r \in Reservations \ contended : SeesRow(p, r)'
    PROVE  TermInv'
<1>1. HeldHasDeadline' /\ \A r : HasDeadline(r) => HasDeadline(r)'
  BY DEF TermInv, HeldHasDeadline, HasDeadline
<1> QED
  BY <1>1, NothingNoted, TermFrame

\* p decides.
LEMMA TermDecide ==
    ASSUME TypeOK, TermInv, NEW p \in Procs, at[p] # "idle",
           NEW pl, Decide(p, pl), pl.status # "expired",
           pl.status = "pending_payment" => pl.touch
    PROVE  TermInv'
<1>1. /\ at'[p] = "decided" /\ plan'[p] = pl
      /\ req'[p] = req[p] /\ saw'[p] = saw[p] /\ sel'[p] = sel[p]
      /\ UNCHANGED << status, stamp, contended >>
      /\ \A q \in Procs \ {p} :
           /\ at'[q] = at[q] /\ req'[q] = req[q] /\ saw'[q] = saw[q]
           /\ sel'[q] = sel[q] /\ plan'[q] = plan[q]
  BY DEF Decide, rows, TypeOK, SessionsOK
<1>2. PlanKeepsTerm(p)'
  BY <1>1 DEF PlanKeepsTerm
<1>3. \A r \in Reservations \ contended : SeesRow(p, r)'
  BY <1>1 DEF TermInv, SeesRow
<1> QED
  BY <1>1, <1>2, <1>3, TermReads

\* A sweep, or a handler that picks up a reservation.
LEMMA TermPickUp ==
    ASSUME TypeOK, TermInv, NEW p \in Procs, SweepSelect(p) \/ Requests(p)
    PROVE  TermInv'
<1>1. CASE SweepSelect(p)
  <2>1. /\ at'[p] = "sweeping" /\ sel'[p] = AllOverdue
        /\ req'[p] = req[p] /\ saw'[p] = saw[p]
        /\ UNCHANGED << status, stamp, contended >>
        /\ \A q \in Procs \ {p} :
             /\ at'[q] = at[q] /\ req'[q] = req[q] /\ saw'[q] = saw[q]
             /\ sel'[q] = sel[q] /\ plan'[q] = plan[q]
    BY <1>1 DEF SweepSelect, rows, TypeOK, SessionsOK
  <2>2. \A r \in AllOverdue : stamp[r] = "attempted_stale"
    BY DEF AllOverdue, Overdue, TermInv, HeldHasDeadline, HasDeadline
  <2>3. PlanKeepsTerm(p)' /\ \A r \in Reservations \ contended : SeesRow(p, r)'
    BY <2>1, <2>2 DEF PlanKeepsTerm, SeesRow, TermInv
  <2> QED
    BY <2>1, <2>3, TermReads
<1>2. CASE Requests(p)
  <2>1. PICK op, r, k : Open(p, op, r, k)
    BY <1>2 DEF Requests
  <2>2. /\ at[p] = "idle" /\ at'[p] = "opened"
        /\ req'[p].r = r /\ sel'[p] = sel[p]
        /\ saw'[p] = IF op = "confirm" THEN None ELSE status[r]
        /\ UNCHANGED << status, stamp, contended >>
        /\ \A q \in Procs \ {p} :
             /\ at'[q] = at[q] /\ req'[q] = req[q] /\ saw'[q] = saw[q]
             /\ sel'[q] = sel[q] /\ plan'[q] = plan[q]
    BY <2>1 DEF Open, rows, TypeOK, SessionsOK
  <2>3. PlanKeepsTerm(p)' /\ \A q \in Reservations \ contended : SeesRow(p, q)'
    BY <2>2 DEF PlanKeepsTerm, SeesRow, TermInv
  <2> QED
    BY <2>2, <2>3, TermReads
<1> QED
  BY <1>1, <1>2

\* A finalizer never takes a hold.
LEMMA TermFinalize ==
    ASSUME TypeOK, TermInv, NEW p \in Procs, NEW t \in finalizers,
           NEW s \in { "paid", "failed" }, FinalizeDecided(p, t, s)
    PROVE  TermInv'
<1>0. status[t[1]] \in ReservationStatus
  BY DEF TypeOK, RowsOK
<1>1. /\ at[p] = "idle" /\ at'[p] = "decided"
      /\ plan'[p].status = IF Closed(t[1]) THEN "same"
                           ELSE Changed(status[t[1]], FinalTarget(s))
      /\ saw'[p] = saw[p] /\ sel'[p] = sel[p]
      /\ UNCHANGED << status, stamp, contended >>
      /\ \A q \in Procs \ {p} :
           /\ at'[q] = at[q] /\ req'[q] = req[q] /\ saw'[q] = saw[q]
           /\ sel'[q] = sel[q] /\ plan'[q] = plan[q]
  BY DEF FinalizeDecided, TypeOK, SessionsOK
<1>2. PlanKeepsTerm(p)'
  BY <1>1 DEF PlanKeepsTerm, Changed, FinalTarget
<1>3. \A r \in Reservations \ contended : SeesRow(p, r)'
  BY <1>1 DEF TermInv, SeesRow
<1> QED
  BY <1>1, <1>2, <1>3, TermReads

\* A webhook takes one only unchecked, and sees to an attempted_at.
LEMMA TermWebhook ==
    ASSUME TypeOK, TermInv, Webhooks
    PROVE  TermInv'
<1>1. PICK e \in Events, r \in Reservations, k \in Keys \cup {None},
           s \in WebhookStatuses : WebhookDecided(e, r, k, s)
  BY DEF Webhooks
<1>2. /\ Loop \in Procs /\ status[r] \in ReservationStatus
      /\ stamp[r] \in Stamps
  BY DEF Procs, TypeOK, RowsOK
<1>3. /\ at[Loop] = "idle" /\ at'[Loop] = "decided" /\ req'[Loop].r = r
      /\ plan'[Loop].status = Changed(status[r], AfterEvent(r, s))
      /\ plan'[Loop].touch = SetsAttemptedAt("webhook", stamp[r])
      /\ plan'[Loop].checked = (status[r] # "draft" /\ r \notin unchecked)
      /\ saw'[Loop] = saw[Loop] /\ sel'[Loop] = sel[Loop]
      /\ UNCHANGED << status, stamp, contended >>
      /\ \A q \in Procs \ {Loop} :
           /\ at'[q] = at[q] /\ req'[q] = req[q] /\ saw'[q] = saw[q]
           /\ sel'[q] = sel[q] /\ plan'[q] = plan[q]
  BY <1>1, <1>2 DEF WebhookDecided, rows, TypeOK, SessionsOK
<1>4. /\ plan'[Loop].status # "expired"
      /\ plan'[Loop].status = "pending_payment" => status[r] = "draft"
  BY <1>2, <1>3 DEF Changed, AfterEvent, AfterPaid, AfterFailed, AfterPending
<1>5. plan'[Loop].touch \/ HasDeadline(r)'
  BY <1>2, <1>3 DEF SetsAttemptedAt, HasDeadline, Stamps
<1>6. PlanKeepsTerm(Loop)'
  BY <1>3, <1>4, <1>5 DEF PlanKeepsTerm, HasDeadline
<1>7. \A q \in Reservations \ contended : SeesRow(Loop, q)'
  BY <1>2, <1>3 DEF TermInv, SeesRow
<1> QED
  BY <1>2, <1>3, <1>6, <1>7, TermReads

\* A step that leaves the statuses alone neither takes nor ends a hold.
LEMMA TermIdles ==
    ASSUME status' = status
    PROVE  TermStep
BY DEF TermStep, CheckedHolds, Holds

LEMMA TermSweep ==
    ASSUME TypeOK, TermInv, NEW p \in Procs, SweepCommit(p)
    PROVE  TermInv' /\ TermStep
<1>1. /\ at'[p] # "decided" /\ saw'[p] = None /\ sel'[p] = {}
      /\ sel[p] \subseteq Reservations /\ NoteContention(p, sel[p])
      /\ stamp' = stamp
      /\ \A r \in Reservations :
           status'[r] = IF r \in sel[p] THEN "expired" ELSE status[r]
      /\ \A q \in Procs \ {p} :
           /\ at'[q] = at[q] /\ req'[q] = req[q] /\ saw'[q] = saw[q]
           /\ sel'[q] = sel[q] /\ plan'[q] = plan[q]
  BY DEF SweepCommit, TypeOK, SessionsOK
<1>2. HeldHasDeadline' /\ \A r : HasDeadline(r) => HasDeadline(r)'
  BY <1>1 DEF TermInv, HeldHasDeadline, HasDeadline
<1>3. PlanKeepsTerm(p)' /\ \A r : SeesRow(p, r)'
  BY <1>1 DEF PlanKeepsTerm, SeesRow
<1>4. \A r \in Reservations \ sel[p] :
        status'[r] = status[r] /\ stamp'[r] = stamp[r]
  BY <1>1
<1>5. TermInv'
  BY <1>1, <1>2, <1>3, <1>4, TermFrame
<1>6. TermStep
  <2>1. ASSUME NEW r \in sel[p] \ contended PROVE stamp[r] = "attempted_stale"
    BY <1>1, <2>1 DEF TermInv, SeesRow
  <2> QED
    BY <1>1, <2>1 DEF TermStep, CheckedHolds, Holds
<1> QED
  BY <1>5, <1>6

LEMMA TermUnavailable ==
    ASSUME TypeOK, TermInv, NEW p \in Procs, StartUnavailable(p)
    PROVE  TermInv' /\ TermStep
<1>1. /\ req[p] # None /\ req[p] \in Request /\ Loaded(p) = "draft"
      /\ status' = [ status EXCEPT ![req[p].r] = "expired" ]
      /\ stamp' = stamp /\ Done(p) /\ NoteContention(p, { req[p].r })
  BY DEF StartUnavailable, IsRequest, StartBlocked, TypeOK, SessionsOK
<1>0. PICK r \in Reservations : r = req[p].r
  BY <1>1 DEF Request
<1>2. /\ status'[r] = "expired"
      /\ \A q \in Reservations \ {r} :
           status'[q] = status[q] /\ stamp'[q] = stamp[q]
  BY <1>0, <1>1 DEF TypeOK, RowsOK
<1>3. HeldHasDeadline' /\ \A q : HasDeadline(q) => HasDeadline(q)'
  BY <1>1, <1>2 DEF TermInv, HeldHasDeadline, HasDeadline
<1>4. TermInv'
  BY <1>0, <1>1, <1>2, <1>3, TermDone
<1>5. r \notin contended => status[r] = "draft"
  BY <1>0, <1>1 DEF TermInv, SeesRow, Loaded
<1>6. TermStep
  BY <1>2, <1>5 DEF TermStep, CheckedHolds, Holds
<1> QED
  BY <1>4, <1>6

LEMMA TermCommit ==
    ASSUME TypeOK, TermInv, NEW p \in Procs, Commit(p)
    PROVE  TermInv' /\ TermStep
<1>1. /\ Done(p) /\ at[p] = "decided" /\ PlanKeepsTerm(p)
      /\ status' = [ status EXCEPT ![req[p].r] = Written(plan[p].status, @) ]
      /\ stamp' = [ stamp EXCEPT ![req[p].r] =
                      IF plan[p].touch THEN "attempted" ELSE @ ]
      /\ unchecked' = UncheckedAfter(p)
      /\ NoteContention(p, { req[p].r })
      /\ req[p] \in Request /\ plan[p] \in Plan
  BY DEF Commit, TermInv, TypeOK, SessionsOK, PlanOK
<1>0. PICK r \in Reservations : r = req[p].r
  BY <1>1 DEF Request
<1>2. /\ status'[r] = Written(plan[p].status, status[r])
      /\ stamp'[r] = IF plan[p].touch THEN "attempted" ELSE stamp[r]
      /\ \A q \in Reservations \ {r} :
           status'[q] = status[q] /\ stamp'[q] = stamp[q]
      /\ plan[p].touch \in BOOLEAN /\ plan[p].checked \in BOOLEAN
  BY <1>0, <1>1 DEF TypeOK, RowsOK, Plan
<1>3. \A q : HasDeadline(q) => HasDeadline(q)'
  BY <1>0, <1>1 DEF HasDeadline, TypeOK, RowsOK
<1>4. status'[r] = "pending_payment" /\ status[r] # "pending_payment" =>
        /\ plan[p].status = "pending_payment"
        /\ plan[p].touch \/ (~plan[p].checked /\ HasDeadline(r))
  BY <1>0, <1>1, <1>2 DEF Written, PlanKeepsTerm
<1>5. HeldHasDeadline'
  <2> SUFFICES ASSUME NEW q \in Reservations, status'[q] = "pending_payment"
               PROVE  HasDeadline(q)'
    BY DEF HeldHasDeadline
  <2>1. CASE status[q] = "pending_payment"
    BY <1>3, <2>1 DEF TermInv, HeldHasDeadline
  <2>2. CASE status[q] # "pending_payment"
    <3>1. q = r
      BY <1>2, <2>2
    <3>2. CASE plan[p].touch
      BY <1>2, <3>1, <3>2 DEF HasDeadline
    <3>3. CASE ~plan[p].touch
      BY <1>3, <1>4, <2>2, <3>1, <3>3
    <3> QED
      BY <3>2, <3>3
  <2> QED
    BY <2>1, <2>2
<1>6. TermInv'
  BY <1>0, <1>1, <1>2, <1>3, <1>5, TermDone
<1>7. ASSUME r \notin Holds, r \in CheckedHolds', status'[r] = "pending_payment"
      PROVE  stamp'[r] = "attempted"
  <2>1. status[r] \notin Blocking
    BY <1>7 DEF Holds
  <2>2. plan[p].status = "pending_payment" /\ "pending_payment" \in Blocking
    BY <1>4, <1>7, <2>1 DEF Blocking
  <2>3. plan[p].checked
    <3> SUFFICES ASSUME ~plan[p].checked PROVE r \in unchecked'
      BY <1>2, <1>7 DEF CheckedHolds
    <3> QED
      BY <1>0, <1>1, <1>7, <2>1, <2>2 DEF UncheckedAfter
  <2>4. plan[p].touch
    BY <1>4, <1>7, <2>1, <2>2, <2>3
  <2> QED
    BY <1>2, <2>4
<1>8. status'[r] = "expired" => status[r] = "expired"
  BY <1>1, <1>2 DEF Written, PlanKeepsTerm
<1>9. TermStep
  <2>1. ASSUME NEW q \in Reservations, q # r PROVE status'[q] = status[q]
    BY <1>2, <2>1
  <2> SUFFICES ASSUME NEW q \in Reservations
               PROVE  /\ (q \notin Holds /\ q \in CheckedHolds'
                            /\ status'[q] = "pending_payment")
                           => stamp'[q] = "attempted"
                      /\ (q \notin contended /\ status[q] = "pending_payment"
                            /\ status'[q] = "expired")
                           => stamp[q] = "attempted_stale"
    BY DEF TermStep
  <2>2. CASE q = r
    BY <1>7, <1>8, <2>2
  <2>3. CASE q # r
    BY <2>1, <2>3 DEF Holds, CheckedHolds
  <2> QED
    BY <2>2, <2>3
<1> QED
  BY <1>6, <1>9

LEMMA TermInvStep ==
    ASSUME TypeOK, TermInv, [Next]_vars
    PROVE  TermInv' /\ [TermStep]_vars
<1>1. ASSUME NEW p \in Procs, SweepSelect(p) \/ Requests(p)
      PROVE  TermInv' /\ TermStep
  <2>1. status' = status
    BY <1>1 DEF SweepSelect, Requests, Open, rows
  <2> QED
    BY <1>1, <2>1, TermPickUp, TermIdles
<1>2. ASSUME NEW p \in Procs, Tasks(p) PROVE TermInv' /\ TermStep
  <2>1. PICK t \in finalizers, s \in { "paid", "failed" } :
              FinalizeDecided(p, t, s) \/ FinalizeDropped(p, t, s)
    BY <1>2 DEF Tasks
  <2>2. CASE FinalizeDecided(p, t, s)
    <3>1. status' = status
      BY <2>2 DEF FinalizeDecided
    <3> QED
      BY <2>2, <3>1, TermFinalize, TermIdles
  <2>3. CASE FinalizeDropped(p, t, s)
    <3>1. UNCHANGED << status, stamp, contended, at, req, saw, sel, plan >>
      BY <2>3 DEF FinalizeDropped, local
    <3>2. TermInv'
      BY <3>1 DEF TermInv, HeldHasDeadline, HasDeadline, PlanKeepsTerm, SeesRow
    <3> QED
      BY <3>1, <3>2, TermIdles
  <2> QED
    BY <2>1, <2>2, <2>3
<1>3. ASSUME NEW p \in Procs, Proceed(p) PROVE TermInv' /\ TermStep
  <2>1. CASE SweepCommit(p)
    BY <2>1, TermSweep
  <2>2. CASE StartRefused(p) \/ CancelRefused(p) \/ ConfirmRefused(p)
             \/ CommitLost(p)
    <3>1. Done(p) /\ UNCHANGED << status, stamp, contended >>
      BY <2>2 DEF StartRefused, CancelRefused, ConfirmRefused, CommitLost,
                  Refuse, rows
    <3>2. HeldHasDeadline' /\ \A r : HasDeadline(r) => HasDeadline(r)'
      BY <3>1 DEF TermInv, HeldHasDeadline, HasDeadline
    <3>3. TermInv'
      BY <3>1, <3>2, NothingNoted, TermDone
    <3> QED
      BY <3>1, <3>3, TermIdles
  <2>3. CASE StartUnavailable(p)
    BY <2>3, TermUnavailable
  <2>4. ASSUME NEW pl, Decide(p, pl), at[p] # "idle", pl.status # "expired",
               pl.status = "pending_payment" => pl.touch
        PROVE  TermInv' /\ TermStep
    <3>1. status' = status
      BY <2>4 DEF Decide, rows
    <3> QED
      BY <2>4, <3>1, TermDecide, TermIdles
  <2>5. CASE StartDecided(p)
    BY <2>4, <2>5 DEF StartDecided, SetsAttemptedAt, Changed, IsRequest, Ready
  <2>6. CASE \E refundable \in BOOLEAN : CancelDecided(p, refundable)
    BY <2>4, <2>6 DEF CancelDecided, ManualPlan, IsRequest, Ready
  <2>7. CASE ConfirmDecided(p)
    BY <2>4, <2>7 DEF ConfirmDecided, ManualPlan, IsRequest, Ready
  <2>8. CASE ConfirmReopens(p)
    <3>1. /\ req[p] # None /\ saw[p] = None
          /\ at'[p] = "swept" /\ saw'[p] = status[req[p].r]
          /\ req'[p] = req[p] /\ sel'[p] = sel[p]
          /\ UNCHANGED << status, stamp, contended >>
          /\ \A q \in Procs \ {p} :
               /\ at'[q] = at[q] /\ req'[q] = req[q] /\ saw'[q] = saw[q]
               /\ sel'[q] = sel[q] /\ plan'[q] = plan[q]
      BY <2>8 DEF ConfirmReopens, Loaded, IsRequest, rows, TypeOK, SessionsOK
    <3>2. PlanKeepsTerm(p)' /\ \A r \in Reservations \ contended : SeesRow(p, r)'
      BY <3>1 DEF PlanKeepsTerm, SeesRow, TermInv
    <3> QED
      BY <3>1, <3>2, TermReads, TermIdles
  <2>9. CASE Commit(p)
    BY <2>9, TermCommit
  <2> QED
    BY <1>3, <2>1, <2>2, <2>3, <2>5, <2>6, <2>7, <2>8, <2>9 DEF Proceed
<1>4. CASE Webhooks
  <2>1. status' = status
    BY <1>4 DEF Webhooks, WebhookDecided, rows
  <2> QED
    BY <1>4, <2>1, TermWebhook, TermIdles
<1>5. ASSUME NEW r \in Reservations, Elapse(r) PROVE TermInv' /\ TermStep
  <2>1. /\ UNCHANGED << status, contended, at, req, saw, sel, plan >>
        /\ \A q : HasDeadline(q) => HasDeadline(q)'
        /\ \A q : stamp[q] = "attempted_stale" => stamp'[q] = "attempted_stale"
    BY <1>5 DEF Elapse, local, HasDeadline, TypeOK, RowsOK
  <2>2. TermInv'
    BY <2>1 DEF TermInv, HeldHasDeadline, PlanKeepsTerm, SeesRow
  <2> QED
    BY <2>1, <2>2, TermIdles
<1>6. CASE Restart
  <2>1. /\ UNCHANGED << status, stamp, contended >>
        /\ \A p \in Procs : /\ at'[p] = "idle" /\ req'[p] = None
                            /\ saw'[p] = None /\ sel'[p] = {}
    BY <1>6 DEF Restart
  <2>2. TermInv'
    BY <2>1 DEF TermInv, HeldHasDeadline, HasDeadline, PlanKeepsTerm, SeesRow
  <2> QED
    BY <2>1, <2>2, TermIdles
<1>7. CASE UNCHANGED vars
  <2>1. UNCHANGED << status, stamp, contended, at, req, saw, sel, plan >>
    BY <1>7 DEF vars, rows, local
  <2> QED
    BY <1>7, <2>1 DEF TermInv, HeldHasDeadline, HasDeadline, PlanKeepsTerm,
                      SeesRow
<1> QED
  BY <1>1, <1>2, <1>3, <1>4, <1>5, <1>6, <1>7 DEF Next

\* However many threads, sweeps and webhooks race: the hold a start takes is
\* measured from the commit of that start and never from what older attempts
\* left in attempted_at, and a hold that no other process wrote behind a
\* handler's or a sweep's back is given up to time only when its TTL is over.
THEOREM HoldsAlwaysRunFullTerm == Spec => HoldsRunFullTerm
<1>1. Init => TermInv
  BY DEF Init, TermInv, HeldHasDeadline, PlanKeepsTerm, SeesRow
<1>2. TypeOK /\ TermInv /\ [Next]_vars => TermInv' /\ [TermStep]_vars
  BY TermInvStep
<1>3. Spec => []TypeOK
  BY TypeCorrect
<1> QED
  BY <1>1, <1>2, <1>3, PTL DEF Spec, HoldsRunFullTerm

----------------------------------------------------------------------------
\* Reservations that were not written behind a process's back

\* The inductive invariant behind QuietGuestsKeep.  A handler may read a row
\* and commit seconds later, so the row alone says nothing of what a commit
\* will do to it: QuietInv relates every session and every plan to the row.
\* It can be kept because a session is stale, or a plan out of date, only
\* after another process wrote the row, which NoteContention notes.

MoneyIn(m) == m \in { "paid", "refunded" }

\* What p's commit would make of the row of its reservation.
StatusToBe(p) == Written(plan[p].status, status[req[p].r])
PaymentToBe(p) == Written(plan[p].payment, payment[req[p].r])

\* ... is what its guest may see.
PlanSafe(p) ==
    /\ MoneyIn(PaymentToBe(p)) =>
         StatusToBe(p) \notin { "draft", "pending_payment" }
    /\ MoneyIn(payment[req[p].r]) => MoneyIn(PaymentToBe(p))
    /\ status[req[p].r] = "confirmed" =>
         StatusToBe(p) \in { "confirmed", "checked_in", "cancelled" }

\* The attempts of a reservation: only the last can be in flight, and none is
\* for a draft or once money was received.
InFlight(r, i) == attempts[r][i].status = "pending"
AttemptStory(r) ==
    \A i \in DOMAIN attempts[r] :
        InFlight(r, i) =>
            i = Len(attempts[r]) /\ status[r] # "draft" /\ ~MoneyIn(payment[r])

\* ... and p's commit does not change that.
PlanTells(p) ==
    LET r == req[p].r
    IN  /\ plan[p].insert =>
             /\ \A i \in DOMAIN attempts[r] : ~InFlight(r, i)
             /\ StatusToBe(p) # "draft" /\ ~MoneyIn(PaymentToBe(p))
        /\ ~plan[p].insert /\ plan[p].row > 0 =>
             /\ plan[p].row \in DOMAIN attempts[r] /\ InFlight(r, plan[p].row)
             /\ plan[p].outcome # "pending"
        /\ ~plan[p].insert /\ plan[p].row = 0 =>
             /\ StatusToBe(p) # "draft"
             /\ MoneyIn(PaymentToBe(p)) => MoneyIn(payment[r])

\* What p's session and p's plan say of r is what the row of r says.
Current(p, r) ==
    /\ at[p] = "idle" => saw[p] = None /\ req[p] = None
    /\ req[p] # None /\ req[p].r = r /\ saw[p] # None => saw[p] = status[r]
    /\ r \in sel[p] => status[r] = "pending_payment"
    /\ at[p] = "decided" /\ req[p].r = r =>
         PlanSafe(p) /\ (WebhookStatuses = {} => PlanTells(p))

RowQuiet(r) ==
    /\ MoneyIn(payment[r]) => status[r] \notin { "draft", "pending_payment" }
    /\ WebhookStatuses = {} => AttemptStory(r)

QuietInv ==
    /\ MockProvider = FALSE => finalizers = {}
    /\ \A r \in Reservations \ contended :
         RowQuiet(r) /\ \A p \in Procs : Current(p, r)

\* The rest of p's step, once the row and the session of p are looked at.
LEMMA QuietFrame ==
    ASSUME TypeOK, QuietInv, NEW p \in Procs, NEW S, NoteContention(p, S),
           \A q \in Procs \ {p} :
             /\ at'[q] = at[q] /\ req'[q] = req[q] /\ saw'[q] = saw[q]
             /\ sel'[q] = sel[q] /\ plan'[q] = plan[q],
           \A r \in Reservations \ S :
             /\ status'[r] = status[r] /\ payment'[r] = payment[r]
             /\ attempts'[r] = attempts[r],
           MockProvider = FALSE => finalizers' = {},
           \A r \in Reservations \ contended' : RowQuiet(r)' /\ Current(p, r)'
    PROVE  QuietInv'
<1> SUFFICES ASSUME NEW r \in Reservations \ contended', NEW q \in Procs \ {p}
             PROVE  Current(q, r)'
  BY DEF QuietInv
<1>1. Current(q, r) /\ r \notin contended
  BY Noted DEF QuietInv
<1>2. /\ at'[q] = at[q] /\ req'[q] = req[q] /\ saw'[q] = saw[q]
      /\ sel'[q] = sel[q] /\ plan'[q] = plan[q]
  OBVIOUS
<1>3. CASE r \in InHand(q)
  <2>2. /\ status'[r] = status[r] /\ payment'[r] = payment[r]
        /\ attempts'[r] = attempts[r]
    BY <1>3, Noted
  <2>3. ASSUME at'[q] = "decided", req'[q].r = r
        PROVE  PlanSafe(q)' /\ (WebhookStatuses = {} => PlanTells(q)')
    <3>1. PlanSafe(q) /\ (WebhookStatuses = {} => PlanTells(q))
      BY <1>1, <1>2, <2>3 DEF Current
    <3>2. StatusToBe(q)' = StatusToBe(q) /\ PaymentToBe(q)' = PaymentToBe(q)
      BY <1>2, <2>2, <2>3 DEF StatusToBe, PaymentToBe, Written
    <3>3. PlanSafe(q)'
      BY <1>2, <2>2, <2>3, <3>1, <3>2 DEF PlanSafe, MoneyIn
    <3>4. ASSUME WebhookStatuses = {} PROVE PlanTells(q)'
      BY <1>2, <2>2, <2>3, <3>1, <3>2, <3>4 DEF PlanTells, InFlight, MoneyIn
    <3> QED
      BY <3>3, <3>4
  <2> QED
    BY <1>1, <1>2, <2>2, <2>3 DEF Current
<1>4. CASE r \notin InHand(q)
  <2>1. ~(req[q] # None /\ req[q].r = r) /\ r \notin sel[q]
    BY <1>4 DEF InHand
  <2>2. at[q] = "decided" => req[q] # None
    BY DEF TypeOK, SessionsOK, PlanOK
  <2> QED
    BY <1>1, <1>2, <2>1, <2>2 DEF Current
<1> QED
  BY <1>3, <1>4

\* Rows that are not written stay quiet.
LEMMA RowsStayQuiet ==
    ASSUME NEW r \in Reservations, RowQuiet(r), status'[r] = status[r],
           payment'[r] = payment[r], attempts'[r] = attempts[r]
    PROVE  RowQuiet(r)'
BY DEF RowQuiet, AttemptStory, InFlight

\* A process without request and plan agrees with every row.
LEMMA IdleCurrent ==
    ASSUME SessionsOK, NEW p \in Procs, Done(p), NEW r
    PROVE  Current(p, r)' /\ InHand(p)' = {}
BY DEF Done, SessionsOK, Current, InHand

\* p finishes, having written at most the rows of S.
LEMMA QuietDone ==
    ASSUME TypeOK, QuietInv, NEW p \in Procs, Done(p),
           NEW S, NoteContention(p, S),
           MockProvider = FALSE => finalizers' = {},
           \A r \in Reservations \ S :
             /\ status'[r] = status[r] /\ payment'[r] = payment[r]
             /\ attempts'[r] = attempts[r],
           \A r \in S : r \in Reservations \ contended => RowQuiet(r)'
    PROVE  QuietInv'
<1>1. \A q \in Procs \ {p} :
         /\ at'[q] = at[q] /\ req'[q] = req[q] /\ saw'[q] = saw[q]
         /\ sel'[q] = sel[q] /\ plan'[q] = plan[q]
  BY DEF Done, TypeOK, SessionsOK
<1>2. InHand(p)' = {} /\ \A r : Current(p, r)'
  BY IdleCurrent DEF TypeOK
<1>3. \A r \in Reservations \ contended' : RowQuiet(r)'
  <2> SUFFICES ASSUME NEW r \in Reservations \ contended' PROVE RowQuiet(r)'
    OBVIOUS
  <2>1. r \notin contended
    BY Noted
  <2>2. CASE r \in S
    BY <2>1, <2>2
  <2>3. CASE r \notin S
    BY <2>1, <2>3, RowsStayQuiet DEF QuietInv
  <2> QED
    BY <2>2, <2>3
<1> QED
  BY <1>1, <1>2, <1>3, QuietFrame

\* What a session of one process says is what the row says.
LEMMA LoadedIsCurrent ==
    ASSUME QuietInv, NEW p \in Procs, req[p] # None,
           req[p].r \in Reservations \ contended
    PROVE  Loaded(p) = status[req[p].r] /\ RowQuiet(req[p].r)
BY DEF QuietInv, Current, Loaded

\* p decides: what it decides must suit the row, unless that is contended.
LEMMA QuietDecide ==
    ASSUME TypeOK, QuietInv, NEW p \in Procs, req[p] # None, at[p] # "idle",
           NEW pl, Decide(p, pl),
           req[p].r \in Reservations \ contended =>
             PlanSafe(p)' /\ (WebhookStatuses = {} => PlanTells(p)')
    PROVE  QuietInv'
<1>1. /\ UNCHANGED << status, payment, attempts, finalizers, req, saw, sel,
                      contended >>
      /\ at'[p] = "decided"
      /\ \A q \in Procs \ {p} :
           /\ at'[q] = at[q] /\ req'[q] = req[q] /\ saw'[q] = saw[q]
           /\ sel'[q] = sel[q] /\ plan'[q] = plan[q]
  BY DEF Decide, rows, TypeOK, SessionsOK
<1>2. NoteContention(p, {})
  BY <1>1, NothingNoted
<1>3. ASSUME NEW r \in Reservations \ contended'
      PROVE  RowQuiet(r)' /\ Current(p, r)'
  <2>1. RowQuiet(r)'
    BY <1>1, RowsStayQuiet DEF QuietInv
  <2>2. Current(p, r)
    BY <1>1 DEF QuietInv
  <2>3. Current(p, r)'
    BY <1>1, <2>2 DEF Current
  <2> QED
    BY <2>1, <2>3
<1>4. MockProvider = FALSE => finalizers' = {}
  BY <1>1 DEF QuietInv
<1> QED
  BY <1>1, <1>2, <1>3, <1>4, QuietFrame

----------------------------------------------------------------------------
\* Each handler's decision suits the row it has loaded

LEMMA StartPlanSuits ==
    ASSUME TypeOK, QuietInv, NEW p \in Procs, StartDecided(p)
    PROVE  QuietInv'
<1> DEFINE r == req[p].r
           pl == [ status  |-> Changed(Loaded(p), "pending_payment"),
                   payment |-> Changed(payment[r], "pending"),
                   outcome |-> "pending",
                   row     |-> 0,
                   insert  |-> TRUE,
                   touch   |-> SetsAttemptedAt("start", stamp[r]),
                   checked |-> TRUE ]
<1>1. /\ Decide(p, pl) /\ IsRequest(p, "start") /\ ~ReusesAttempt(p)
      /\ Loaded(p) \in { "draft", "pending_payment" }
  BY DEF StartDecided
<1>2. /\ pl.status = Changed(Loaded(p), "pending_payment")
      /\ pl.payment = Changed(payment[r], "pending") /\ pl.insert
  OBVIOUS
<1> HIDE DEF pl
<1>3. req[p] # None /\ at[p] # "idle"
  BY <1>1 DEF IsRequest, Ready
<1>4. ASSUME r \in Reservations \ contended
      PROVE  PlanSafe(p)' /\ (WebhookStatuses = {} => PlanTells(p)')
  <2>1. Loaded(p) = status[r] /\ RowQuiet(r)
    BY <1>3, <1>4, LoadedIsCurrent
  <2>2. /\ plan'[p] = pl
        /\ UNCHANGED << status, payment, attempts, req >>
    BY <1>1 DEF Decide, rows, TypeOK, SessionsOK
  <2>3. StatusToBe(p)' = "pending_payment" /\ PaymentToBe(p)' = "pending"
    BY <1>2, <2>1, <2>2 DEF StatusToBe, PaymentToBe, Written, Changed
  <2>4. ~MoneyIn(payment[r]) /\ status[r] \in { "draft", "pending_payment" }
    BY <1>1, <2>1 DEF RowQuiet
  <2>5. PlanSafe(p)'
    BY <2>2, <2>3, <2>4 DEF PlanSafe, MoneyIn
  <2>6. ASSUME WebhookStatuses = {} PROVE PlanTells(p)'
    <3>1. AttemptStory(r)
      BY <2>1, <2>6 DEF RowQuiet
    <3>2. \A i \in DOMAIN attempts[r] : ~InFlight(r, i)
      <4>1. CASE status[r] = "draft"
        BY <3>1, <4>1 DEF AttemptStory
      <4>2. CASE status[r] = "pending_payment"
        <5>1. ~LatestPending(r)
          BY <1>1, <2>1, <4>2 DEF ReusesAttempt
        <5>2. attempts[r] \in Seq(Attempt)
          BY <1>4 DEF TypeOK, RowsOK
        <5> QED
          BY <3>1, <5>1, <5>2 DEF AttemptStory, InFlight, LatestPending
      <4> QED
        BY <2>4, <4>1, <4>2
    <3> QED
      BY <1>2, <2>2, <2>3, <3>2 DEF PlanTells, InFlight, MoneyIn
  <2> QED
    BY <2>5, <2>6
<1> QED
  BY <1>1, <1>3, <1>4, QuietDecide

LEMMA ManualPlanSuits ==
    ASSUME TypeOK, QuietInv, NEW p \in Procs, req[p] # None, at[p] # "idle",
           NEW st \in { "cancelled", "confirmed" }, NEW pay, NEW c \in BOOLEAN,
           pay = "same" \/ (pay = "refunded" /\ payment[req[p].r] = "paid"),
           Decide(p, ManualPlan(st, pay, c))
    PROVE  QuietInv'
<1> DEFINE r == req[p].r
           pl == ManualPlan(st, pay, c)
<1>1. pl.status = st /\ pl.payment = pay /\ pl.insert = FALSE /\ pl.row = 0
  BY DEF ManualPlan
<1> HIDE DEF pl
<1>2. plan'[p] = pl /\ UNCHANGED << status, payment, attempts, req >>
  BY DEF pl, Decide, rows, TypeOK, SessionsOK
<1>3. StatusToBe(p)' = st /\ PaymentToBe(p)' = Written(pay, payment[r])
  BY <1>1, <1>2 DEF StatusToBe, PaymentToBe, Written
<1>4. MoneyIn(PaymentToBe(p)') <=> MoneyIn(payment[r])
  BY <1>3 DEF MoneyIn, Written
<1>5. PlanSafe(p)'
  BY <1>2, <1>3, <1>4 DEF PlanSafe, MoneyIn
<1>6. PlanTells(p)'
  BY <1>1, <1>2, <1>3, <1>4 DEF PlanTells, MoneyIn
<1> QED
  BY <1>5, <1>6, QuietDecide DEF pl

LEMMA FinalizePlanSuits ==
    ASSUME WebhookStatuses = {} \/ MockProvider = FALSE,
           TypeOK, QuietInv, NEW p \in Procs, NEW t \in finalizers,
           NEW s \in { "paid", "failed" }, FinalizeDecided(p, t, s)
    PROVE  QuietInv'
<1> DEFINE r == t[1]
           final == IF Closed(r) THEN "failed" ELSE s
           st == IF Closed(r) THEN "same" ELSE Changed(status[r], FinalTarget(s))
<1>1. WebhookStatuses = {} /\ t \in Reservations \X Nat
      /\ t[2] \in DOMAIN attempts[r]
  BY DEF QuietInv, TypeOK, RowsOK
<1>2. r \in Reservations /\ t[2] \in Nat /\ attempts[r] \in Seq(Attempt)
      /\ status[r] \in ReservationStatus
  BY <1>1 DEF TypeOK, RowsOK
<1>3. /\ at[p] = "idle" /\ at'[p] = "decided"
      /\ req'[p] # None /\ req'[p].r = r
      /\ plan'[p].status = st /\ plan'[p].payment = Changed(payment[r], final)
      /\ plan'[p].outcome = final /\ plan'[p].row = t[2]
      /\ plan'[p].insert = FALSE
      /\ Closed(r) \/ CanMove(status[r], FinalTarget(s))
      /\ InFlight(r, t[2])
      /\ UNCHANGED << status, payment, attempts, saw, sel >>
      /\ finalizers' \subseteq finalizers
      /\ contended' = contended
      /\ \A q \in Procs \ {p} :
           /\ at'[q] = at[q] /\ req'[q] = req[q] /\ saw'[q] = saw[q]
           /\ sel'[q] = sel[q] /\ plan'[q] = plan[q]
  <2>1. /\ req'[p] = [ op |-> "finalize", r |-> r, key |-> None, row |-> t[2],
                       event |-> None ]
        /\ at[p] = "idle" /\ at'[p] = "decided"
        /\ plan'[p] = [ status  |-> st,
                        payment |-> Changed(payment[r], final),
                        outcome |-> final, row |-> t[2], insert |-> FALSE,
                        touch |-> FALSE, checked |-> r \notin unchecked ]
        /\ UNCHANGED << status, payment, attempts, saw, sel >>
        /\ finalizers' \subseteq finalizers /\ contended' = contended
        /\ Closed(r) \/ CanMove(status[r], FinalTarget(s))
        /\ Unsettled(t)
        /\ \A q \in Procs \ {p} :
             /\ at'[q] = at[q] /\ req'[q] = req[q] /\ saw'[q] = saw[q]
             /\ sel'[q] = sel[q] /\ plan'[q] = plan[q]
    BY DEF FinalizeDecided, TypeOK, SessionsOK
  <2>2. req'[p] # None
    BY <1>2, <2>1, NoneAssumption DEF Request
  <2> QED
    BY <2>1, <2>2 DEF Unsettled, InFlight
<1>4. NoteContention(p, {})
  BY <1>3, NothingNoted
<1>5. ASSUME NEW q \in Reservations \ contended'
      PROVE  RowQuiet(q)' /\ Current(p, q)'
  <2>1. RowQuiet(q) /\ Current(p, q)
    BY <1>3 DEF QuietInv
  <2>2. RowQuiet(q)'
    BY <1>3, <2>1, RowsStayQuiet
  <2>3. saw'[p] = None /\ (q \in sel'[p] => status'[q] = "pending_payment")
    BY <1>3, <2>1 DEF Current
  <2>4. ASSUME r = q PROVE PlanSafe(p)' /\ PlanTells(p)'
    <3>1. AttemptStory(r) /\ ~MoneyIn(payment[r])
      BY <1>1, <1>3, <2>1, <2>4 DEF RowQuiet, AttemptStory
    <3>2. PaymentToBe(p)' = final
      BY <1>3 DEF PaymentToBe, Written, Changed
    <3>3. StatusToBe(p)' = IF Closed(r) THEN status[r] ELSE FinalTarget(s)
      BY <1>3 DEF StatusToBe, Written, Changed, FinalTarget
    <3>4. status[r] = "confirmed" /\ ~Closed(r) => s = "paid"
      BY <1>2, <1>3 DEF CanMove, Transitions, FinalTarget
    <3>5. PlanSafe(p)'
      BY <1>3, <3>1, <3>2, <3>3, <3>4 DEF PlanSafe, MoneyIn, FinalTarget, Closed
    <3>6. t[2] > 0
      BY <1>1, <1>2
    <3>7. PlanTells(p)'
      BY <1>1, <1>3, <3>6 DEF PlanTells, InFlight
    <3> QED
      BY <3>5, <3>7
  <2> QED
    BY <1>3, <2>2, <2>3, <2>4 DEF Current
<1>6. \A q \in Reservations \ {} :
        /\ status'[q] = status[q] /\ payment'[q] = payment[q]
        /\ attempts'[q] = attempts[q]
  BY <1>3
<1>7. MockProvider = FALSE => finalizers' = {}
  BY <1>3 DEF QuietInv
<1> QED
  BY <1>3, <1>4, <1>5, <1>6, <1>7, QuietFrame

LEMMA WebhookPlanSuits ==
    ASSUME TypeOK, QuietInv, NEW e \in Events, NEW r \in Reservations,
           NEW k \in Keys \cup {None}, NEW s \in WebhookStatuses,
           WebhookDecided(e, r, k, s)
    PROVE  QuietInv'
<1>0. Loop \in Procs /\ s \in { "paid", "failed", "pending" }
      /\ WebhookStatuses # {}
  BY ModeAssumption DEF Procs
<1>1. /\ at[Loop] = "idle" /\ at'[Loop] = "decided"
      /\ req'[Loop].r = r
      /\ plan'[Loop].status = Changed(status[r], AfterEvent(r, s))
      /\ plan'[Loop].payment = Changed(payment[r], PaymentAfterEvent(r, s))
      /\ UNCHANGED << status, payment, attempts, finalizers, saw, sel,
                      contended >>
      /\ \A q \in Procs \ {Loop} :
           /\ at'[q] = at[q] /\ req'[q] = req[q] /\ saw'[q] = saw[q]
           /\ sel'[q] = sel[q] /\ plan'[q] = plan[q]
  BY <1>0 DEF WebhookDecided, TypeOK, SessionsOK, rows
<1>2. NoteContention(Loop, {})
  BY <1>0, <1>1, NothingNoted
<1>3. ASSUME NEW q \in Reservations \ contended'
      PROVE  RowQuiet(q)' /\ Current(Loop, q)'
  <2>1. RowQuiet(q) /\ Current(Loop, q)
    BY <1>0, <1>1 DEF QuietInv
  <2>2. RowQuiet(q)'
    BY <1>1, <2>1, RowsStayQuiet
  <2>3. saw'[Loop] = None /\ (q \in sel'[Loop] => status'[q] = "pending_payment")
    BY <1>1, <2>1 DEF Current
  <2>4. ASSUME r = q PROVE PlanSafe(Loop)'
    <3>1. StatusToBe(Loop)' = AfterEvent(r, s)
          /\ PaymentToBe(Loop)' = PaymentAfterEvent(r, s)
      <4>1. AfterEvent(r, s) # status[r] => AfterEvent(r, s) # "same"
        BY <1>0 DEF AfterEvent, AfterPaid, AfterFailed, AfterPending
      <4>2. PaymentAfterEvent(r, s) # payment[r] =>
              PaymentAfterEvent(r, s) # "same"
        BY <1>0 DEF PaymentAfterEvent
      <4> QED
        BY <1>1, <4>1, <4>2 DEF StatusToBe, PaymentToBe, Written, Changed
    <3>2. MoneyIn(payment[r]) <=> TerminalPaid(r)
      BY DEF MoneyIn, TerminalPaid
    <3>3. MoneyIn(payment[r]) => status[r] \notin { "draft", "pending_payment" }
      BY <2>1, <2>4 DEF RowQuiet
    <3>4. /\ MoneyIn(PaymentAfterEvent(r, s)) =>
               AfterEvent(r, s) \notin { "draft", "pending_payment" }
          /\ MoneyIn(payment[r]) => MoneyIn(PaymentAfterEvent(r, s))
          /\ status[r] = "confirmed" => AfterEvent(r, s) = "confirmed"
      BY <1>0, <3>2, <3>3
         DEF MoneyIn, PaymentAfterEvent, AfterEvent, AfterPaid, AfterFailed,
             AfterPending
    <3> QED
      BY <1>1, <3>1, <3>4 DEF PlanSafe, MoneyIn
  <2> QED
    BY <1>0, <1>1, <2>2, <2>3, <2>4 DEF Current
<1>4. MockProvider = FALSE => finalizers' = {}
  BY <1>1 DEF QuietInv
<1>5. \A q \in Reservations \ {} :
        /\ status'[q] = status[q] /\ payment'[q] = payment[q]
        /\ attempts'[q] = attempts[q]
  BY <1>1
<1> QED
  BY <1>0, <1>1, <1>2, <1>3, <1>4, <1>5, QuietFrame

----------------------------------------------------------------------------
\* The commits keep what the decisions promised

\* What a step that writes r may do to its guest.
KeepsGuest(r) ==
    /\ MoneyIn(payment[r]) => MoneyIn(payment'[r])
    /\ status[r] = "confirmed" =>
         status'[r] \in { "confirmed", "checked_in", "cancelled" }

LEMMA CommitStory ==
    ASSUME TypeOK, NEW p \in Procs, Commit(p), PlanTells(p),
           NEW r \in Reservations, r = req[p].r, AttemptStory(r)
    PROVE  AttemptStory(r)'
<1> DEFINE old == attempts[r]
<1>1. /\ req[p] \in Request /\ plan[p] \in Plan /\ PlanOK(p)
  BY DEF TypeOK, SessionsOK, Commit, PlanOK
<1>2. /\ r \in Reservations /\ plan[p].row \in Nat
      /\ old \in Seq(Attempt) /\ attempts \in [ Reservations -> Seq(Attempt) ]
      /\ status \in [ Reservations -> ReservationStatus ]
      /\ payment \in [ Reservations -> PaymentStatus ]
  BY <1>1 DEF Request, Plan, TypeOK, RowsOK
<1>3. /\ attempts'[r] = AttemptsWritten(p)
      /\ status'[r] = StatusToBe(p) /\ payment'[r] = PaymentToBe(p)
  BY <1>2 DEF Commit, StatusToBe, PaymentToBe
<1>4. CASE plan[p].insert
  <2> DEFINE a == [ key |-> req[p].key, status |-> plan[p].outcome ]
  <2>1. a \in Attempt
    BY <1>1, <1>4 DEF Attempt, PlanOK
  <2>2. attempts'[r] = Append(old, a)
    BY <1>3, <1>4 DEF AttemptsWritten
  <2> HIDE DEF a
  <2>3. /\ DOMAIN attempts'[r] = 1 .. Len(old) + 1
        /\ Len(attempts'[r]) = Len(old) + 1
        /\ \A i \in DOMAIN old : attempts'[r][i] = old[i]
        /\ \A i \in 1 .. Len(old) + 1 : i = Len(old) + 1 \/ i \in DOMAIN old
    BY <1>2, <2>1, <2>2
  <2> QED
    BY <1>3, <1>4, <2>3 DEF AttemptStory, InFlight, PlanTells
<1>5. CASE ~plan[p].insert /\ plan[p].row > 0
  <2> DEFINE n == plan[p].row
  <2>1. attempts'[r] = [ old EXCEPT ![n].status = plan[p].outcome ]
    BY <1>3, <1>5 DEF AttemptsWritten
  <2>2. n \in DOMAIN old /\ InFlight(r, n) /\ plan[p].outcome # "pending"
    BY <1>5 DEF PlanTells
  <2>3. old[n] \in Attempt
    BY <1>2, <2>2
  <2>4. /\ DOMAIN attempts'[r] = DOMAIN old
        /\ attempts'[r][n].status = plan[p].outcome
        /\ \A i \in DOMAIN old : i # n => attempts'[r][i] = old[i]
    BY <1>2, <2>1, <2>2, <2>3 DEF Attempt
  <2>5. \A i \in DOMAIN old : InFlight(r, i) => i = n
    BY <2>2 DEF AttemptStory
  <2>6. \A i \in DOMAIN attempts'[r] : attempts'[r][i].status # "pending"
    BY <2>2, <2>4, <2>5 DEF InFlight
  <2> QED
    BY <2>6 DEF AttemptStory, InFlight
<1>6. CASE ~plan[p].insert /\ plan[p].row = 0
  <2>1. attempts'[r] = old
    BY <1>3, <1>6 DEF AttemptsWritten
  <2>2. StatusToBe(p) # "draft" /\ (MoneyIn(PaymentToBe(p)) => MoneyIn(payment[r]))
    BY <1>6 DEF PlanTells
  <2> QED
    BY <1>3, <2>1, <2>2 DEF AttemptStory, InFlight, MoneyIn
<1> QED
  BY <1>2, <1>4, <1>5, <1>6

LEMMA CommitQuiet ==
    ASSUME TypeOK, QuietInv, NEW p \in Procs, Commit(p)
    PROVE  /\ QuietInv'
           /\ \A r \in Reservations \ contended : KeepsGuest(r)
<1>1. /\ req[p] \in Request /\ plan[p] \in Plan /\ at[p] = "decided"
      /\ req[p] # None /\ PlanOK(p)
  BY DEF TypeOK, SessionsOK, Commit, PlanOK
<1>0. PICK r \in Reservations : r = req[p].r
  BY <1>1 DEF Request
<1>2. /\ attempts \in [ Reservations -> Seq(Attempt) ]
      /\ status \in [ Reservations -> ReservationStatus ]
      /\ payment \in [ Reservations -> PaymentStatus ]
  BY <1>0, <1>1 DEF InHand, TypeOK, RowsOK
<1>3. /\ status'[r] = StatusToBe(p) /\ payment'[r] = PaymentToBe(p)
      /\ \A q \in Reservations \ {r} :
           /\ status'[q] = status[q] /\ payment'[q] = payment[q]
           /\ attempts'[q] = attempts[q]
  BY <1>0, <1>2 DEF Commit, StatusToBe, PaymentToBe
<1>4. ASSUME r \notin contended PROVE RowQuiet(r)' /\ KeepsGuest(r)
  <2>1. /\ PlanSafe(p) /\ (WebhookStatuses = {} => PlanTells(p))
        /\ WebhookStatuses = {} => AttemptStory(r)
    BY <1>0, <1>1, <1>4 DEF QuietInv, Current, RowQuiet
  <2>2. WebhookStatuses = {} => AttemptStory(r)'
    BY <1>0, <2>1, CommitStory
  <2> QED
    BY <1>0, <1>3, <2>1, <2>2 DEF RowQuiet, PlanSafe, KeepsGuest, MoneyIn
<1>5. ASSUME NEW q \in Reservations \ contended, q # r
      PROVE  RowQuiet(q)' /\ KeepsGuest(q)
  BY <1>3, <1>5, RowsStayQuiet DEF QuietInv, KeepsGuest
<1>6. MockProvider = FALSE => finalizers' = {}
  BY ModeAssumption DEF QuietInv, Commit
<1>7. Done(p) /\ NoteContention(p, {r})
  BY <1>0 DEF Commit
<1>8. QuietInv'
  BY <1>3, <1>4, <1>6, <1>7, QuietDone
<1> QED
  BY <1>4, <1>5, <1>8

LEMMA SweepQuiet ==
    ASSUME TypeOK, QuietInv, NEW p \in Procs, SweepCommit(p)
    PROVE  /\ QuietInv'
           /\ \A r \in Reservations \ contended : KeepsGuest(r)
<1>1. /\ \A q \in Procs \ {p} :
           /\ at'[q] = at[q] /\ req'[q] = req[q] /\ saw'[q] = saw[q]
           /\ sel'[q] = sel[q] /\ plan'[q] = plan[q]
      /\ UNCHANGED << attempts, finalizers, req >>
      /\ NoteContention(p, sel[p])
      /\ saw'[p] = None /\ sel'[p] = {}
      /\ at'[p] = IF req[p] = None THEN "idle" ELSE "swept"
  BY DEF SweepCommit, TypeOK, SessionsOK
<1>4. ASSUME NEW r \in Reservations \ contended
      PROVE  RowQuiet(r)' /\ Current(p, r)' /\ KeepsGuest(r)
  <2>1. RowQuiet(r) /\ Current(p, r)
    BY DEF QuietInv
  <2>2. Current(p, r)'
    BY <1>1 DEF Current
  <2>3. CASE r \in sel[p]
    <3>1. status[r] = "pending_payment" /\ ~MoneyIn(payment[r])
      BY <2>1, <2>3 DEF Current, RowQuiet
    <3>2. /\ status'[r] = "expired" /\ ~MoneyIn(payment'[r])
          /\ attempts'[r] = attempts[r]
      BY <1>1, <2>3, <3>1 DEF SweepCommit, MoneyIn
    <3> QED
      BY <2>1, <2>2, <3>1, <3>2
         DEF RowQuiet, KeepsGuest, AttemptStory, InFlight, MoneyIn
  <2>4. CASE r \notin sel[p]
    <3>1. UNCHANGED << status[r], payment[r], attempts[r] >>
      BY <1>1, <2>4 DEF SweepCommit
    <3> QED
      BY <2>1, <2>2, <3>1, RowsStayQuiet DEF KeepsGuest
  <2> QED
    BY <2>3, <2>4
<1>5. \A r \in Reservations \ sel[p] :
        /\ status'[r] = status[r] /\ payment'[r] = payment[r]
        /\ attempts'[r] = attempts[r]
  BY <1>1 DEF SweepCommit
<1>6. MockProvider = FALSE => finalizers' = {}
  BY <1>1 DEF QuietInv
<1>7. \A r \in Reservations \ contended' : r \notin contended
  BY <1>1, Noted
<1>8. QuietInv'
  BY <1>1, <1>4, <1>5, <1>6, <1>7, QuietFrame
<1> QED
  BY <1>4, <1>8

LEMMA UnavailableQuiet ==
    ASSUME TypeOK, QuietInv, NEW p \in Procs, StartUnavailable(p)
    PROVE  /\ QuietInv'
           /\ \A r \in Reservations \ contended : KeepsGuest(r)
<1>1. /\ req[p] # None /\ req[p] \in Request /\ Loaded(p) = "draft"
      /\ status' = [ status EXCEPT ![req[p].r] = "expired" ]
      /\ UNCHANGED << payment, attempts, finalizers >>
      /\ Done(p) /\ NoteContention(p, { req[p].r })
  BY DEF StartUnavailable, IsRequest, StartBlocked, TypeOK, SessionsOK
<1>0. PICK r \in Reservations : r = req[p].r
  BY <1>1 DEF Request
<1>2. status \in [ Reservations -> ReservationStatus ]
  BY DEF TypeOK, RowsOK
<1>3. ASSUME r \notin contended PROVE RowQuiet(r)' /\ KeepsGuest(r)
  <2>1. status[r] = "draft" /\ RowQuiet(r)
    BY <1>0, <1>1, <1>3, LoadedIsCurrent
  <2>2. status'[r] = "expired" /\ payment'[r] = payment[r]
        /\ attempts'[r] = attempts[r]
    BY <1>0, <1>1, <1>2
  <2> QED
    BY <2>1, <2>2 DEF RowQuiet, KeepsGuest, AttemptStory, InFlight, MoneyIn
<1>4. \A q \in Reservations \ {r} :
        /\ status'[q] = status[q] /\ payment'[q] = payment[q]
        /\ attempts'[q] = attempts[q]
  BY <1>0, <1>1, <1>2
<1>5. ASSUME NEW q \in Reservations \ contended, q # r
      PROVE  RowQuiet(q)' /\ KeepsGuest(q)
  BY <1>4, <1>5, RowsStayQuiet DEF QuietInv, KeepsGuest
<1>6. MockProvider = FALSE => finalizers' = {}
  BY <1>1 DEF QuietInv
<1>7. NoteContention(p, {r}) /\ Done(p)
  BY <1>0, <1>1
<1>8. QuietInv'
  BY <1>3, <1>4, <1>6, <1>7, QuietDone
<1> QED
  BY <1>3, <1>5, <1>8

\* A step that writes no row, whoever takes it.
LEMMA NothingWritten ==
    ASSUME UNCHANGED << status, payment >>
    PROVE  \A r \in Reservations \ contended : KeepsGuest(r)
BY DEF KeepsGuest, MoneyIn

LEMMA PickedUpQuiet ==
    ASSUME TypeOK, QuietInv, NEW p \in Procs, SweepSelect(p) \/ Requests(p)
    PROVE  QuietInv' /\ UNCHANGED << status, payment >>
<1>1. /\ UNCHANGED << status, payment, attempts, finalizers, plan, contended >>
      /\ at'[p] # "decided"
      /\ \A q \in Procs \ {p} :
           /\ at'[q] = at[q] /\ req'[q] = req[q] /\ saw'[q] = saw[q]
           /\ sel'[q] = sel[q] /\ plan'[q] = plan[q]
  <2>1. CASE SweepSelect(p)
    BY <2>1 DEF SweepSelect, TypeOK, SessionsOK, rows
  <2>2. CASE Requests(p)
    <3>1. PICK op, r, k : Open(p, op, r, k)
      BY <2>2 DEF Requests
    <3> QED
      BY <3>1 DEF Open, TypeOK, SessionsOK, rows
  <2> QED
    BY <2>1, <2>2
<1>2. NoteContention(p, {})
  BY <1>1, NothingNoted
<1>3. ASSUME NEW r \in Reservations \ contended'
      PROVE  RowQuiet(r)' /\ Current(p, r)'
  <2>1. RowQuiet(r) /\ Current(p, r)
    BY <1>1 DEF QuietInv
  <2>2. RowQuiet(r)'
    BY <1>1, <2>1, RowsStayQuiet
  <2>3. CASE SweepSelect(p)
    <3>1. /\ at'[p] = "sweeping" /\ sel'[p] = AllOverdue
          /\ UNCHANGED << req, saw, status >>
      BY <2>3 DEF SweepSelect, TypeOK, SessionsOK, rows
    <3>2. r \in sel'[p] => status[r] = "pending_payment"
      BY <3>1 DEF AllOverdue, Overdue
    <3> QED
      BY <2>1, <2>2, <3>1, <3>2 DEF Current
  <2>4. CASE Requests(p)
    <3>1. PICK op, q, k : Open(p, op, q, k)
      BY <2>4 DEF Requests
    <3>2. /\ at'[p] = "opened" /\ UNCHANGED << sel, status >>
          /\ req'[p].r = q
          /\ saw'[p] = IF op = "confirm" THEN None ELSE status[q]
      BY <3>1 DEF Open, TypeOK, SessionsOK, rows
    <3> QED
      BY <2>1, <2>2, <3>2 DEF Current
  <2> QED
    BY <2>3, <2>4
<1>4. MockProvider = FALSE => finalizers' = {}
  BY <1>1 DEF QuietInv
<1>5. \A r \in Reservations \ {} :
        /\ status'[r] = status[r] /\ payment'[r] = payment[r]
        /\ attempts'[r] = attempts[r]
  BY <1>1
<1> QED
  BY <1>1, <1>2, <1>3, <1>4, <1>5, QuietFrame

\* partner_confirm announces what it is about to reopen.
LEMMA ReopenedQuiet ==
    ASSUME TypeOK, QuietInv, NEW p \in Procs, ConfirmReopens(p)
    PROVE  /\ QuietInv'
           /\ \A r \in Reservations \ contended : KeepsGuest(r)
<1>1. /\ UNCHANGED << status, payment, attempts, finalizers, contended >>
      /\ req[p] # None /\ saw[p] = None
      /\ at'[p] = "swept" /\ saw'[p] = status[req[p].r]
      /\ req'[p] = req[p] /\ sel'[p] = sel[p]
      /\ \A q \in Procs \ {p} :
           /\ at'[q] = at[q] /\ req'[q] = req[q] /\ saw'[q] = saw[q]
           /\ sel'[q] = sel[q] /\ plan'[q] = plan[q]
  BY DEF ConfirmReopens, Loaded, IsRequest, rows, TypeOK, SessionsOK
<1>2. NoteContention(p, {})
  BY <1>1, NothingNoted
<1>3. ASSUME NEW r \in Reservations \ contended'
      PROVE  RowQuiet(r)' /\ Current(p, r)'
  <2>1. RowQuiet(r) /\ Current(p, r)
    BY <1>1 DEF QuietInv
  <2>2. RowQuiet(r)'
    BY <1>1, <2>1, RowsStayQuiet
  <2>3. Current(p, r)'
    BY <1>1, <2>1 DEF Current
  <2> QED
    BY <2>2, <2>3
<1>4. MockProvider = FALSE => finalizers' = {}
  BY <1>1 DEF QuietInv
<1>5. \A r \in Reservations \ {} :
        /\ status'[r] = status[r] /\ payment'[r] = payment[r]
        /\ attempts'[r] = attempts[r]
  BY <1>1
<1>6. QuietInv'
  BY <1>1, <1>2, <1>3, <1>4, <1>5, QuietFrame
<1> QED
  BY <1>1, <1>6, NothingWritten

LEMMA QuietInvStep ==
    ASSUME WebhookStatuses = {} \/ MockProvider = FALSE,
           TypeOK, QuietInv, [Next]_vars
    PROVE  QuietInv' /\ \A r \in Reservations \ contended : KeepsGuest(r)
<1> DEFINE Goal == QuietInv' /\ \A r \in Reservations \ contended : KeepsGuest(r)
<1>1. ASSUME NEW p \in Procs, SweepSelect(p) \/ Requests(p) PROVE Goal
  BY <1>1, PickedUpQuiet, NothingWritten
<1>2. ASSUME UNCHANGED << status, payment, attempts, local, contended >>,
             finalizers' \subseteq finalizers
      PROVE  Goal
  <2>1. \A r : RowQuiet(r) => RowQuiet(r)'
    BY <1>2 DEF RowQuiet, AttemptStory, InFlight
  <2>2. \A p, r : Current(p, r) => Current(p, r)'
    BY <1>2 DEF local, Current, PlanSafe, PlanTells, StatusToBe, PaymentToBe,
                InFlight
  <2>3. QuietInv'
    BY <1>2, <2>1, <2>2 DEF QuietInv
  <2> QED
    BY <1>2, <2>3, NothingWritten
<1>3. ASSUME NEW p \in Procs, Tasks(p) PROVE Goal
  <2>1. PICK t \in finalizers, s \in { "paid", "failed" } :
              FinalizeDecided(p, t, s) \/ FinalizeDropped(p, t, s)
    BY <1>3 DEF Tasks
  <2>2. CASE FinalizeDecided(p, t, s)
    <3>1. UNCHANGED << status, payment >>
      BY <2>2 DEF FinalizeDecided
    <3> QED
      BY <2>2, <3>1, FinalizePlanSuits, NothingWritten
  <2>3. CASE FinalizeDropped(p, t, s)
    BY <1>2, <2>3 DEF FinalizeDropped
  <2> QED
    BY <2>1, <2>2, <2>3
<1>4. ASSUME NEW p \in Procs, Proceed(p) PROVE Goal
  <2>1. CASE SweepCommit(p)
    BY <2>1, SweepQuiet
  <2>2. CASE StartRefused(p) \/ CancelRefused(p) \/ ConfirmRefused(p)
             \/ CommitLost(p)
    <3>1. /\ Done(p)
          /\ UNCHANGED << status, payment, attempts, finalizers, contended >>
      BY <2>2 DEF StartRefused, CancelRefused, ConfirmRefused, CommitLost,
                  Refuse, rows
    <3>2. NoteContention(p, {})
      BY <3>1, NothingNoted
    <3>3. MockProvider = FALSE => finalizers' = {}
      BY <3>1 DEF QuietInv
    <3>4. QuietInv'
      BY <3>1, <3>2, <3>3, QuietDone
    <3> QED
      BY <3>1, <3>4, NothingWritten
  <2>3. CASE StartUnavailable(p)
    BY <2>3, UnavailableQuiet
  <2>4. CASE StartDecided(p)
    <3>1. UNCHANGED << status, payment >>
      BY <2>4 DEF StartDecided, Decide, rows
    <3> QED
      BY <2>4, <3>1, StartPlanSuits, NothingWritten
  <2>5. ASSUME NEW refundable \in BOOLEAN, CancelDecided(p, refundable)
        PROVE  Goal
    <3> DEFINE pay == IF RefundDue(req[p].r) /\ refundable
                      THEN "refunded" ELSE "same"
    <3>1. /\ Decide(p, ManualPlan("cancelled", pay, FALSE))
          /\ req[p] # None /\ at[p] # "idle"
      BY <2>5 DEF CancelDecided, IsRequest, Ready
    <3>2. pay = "same" \/ (pay = "refunded" /\ payment[req[p].r] = "paid")
      BY DEF RefundDue
    <3> HIDE DEF pay
    <3>3. UNCHANGED << status, payment >>
      BY <3>1 DEF Decide, rows
    <3> QED
      BY <3>1, <3>2, <3>3, ManualPlanSuits, NothingWritten
  <2>6. CASE ConfirmDecided(p)
    <3>1. /\ Decide(p, ManualPlan("confirmed", "same", TRUE))
          /\ req[p] # None /\ at[p] # "idle"
      BY <2>6 DEF ConfirmDecided, IsRequest, Ready
    <3>2. UNCHANGED << status, payment >>
      BY <3>1 DEF Decide, rows
    <3> QED
      BY <3>1, <3>2, ManualPlanSuits, NothingWritten
  <2>7. CASE Commit(p)
    BY <2>7, CommitQuiet
  <2>8. CASE ConfirmReopens(p)
    BY <2>8, ReopenedQuiet
  <2> QED
    BY <1>4, <2>1, <2>2, <2>3, <2>4, <2>5, <2>6, <2>7, <2>8 DEF Proceed
<1>5. CASE Webhooks
  <2>1. PICK e \in Events, r \in Reservations, k \in Keys \cup {None},
             s \in WebhookStatuses : WebhookDecided(e, r, k, s)
    BY <1>5 DEF Webhooks
  <2>2. UNCHANGED << status, payment >>
    BY <2>1 DEF WebhookDecided, rows
  <2> QED
    BY <2>1, <2>2, WebhookPlanSuits, NothingWritten
<1>6. CASE \E r \in Reservations : Elapse(r)
  BY <1>2, <1>6 DEF Elapse
<1>7. CASE Restart
  <2>1. /\ UNCHANGED << status, payment, attempts, contended >>
        /\ finalizers' = {}
        /\ \A p \in Procs : /\ at'[p] = "idle" /\ req'[p] = None
                            /\ saw'[p] = None /\ sel'[p] = {}
    BY <1>7 DEF Restart
  <2>2. \A p \in Procs : \A r : Current(p, r)'
    BY <2>1 DEF Current
  <2>3. \A r \in Reservations \ contended : RowQuiet(r)'
    BY <2>1, RowsStayQuiet DEF QuietInv
  <2>4. QuietInv'
    BY <2>1, <2>2, <2>3 DEF QuietInv
  <2> QED
    BY <2>1, <2>4, NothingWritten
<1>8. CASE UNCHANGED vars
  BY <1>2, <1>8 DEF vars, rows
<1> QED
  BY <1>1, <1>3, <1>4, <1>5, <1>6, <1>7, <1>8 DEF Next

LEMMA QuietInvInit == Init => QuietInv
<1> SUFFICES ASSUME Init PROVE QuietInv
  OBVIOUS
<1>1. \A p \in Procs : \A r : Current(p, r)
  BY DEF Init, Current
<1>2. \A r \in Reservations : RowQuiet(r)
  BY DEF Init, RowQuiet, MoneyIn, AttemptStory
<1>3. finalizers = {}
  BY DEF Init
<1> QED
  BY <1>1, <1>2, <1>3 DEF QuietInv

LEMMA QuietInvHolds ==
    ASSUME WebhookStatuses = {} \/ MockProvider = FALSE
    PROVE  Spec => []QuietInv
<1>1. TypeOK /\ QuietInv /\ [Next]_vars => QuietInv'
  BY QuietInvStep
<1> QED
  BY <1>1, QuietInvInit, TypeCorrect, PTL DEF Spec

\* However many threads and sweeps race, in mock mode as with a provider: a
\* guest whose reservation was not written behind a handler's back is never
\* asked to pay a second time, keeps the money on record and, once confirmed,
\* the room: what races take away, they take from reservations that a process
\* wrote while another one was at work on what it had read of them.
THEOREM QuietGuestsAlwaysKeep ==
    ASSUME WebhookStatuses = {} \/ MockProvider = FALSE
    PROVE  Spec => QuietGuestsKeep
<1>1. TypeOK /\ QuietInv /\ QuietInv' /\ [Next]_vars
        => [QuietPaidIsNotOpen' /\ QuietStep]_vars
  <2> SUFFICES ASSUME TypeOK, QuietInv, QuietInv', [Next]_vars
               PROVE  QuietPaidIsNotOpen' /\ QuietStep
    OBVIOUS
  <2>1. \A r \in Reservations \ contended : KeepsGuest(r)
    BY QuietInvStep
  <2>2. QuietPaidIsNotOpen'
    BY DEF QuietInv, RowQuiet, MoneyIn, QuietPaidIsNotOpen
  <2> QED
    BY <2>1, <2>2 DEF QuietStep, KeepsGuest, MoneyIn
<1> QED
  BY <1>1, QuietInvHolds, TypeCorrect, PTL DEF Spec, QuietGuestsKeep

----------------------------------------------------------------------------
\* Money and attempts, in mock mode

\* The inductive invariant behind MoneyIsFromAttempts: an attempt that is to be
\* settled is pending, and has one task or one process that settles it and no
\* second one; and whoever records a payment settles the attempt it comes from,
\* or gives back what an attempt brought.
Settles(p) == at[p] = "decided" /\ req[p].op = "finalize"
Task(p) == << req[p].r, plan[p].row >>

PlanSettles(p) ==
    /\ ~plan[p].insert
    /\ plan[p].row \in DOMAIN attempts[req[p].r] /\ Unsettled(Task(p))
    /\ Task(p) \notin finalizers
    /\ plan[p].payment \in { "paid", "refunded" } =>
         plan[p].payment = "paid" /\ plan[p].outcome = "paid"

PlanStarts(p) ==
    /\ plan[p].insert /\ plan[p].outcome = "pending"
    /\ plan[p].payment \notin { "paid", "refunded" }

PlanManual(p) ==
    /\ ~plan[p].insert /\ plan[p].row = 0
    /\ plan[p].payment \in { "paid", "refunded" } => PaidBy(req[p].r) # {}

PlanFunded(p) ==
    at[p] = "decided" =>
        IF Settles(p) THEN PlanSettles(p) ELSE PlanStarts(p) \/ PlanManual(p)

MoneyInv ==
    /\ MoneyHasAttempt
    /\ \A t \in finalizers : Unsettled(t)
    /\ \A p \in Procs : PlanFunded(p)
    /\ \A p, q \in Procs :
         Settles(p) /\ Settles(q) /\ Task(p) = Task(q) => p = q

\* The rows of attempts stay, the pending ones of other tasks pending: what p
\* leaves behind, once its own plan and the tasks are looked at.
LEMMA MoneyFrame ==
    ASSUME TypeOK, MoneyInv, NEW p \in Procs,
           \A q \in Procs \ {p} :
             at'[q] = at[q] /\ req'[q] = req[q] /\ plan'[q] = plan[q],
           \A q \in Procs \ {p} : Settles(q) =>
             /\ plan[q].row \in DOMAIN attempts'[req[q].r]
             /\ attempts'[req[q].r][plan[q].row].status = "pending"
             /\ Task(q) \notin finalizers'
             /\ Settles(p)' => Task(p)' # Task(q),
           \A r \in Reservations : PaidBy(r) # {} => PaidBy(r)' # {},
           PlanFunded(p)', MoneyHasAttempt',
           \A t \in finalizers' : Unsettled(t)'
    PROVE  MoneyInv'
<1>1. ASSUME NEW q \in Procs \ {p}
      PROVE  /\ Settles(q)' <=> Settles(q)
             /\ Settles(q) => Task(q)' = Task(q)
             /\ PlanFunded(q)'
  <2>1. at'[q] = at[q] /\ req'[q] = req[q] /\ plan'[q] = plan[q]
    OBVIOUS
  <2>2. Settles(q)' <=> Settles(q)
    BY <2>1 DEF Settles
  <2>3. Task(q)' = Task(q)
    BY <2>1 DEF Task
  <2>4. PlanFunded(q)
    BY DEF MoneyInv
  <2>5. CASE Settles(q)
    <3>1. PlanSettles(q)
      BY <2>4, <2>5 DEF PlanFunded, Settles
    <3>2. /\ plan[q].row \in DOMAIN attempts'[req[q].r]
          /\ attempts'[req[q].r][plan[q].row].status = "pending"
          /\ Task(q) \notin finalizers'
      BY <2>5
    <3>3. Unsettled(Task(q))'
      BY <2>1, <3>2 DEF Unsettled, Task
    <3>4. PlanSettles(q)'
      BY <2>1, <2>3, <3>1, <3>2, <3>3 DEF PlanSettles
    <3> QED
      BY <2>2, <2>3, <2>5, <3>4 DEF PlanFunded
  <2>6. CASE ~Settles(q) /\ at[q] = "decided"
    <3>1. PlanStarts(q) \/ PlanManual(q)
      BY <2>4, <2>6 DEF PlanFunded
    <3>2. req[q].r \in Reservations
      BY <2>6 DEF TypeOK, SessionsOK, PlanOK, Request
    <3>3. PlanStarts(q)' \/ PlanManual(q)'
      BY <2>1, <3>1, <3>2 DEF PlanStarts, PlanManual
    <3> QED
      BY <2>2, <2>3, <2>6, <3>3 DEF PlanFunded
  <2>7. CASE ~Settles(q) /\ at[q] # "decided"
    BY <2>1, <2>2, <2>3, <2>7 DEF PlanFunded
  <2> QED
    BY <2>5, <2>6, <2>7
<1>2. ASSUME NEW q1 \in Procs, NEW q2 \in Procs, Settles(q1)', Settles(q2)',
             Task(q1)' = Task(q2)'
      PROVE  q1 = q2
  <2>1. CASE q1 # p /\ q2 # p
    BY <1>1, <1>2, <2>1 DEF MoneyInv
  <2>2. CASE q1 = p /\ q2 # p
    BY <1>1, <1>2, <2>2
  <2>3. CASE q1 # p /\ q2 = p
    BY <1>1, <1>2, <2>3
  <2> QED
    BY <2>1, <2>2, <2>3
<1> QED
  BY <1>1, <1>2 DEF MoneyInv

\* p writes no attempt and no payment, and queues no task.
LEMMA MoneyReads ==
    ASSUME TypeOK, MoneyInv, NEW p \in Procs,
           UNCHANGED << payment, attempts >>, finalizers' \subseteq finalizers,
           \A q \in Procs \ {p} :
             at'[q] = at[q] /\ req'[q] = req[q] /\ plan'[q] = plan[q],
           PlanFunded(p)',
           Settles(p)' => \A q \in Procs \ {p} :
             Settles(q) => Task(p)' # Task(q)
    PROVE  MoneyInv' /\ SettleStep
<1>1. \A r : PaidBy(r)' = PaidBy(r)
  BY DEF PaidBy
<1>2. MoneyHasAttempt'
  BY <1>1 DEF MoneyInv, MoneyHasAttempt
<1>3. \A t \in finalizers' : Unsettled(t)'
  BY DEF MoneyInv, Unsettled
<1>4. ASSUME NEW q \in Procs \ {p}, Settles(q)
      PROVE  /\ plan[q].row \in DOMAIN attempts'[req[q].r]
             /\ attempts'[req[q].r][plan[q].row].status = "pending"
             /\ Task(q) \notin finalizers'
  <2>1. PlanSettles(q)
    BY <1>4 DEF MoneyInv, PlanFunded, Settles
  <2> QED
    BY <2>1 DEF PlanSettles, Unsettled, Task
<1>5. MoneyInv'
  BY <1>1, <1>2, <1>3, <1>4, MoneyFrame
<1> QED
  BY <1>5 DEF SettleStep

\* p finishes, having written neither.
LEMMA MoneyDone ==
    ASSUME TypeOK, MoneyInv, NEW p \in Procs, Done(p),
           UNCHANGED << payment, attempts, finalizers >>
    PROVE  MoneyInv' /\ SettleStep
<1>1. /\ at'[p] = "idle"
      /\ \A q \in Procs \ {p} :
           at'[q] = at[q] /\ req'[q] = req[q] /\ plan'[q] = plan[q]
  BY DEF Done, TypeOK, SessionsOK
<1>2. PlanFunded(p)' /\ ~Settles(p)'
  BY <1>1 DEF PlanFunded, Settles
<1> QED
  BY <1>1, <1>2, MoneyReads

\* A handler decides to start an attempt, or to leave the attempts alone.
LEMMA MoneyDecide ==
    ASSUME TypeOK, MoneyInv, NEW p \in Procs, NEW op, IsRequest(p, op),
           op # "finalize", NEW pl, Decide(p, pl),
           \/ /\ pl.insert /\ pl.outcome = "pending"
              /\ pl.payment \notin { "paid", "refunded" }
           \/ /\ ~pl.insert /\ pl.row = 0
              /\ pl.payment \in { "paid", "refunded" } => PaidBy(req[p].r) # {}
    PROVE  MoneyInv' /\ SettleStep
<1>1. /\ at'[p] = "decided" /\ plan'[p] = pl /\ req' = req
      /\ UNCHANGED << payment, attempts, finalizers >>
      /\ \A q \in Procs \ {p} :
           at'[q] = at[q] /\ req'[q] = req[q] /\ plan'[q] = plan[q]
  BY DEF Decide, rows, TypeOK, SessionsOK
<1>2. ~Settles(p)'
  BY <1>1 DEF IsRequest, Settles
<1>3. PlanStarts(p)' \/ PlanManual(p)'
  BY <1>1 DEF PlanStarts, PlanManual, PaidBy
<1>4. PlanFunded(p)'
  BY <1>2, <1>3 DEF PlanFunded
<1> QED
  BY <1>1, <1>2, <1>4, MoneyReads

\* A thread takes a task, which nobody else has.
LEMMA MoneyFinalize ==
    ASSUME TypeOK, MoneyInv, NEW p \in Procs, NEW t \in finalizers,
           NEW s \in { "paid", "failed" }, FinalizeDecided(p, t, s)
    PROVE  MoneyInv' /\ SettleStep
<1> DEFINE r == t[1]
           final == IF Closed(r) THEN "failed" ELSE s
<1>1. /\ t = << r, t[2] >> /\ t[2] \in DOMAIN attempts[r] /\ t[2] \in Nat
      /\ r \in Reservations
  BY DEF TypeOK, RowsOK
<1>2. /\ at'[p] = "decided"
      /\ req'[p] = [ op |-> "finalize", r |-> r, key |-> None, row |-> t[2],
                     event |-> None ]
      /\ plan'[p].insert = FALSE /\ plan'[p].row = t[2]
      /\ plan'[p].outcome = final
      /\ plan'[p].payment = Changed(payment[r], final)
      /\ UNCHANGED << payment, attempts >>
      /\ finalizers' = finalizers \ {t} /\ Unsettled(t)
      /\ \A q \in Procs \ {p} :
           at'[q] = at[q] /\ req'[q] = req[q] /\ plan'[q] = plan[q]
  BY DEF FinalizeDecided, TypeOK, SessionsOK
<1>3. Settles(p)' /\ Task(p)' = t
  BY <1>1, <1>2 DEF Settles, Task
<1>4. Unsettled(t)'
  BY <1>2 DEF Unsettled
<1>5. PlanSettles(p)'
  BY <1>1, <1>2, <1>3, <1>4 DEF PlanSettles, Changed
<1>6. ASSUME NEW q \in Procs \ {p}, Settles(q) PROVE Task(q) # t
  <2>1. PlanSettles(q)
    BY <1>6 DEF MoneyInv, PlanFunded, Settles
  <2> QED
    BY <2>1 DEF PlanSettles
<1>7. PlanFunded(p)'
  BY <1>3, <1>5 DEF PlanFunded
<1> QED
  BY <1>2, <1>3, <1>6, <1>7, MoneyReads

\* A commit settles its own attempt, appends a new one, or leaves them alone.
LEMMA MoneyCommit ==
    ASSUME TypeOK, MoneyInv, NEW p \in Procs, Commit(p)
    PROVE  MoneyInv' /\ SettleStep
<1>1. /\ req[p] \in Request /\ plan[p] \in Plan /\ at[p] = "decided"
      /\ PlanOK(p) /\ PlanFunded(p)
  BY DEF TypeOK, SessionsOK, Commit, PlanOK, MoneyInv
<1>0. PICK r \in Reservations : r = req[p].r
  BY <1>1 DEF Request
<1> DEFINE old == attempts[r]
           n == plan[p].row
<1>2. /\ old \in Seq(Attempt) /\ attempts \in [ Reservations -> Seq(Attempt) ]
      /\ payment \in [ Reservations -> PaymentStatus ]
      /\ finalizers \subseteq Reservations \X Nat
      /\ \A t \in finalizers : t[2] \in DOMAIN attempts[t[1]]
      /\ n \in Nat
  BY <1>1 DEF TypeOK, RowsOK, Plan
<1>3. /\ attempts'[r] = AttemptsWritten(p)
      /\ payment'[r] = Written(plan[p].payment, payment[r])
      /\ \A q \in Reservations \ {r} :
           attempts'[q] = attempts[q] /\ payment'[q] = payment[q]
      /\ finalizers' = IF req[p].op = "start" /\ MockProvider
                       THEN finalizers \cup { << r, NewRow(r) >> }
                       ELSE finalizers
      /\ Done(p)
  BY <1>0, <1>2 DEF Commit
<1>4. /\ at'[p] = "idle"
      /\ \A q \in Procs \ {p} :
           at'[q] = at[q] /\ req'[q] = req[q] /\ plan'[q] = plan[q]
  BY <1>3 DEF Done, TypeOK, SessionsOK
<1>5. PlanFunded(p)' /\ ~Settles(p)'
  BY <1>4 DEF PlanFunded, Settles
\* What is common to the cases: some rows are kept, and no others are queued.
<1>6. ASSUME \A i \in DOMAIN old :
               /\ i \in DOMAIN attempts'[r]
               /\ attempts'[r][i] = old[i] \/ (Settles(p) /\ i = n),
             plan[p].payment \in { "paid", "refunded" } => PaidBy(r)' # {},
             \A t \in finalizers' : t \notin finalizers =>
               /\ t = << r, Len(old) + 1 >>
               /\ attempts'[r][Len(old) + 1].status = "pending"
      PROVE  MoneyInv' /\ SettleStep
  <2>1. Settles(p) => /\ Unsettled(<< r, n >>) /\ << r, n >> \notin finalizers
                      /\ Task(p) = << r, n >>
    BY <1>0, <1>1 DEF PlanFunded, PlanSettles, Task
  <2>2. SettleStep
    <3> SUFFICES ASSUME NEW q \in Reservations, NEW i \in DOMAIN attempts[q],
                        attempts[q][i].status # "pending"
                 PROVE  attempts'[q][i] = attempts[q][i]
      BY DEF SettleStep
    <3> QED
      BY <1>3, <1>6, <2>1 DEF Unsettled
  <2>3. \A q \in Reservations : PaidBy(q) # {} => PaidBy(q)' # {}
    <3> SUFFICES ASSUME NEW q \in Reservations, NEW i \in DOMAIN attempts[q],
                        attempts[q][i].status = "paid"
                 PROVE  i \in PaidBy(q)'
      BY DEF PaidBy
    <3>1. attempts'[q][i] = attempts[q][i]
      BY <2>2 DEF SettleStep
    <3>2. i \in DOMAIN attempts'[q]
      BY <1>3, <1>6
    <3> QED
      BY <3>1, <3>2 DEF PaidBy
  <2>4. MoneyHasAttempt'
    BY <1>3, <1>6, <2>3 DEF MoneyInv, MoneyHasAttempt, Written
  <2>5. ASSUME NEW t \in finalizers' PROVE Unsettled(t)'
    <3>1. CASE t \in finalizers
      <4>1. /\ t[1] \in Reservations /\ t[2] \in DOMAIN attempts[t[1]]
            /\ t = << t[1], t[2] >>
        BY <1>2, <3>1
      <4>2. attempts'[t[1]][t[2]] = attempts[t[1]][t[2]]
        BY <1>3, <1>6, <2>1, <3>1, <4>1
      <4> QED
        BY <3>1, <4>2 DEF MoneyInv, Unsettled
    <3>2. CASE t \notin finalizers
      BY <1>6, <2>5, <3>2 DEF Unsettled
    <3> QED
      BY <3>1, <3>2
  <2>6. ASSUME NEW q \in Procs \ {p}, Settles(q)
        PROVE  /\ plan[q].row \in DOMAIN attempts'[req[q].r]
               /\ attempts'[req[q].r][plan[q].row].status = "pending"
               /\ Task(q) \notin finalizers'
    <3>1. PlanSettles(q)
      BY <2>6 DEF MoneyInv, PlanFunded, Settles
    <3>2. req[q].r \in Reservations
      BY <2>6 DEF Settles, TypeOK, SessionsOK, PlanOK, Request
    <3>3. /\ plan[q].row \in DOMAIN attempts[req[q].r]
          /\ attempts[req[q].r][plan[q].row].status = "pending"
          /\ Task(q) \notin finalizers
      BY <3>1 DEF PlanSettles, Unsettled, Task
    <3>4. ~(Settles(p) /\ req[q].r = r /\ plan[q].row = n)
      BY <1>0, <2>6 DEF MoneyInv, Task
    <3>5. /\ plan[q].row \in DOMAIN attempts'[req[q].r]
          /\ attempts'[req[q].r][plan[q].row] = attempts[req[q].r][plan[q].row]
      BY <1>3, <1>6, <3>2, <3>3, <3>4
    <3>6. Len(old) + 1 \notin DOMAIN old
      BY <1>2
    <3>7. Task(q) # << r, Len(old) + 1 >>
      BY <3>3, <3>6 DEF Task
    <3> QED
      BY <1>6, <3>3, <3>5, <3>7
  <2>7. MoneyInv'
    BY <1>4, <1>5, <2>3, <2>4, <2>5, <2>6, MoneyFrame
  <2> QED
    BY <2>2, <2>7
<1>7. CASE plan[p].insert
  <2> DEFINE a == [ key |-> req[p].key, status |-> plan[p].outcome ]
  <2>1. PlanStarts(p) /\ ~Settles(p)
    BY <1>1, <1>7 DEF PlanFunded, PlanSettles, PlanManual
  <2>2. a \in Attempt /\ a.status = "pending"
    BY <1>1, <1>7, <2>1 DEF Attempt, PlanOK, PlanStarts
  <2>3. attempts'[r] = Append(old, a)
    BY <1>0, <1>3, <1>7 DEF AttemptsWritten
  <2> HIDE DEF a
  <2>4. /\ DOMAIN attempts'[r] = 1 .. Len(old) + 1
        /\ \A i \in DOMAIN old :
             i \in DOMAIN attempts'[r] /\ attempts'[r][i] = old[i]
        /\ attempts'[r][Len(old) + 1] = a
    BY <1>2, <2>2, <2>3
  <2> QED
    BY <1>3, <1>6, <2>1, <2>2, <2>4 DEF PlanStarts, NewRow
<1>8. CASE ~plan[p].insert
  <2>1. finalizers' = finalizers
    BY <1>1, <1>3, <1>8 DEF PlanOK
  <2>2. CASE Settles(p)
    <3>1. PlanSettles(p)
      BY <1>1, <2>2 DEF PlanFunded
    <3>2. n \in DOMAIN old /\ n > 0
      BY <1>0, <1>2, <3>1 DEF PlanSettles
    <3>3. attempts'[r] = [ old EXCEPT ![n].status = plan[p].outcome ]
      BY <1>0, <1>3, <1>8, <3>2 DEF AttemptsWritten
    <3>4. old[n] \in Attempt
      BY <1>2, <3>2
    <3>5. /\ DOMAIN attempts'[r] = DOMAIN old
          /\ attempts'[r][n].status = plan[p].outcome
          /\ \A i \in DOMAIN old : i # n => attempts'[r][i] = old[i]
      BY <1>2, <3>2, <3>3, <3>4 DEF Attempt
    <3>6. plan[p].payment \in { "paid", "refunded" } => PaidBy(r)' # {}
      BY <3>1, <3>2, <3>5 DEF PlanSettles, PaidBy
    <3> QED
      BY <1>6, <2>1, <2>2, <3>5, <3>6
  <2>3. CASE ~Settles(p)
    <3>1. PlanManual(p)
      BY <1>1, <1>8, <2>3 DEF PlanFunded, PlanStarts
    <3>2. attempts'[r] = old
      BY <1>0, <1>3, <1>8, <3>1 DEF AttemptsWritten, PlanManual
    <3>3. plan[p].payment \in { "paid", "refunded" } => PaidBy(r)' # {}
      BY <1>0, <3>1, <3>2 DEF PlanManual, PaidBy
    <3> QED
      BY <1>6, <2>1, <3>2, <3>3
  <2> QED
    BY <2>2, <2>3
<1> QED
  BY <1>7, <1>8

LEMMA MoneyInvStep ==
    ASSUME WebhookStatuses = {}, TypeOK, MoneyInv, [Next]_vars
    PROVE  MoneyInv' /\ [SettleStep]_vars
<1> DEFINE Goal == MoneyInv' /\ SettleStep
<1>1. ASSUME NEW p \in Procs, at'[p] # "decided",
             UNCHANGED << payment, attempts, finalizers >>,
             \A q \in Procs \ {p} :
               at'[q] = at[q] /\ req'[q] = req[q] /\ plan'[q] = plan[q]
      PROVE  Goal
  <2>1. PlanFunded(p)' /\ ~Settles(p)'
    BY <1>1 DEF PlanFunded, Settles
  <2> QED
    BY <1>1, <2>1, MoneyReads
<1>2. ASSUME NEW p \in Procs, SweepSelect(p) \/ Requests(p) PROVE Goal
  BY <1>1, <1>2 DEF SweepSelect, Requests, Open, rows, TypeOK, SessionsOK
<1>3. ASSUME UNCHANGED << payment, attempts, at, req, plan >>,
             finalizers' \subseteq finalizers
      PROVE  Goal
  <2>1. MoneyInv'
    BY <1>3 DEF MoneyInv, MoneyHasAttempt, PaidBy, Unsettled, PlanFunded,
                Settles, Task, PlanSettles, PlanStarts, PlanManual
  <2> QED
    BY <1>3, <2>1 DEF SettleStep
<1>4. ASSUME NEW p \in Procs, Tasks(p) PROVE Goal
  <2>1. PICK t \in finalizers, s \in { "paid", "failed" } :
              FinalizeDecided(p, t, s) \/ FinalizeDropped(p, t, s)
    BY <1>4 DEF Tasks
  <2>2. CASE FinalizeDecided(p, t, s)
    BY <2>2, MoneyFinalize
  <2>3. CASE FinalizeDropped(p, t, s)
    BY <1>3, <2>3 DEF FinalizeDropped, local
  <2> QED
    BY <2>1, <2>2, <2>3
<1>5. ASSUME NEW p \in Procs, Proceed(p) PROVE Goal
  <2>2. CASE StartRefused(p) \/ CancelRefused(p) \/ ConfirmRefused(p)
             \/ CommitLost(p) \/ StartUnavailable(p)
    <3>1. Done(p) /\ UNCHANGED << payment, attempts, finalizers >>
      BY <2>2 DEF StartRefused, CancelRefused, ConfirmRefused, CommitLost,
                  StartUnavailable, Refuse, rows
    <3> QED
      BY <3>1, MoneyDone
  <2>3. CASE ConfirmReopens(p)
    BY <1>1, <2>3 DEF ConfirmReopens, rows, TypeOK, SessionsOK
  <2>4. CASE StartDecided(p)
    BY <2>4, MoneyDecide DEF StartDecided, Changed
  <2>5. ASSUME NEW refundable \in BOOLEAN, CancelDecided(p, refundable)
        PROVE  Goal
    <3> DEFINE pay == IF RefundDue(req[p].r) /\ refundable
                      THEN "refunded" ELSE "same"
    <3>1. /\ Decide(p, ManualPlan("cancelled", pay, FALSE))
          /\ IsRequest(p, "cancel")
      BY <2>5 DEF CancelDecided
    <3>2. req[p].r \in Reservations
      BY <3>1 DEF IsRequest, TypeOK, SessionsOK, Request
    <3>3. pay \in { "paid", "refunded" } => PaidBy(req[p].r) # {}
      BY <3>2 DEF RefundDue, MoneyInv, MoneyHasAttempt
    <3> HIDE DEF pay
    <3> QED
      BY <3>1, <3>3, MoneyDecide DEF ManualPlan
  <2>6. CASE ConfirmDecided(p)
    BY <2>6, MoneyDecide DEF ConfirmDecided, ManualPlan
  <2>7. CASE Commit(p)
    BY <2>7, MoneyCommit
  <2>8. CASE SweepCommit(p)
    <3>1. /\ at'[p] # "decided" /\ UNCHANGED << attempts, finalizers >>
          /\ \A r \in Reservations :
               payment'[r] \in { "paid", "refunded" } => payment'[r] = payment[r]
          /\ \A q \in Procs \ {p} :
               at'[q] = at[q] /\ req'[q] = req[q] /\ plan'[q] = plan[q]
      BY <2>8 DEF SweepCommit, TypeOK, SessionsOK
    <3>2. PlanFunded(p)' /\ ~Settles(p)'
      BY <3>1 DEF PlanFunded, Settles
    <3>3. MoneyHasAttempt' /\ \A r : PaidBy(r)' = PaidBy(r)
      BY <3>1 DEF MoneyInv, MoneyHasAttempt, PaidBy
    <3>4. ASSUME NEW q \in Procs \ {p}, Settles(q)
          PROVE  /\ plan[q].row \in DOMAIN attempts'[req[q].r]
                 /\ attempts'[req[q].r][plan[q].row].status = "pending"
                 /\ Task(q) \notin finalizers'
      <4>1. PlanSettles(q)
        BY <3>4 DEF MoneyInv, PlanFunded, Settles
      <4> QED
        BY <3>1, <4>1 DEF PlanSettles, Unsettled, Task
    <3>5. \A t \in finalizers' : Unsettled(t)'
      BY <3>1 DEF MoneyInv, Unsettled
    <3>6. MoneyInv'
      BY <3>1, <3>2, <3>3, <3>4, <3>5, MoneyFrame
    <3> QED
      BY <3>1, <3>6 DEF SettleStep
  <2> QED
    BY <1>5, <2>2, <2>3, <2>4, <2>5, <2>6, <2>7, <2>8 DEF Proceed
<1>6. ~Webhooks
  BY DEF Webhooks
<1>7. CASE \E r \in Reservations : Elapse(r)
  BY <1>3, <1>7 DEF Elapse, local
<1>8. CASE Restart
  <2>1. /\ UNCHANGED << payment, attempts >> /\ finalizers' = {}
        /\ \A p \in Procs : at'[p] = "idle"
    BY <1>8 DEF Restart
  <2>2. MoneyInv'
    BY <2>1 DEF MoneyInv, MoneyHasAttempt, PaidBy, PlanFunded, Settles
  <2> QED
    BY <2>1, <2>2 DEF SettleStep
<1>9. CASE UNCHANGED vars
  BY <1>3, <1>9 DEF vars, rows, local
<1> QED
  BY <1>2, <1>4, <1>5, <1>6, <1>7, <1>8, <1>9 DEF Next

\* In mock mode, whatever is written behind whose back: the money on record
\* and the money given back came in by an attempt that was paid, and a settled
\* attempt is never settled again, by however many finalizers.
THEOREM MoneyIsAlwaysFromAttempts ==
    ASSUME WebhookStatuses = {}
    PROVE  Spec => MoneyIsFromAttempts
<1>1. Init => MoneyInv
  BY DEF Init, MoneyInv, MoneyHasAttempt, PlanFunded, Settles
<1>2. TypeOK /\ MoneyInv /\ [Next]_vars => MoneyInv' /\ [SettleStep]_vars
  BY MoneyInvStep
<1>3. MoneyInv' /\ [SettleStep]_vars => [MoneyHasAttempt' /\ SettleStep]_vars
  BY DEF MoneyInv
<1>4. Spec => []TypeOK
  BY TypeCorrect
<1> QED
  BY <1>1, <1>2, <1>3, <1>4, PTL DEF Spec, MoneyIsFromAttempts

=============================================================================
