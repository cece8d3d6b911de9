-------------------------- MODULE GuestRequestsProofs --------------------------
(***************************************************************************)
(* Theorems about GuestClient, for any number of requests in flight: what  *)
(* a page says about its requests (a row or a button is busy, a refresh    *)
(* runs) agrees with the requests that are under way; every variable keeps *)
(* its type; and a browser loses no access token by looking bookings up.   *)
(***************************************************************************)
EXTENDS GuestClientProofs, FiniteSetTheorems, WellFoundedInduction

IsSeq(s) == \E S : s \in Seq(S)

\* Entry i leaves the queue of requests, and later ones move up.
LEMMA EntryLeaves ==
    ASSUME NEW S, NEW s \in Seq(S), NEW i \in DOMAIN s
    PROVE  /\ RemoveAt(s, i) \in Seq(S)
           /\ Len(RemoveAt(s, i)) = Len(s) - 1
           /\ \A j \in 1 .. Len(s) - 1 :
                 RemoveAt(s, i)[j] = IF j < i THEN s[j] ELSE s[j + 1]
<1>1. i \in 1 .. Len(s) /\ Len(s) \in Nat
  OBVIOUS
<1> DEFINE a == SubSeq(s, 1, i - 1)
           b == SubSeq(s, i + 1, Len(s))
<1>2. a \in Seq(S) /\ Len(a) = i - 1 /\ \A j \in 1 .. i - 1 : a[j] = s[j]
  BY <1>1
<1>3. /\ b \in Seq(S) /\ Len(b) = Len(s) - i
      /\ \A j \in 1 .. Len(s) - i : b[j] = s[j + i]
  BY <1>1
<1>4. RemoveAt(s, i) = a \o b
  BY DEF RemoveAt
<1> HIDE DEF a, b
<1>5. /\ a \o b \in Seq(S) /\ Len(a \o b) = Len(s) - 1
      /\ \A j \in 1 .. Len(s) - 1 :
            (a \o b)[j] = IF j <= Len(a) THEN a[j] ELSE b[j - Len(a)]
  BY <1>1, <1>2, <1>3
<1>6. ASSUME NEW j \in 1 .. Len(s) - 1
      PROVE  (a \o b)[j] = IF j < i THEN s[j] ELSE s[j + 1]
  <2>1. CASE j < i
    BY <1>1, <1>2, <1>5, <2>1
  <2>2. CASE ~(j < i)
    <3>1. j - (i - 1) \in 1 .. Len(s) - i
      BY <1>1, <2>2
    <3>2. b[j - (i - 1)] = s[(j - (i - 1)) + i] /\ (j - (i - 1)) + i = j + 1
      BY <1>1, <1>3, <3>1
    <3> QED
      BY <1>1, <1>2, <1>5, <2>2, <3>2
  <2> QED
    BY <2>1, <2>2
<1> QED
  BY <1>4, <1>5, <1>6

\* The same, told of the places: the others keep their entries, in other places.
LEMMA OthersStay ==
    ASSUME NEW s, IsSeq(s), NEW i \in DOMAIN s
    PROVE  /\ IsSeq(RemoveAt(s, i))
           /\ \A j \in DOMAIN RemoveAt(s, i) :
                \E k \in DOMAIN s \ {i} :
                   /\ RemoveAt(s, i)[j] = s[k]
                   /\ j = IF k < i THEN k ELSE k - 1
           /\ \A k \in DOMAIN s \ {i} :
                \E j \in DOMAIN RemoveAt(s, i) : RemoveAt(s, i)[j] = s[k]
<1>1. PICK S : s \in Seq(S)
  BY DEF IsSeq
<1> DEFINE t == RemoveAt(s, i)
<1>2. /\ t \in Seq(S) /\ Len(t) = Len(s) - 1
      /\ \A j \in 1 .. Len(s) - 1 : t[j] = IF j < i THEN s[j] ELSE s[j + 1]
  BY <1>1, EntryLeaves
<1> HIDE DEF t
<1>3. DOMAIN t = 1 .. Len(s) - 1 /\ DOMAIN s = 1 .. Len(s) /\ Len(s) \in Nat
  BY <1>1, <1>2
<1>4. IsSeq(t)
  BY <1>2 DEF IsSeq
<1>5. ASSUME NEW j \in DOMAIN t
      PROVE  \E k \in DOMAIN s \ {i} :
                t[j] = s[k] /\ j = IF k < i THEN k ELSE k - 1
  <2>1. CASE j < i
    BY <1>2, <1>3, <2>1
  <2>2. CASE ~(j < i)
    <3>1. j + 1 \in DOMAIN s \ {i} /\ ~(j + 1 < i) /\ (j + 1) - 1 = j
      BY <1>3, <2>2
    <3> QED
      BY <1>2, <1>3, <2>2, <3>1
  <2> QED
    BY <2>1, <2>2
<1>6. ASSUME NEW k \in DOMAIN s \ {i}
      PROVE  \E j \in DOMAIN t : t[j] = s[k]
  <2>1. CASE k < i
    BY <1>2, <1>3, <2>1
  <2>2. CASE ~(k < i)
    <3>1. k - 1 \in DOMAIN t /\ ~(k - 1 < i) /\ (k - 1) + 1 = k
      BY <1>3, <2>2
    <3> QED
      BY <1>2, <1>3, <3>1
  <2> QED
    BY <2>1, <2>2
<1> QED
  BY <1>4, <1>5, <1>6 DEF t

\* A request is sent.
LEMMA EntryComes ==
    ASSUME NEW s, IsSeq(s), NEW e
    PROVE  /\ IsSeq(Append(s, e))
           /\ Len(s) \in Nat /\ DOMAIN s = 1 .. Len(s)
           /\ DOMAIN Append(s, e) = 1 .. Len(s) + 1
           /\ \A j \in DOMAIN s : Append(s, e)[j] = s[j]
           /\ Append(s, e)[Len(s) + 1] = e
<1>1. PICK S : s \in Seq(S)
  BY DEF IsSeq
<1> DEFINE T == S \cup {e}
<1>2. s \in Seq(T)
  BY <1>1
<1>3. e \in T
  OBVIOUS
<1> HIDE DEF T
<1> QED
  BY <1>2, <1>3 DEF IsSeq

\* Entries are changed where they are.
LEMMA EntriesChange ==
    ASSUME NEW s, IsSeq(s), NEW e, NEW i \in DOMAIN s
    PROVE  /\ IsSeq([ s EXCEPT ![i] = e ])
           /\ DOMAIN [ s EXCEPT ![i] = e ] = DOMAIN s
           /\ \A j \in DOMAIN s :
                 [ s EXCEPT ![i] = e ][j] = IF j = i THEN e ELSE s[j]
<1>1. PICK S : s \in Seq(S)
  BY DEF IsSeq
<1> DEFINE T == S \cup {e}
<1>2. s \in Seq(T)
  BY <1>1
<1>3. e \in T
  OBVIOUS
<1> HIDE DEF T
<1>4. [ s EXCEPT ![i] = e ] \in Seq(T)
  BY <1>2, <1>3
<1> QED
  BY <1>2, <1>4 DEF IsSeq

LEMMA EntriesMapped ==
    ASSUME NEW s, IsSeq(s), NEW t, t = [ i \in DOMAIN s |-> t[i] ]
    PROVE  IsSeq(t)
<1>1. PICK S : s \in Seq(S)
  BY DEF IsSeq
<1> DEFINE T == { t[i] : i \in DOMAIN s }
<1>2. DOMAIN s = 1 .. Len(s) /\ Len(s) \in Nat
  BY <1>1
<1>3. t \in [ 1 .. Len(s) -> T ]
  BY <1>2
<1> HIDE DEF T
<1>4. t \in Seq(T)
  BY <1>2, <1>3
<1> QED
  BY <1>4 DEF IsSeq

----------------------------------------------------------------------------
\* The account page

LoadsShaped ==
    /\ IsSeq(loads)
    /\ \A i \in DOMAIN loads :
          /\ loads[i] = [ ids |-> loads[i].ids, live |-> loads[i].live,
                          kept |-> loads[i].kept, answer |-> loads[i].answer ]
          /\ loads[i].live \in BOOLEAN

\* One search at a time, and only as long as the page is there.
LoadsTrue ==
    /\ LoadsShaped
    /\ loading \in BOOLEAN
    /\ loading <=> \E i \in DOMAIN loads : loads[i].live
    /\ \A i, j \in DOMAIN loads : loads[i].live /\ loads[j].live => i = j
    /\ loading => OnAccount

RowsTrue ==
    /\ IsSeq(rowCalls)
    /\ \A i \in DOMAIN rowCalls :
          rowCalls[i] = [ op |-> rowCalls[i].op, ids |-> rowCalls[i].ids,
                          email |-> rowCalls[i].email,
                          answer |-> rowCalls[i].answer ]
    /\ busy # NoId =>
         \E i \in DOMAIN rowCalls : FreesRow(i) /\ busy \in rowCalls[i].ids
    /\ inStayBusy # NoId =>
         \E i \in DOMAIN rowCalls :
            FreesInStay(i) /\ inStayBusy \in rowCalls[i].ids

AccountInv == LoadsTrue /\ RowsTrue

LEMMA LoadsKept ==
    ASSUME LoadsTrue, UNCHANGED << at, loading, loads >>
    PROVE  LoadsTrue'
  BY DEF LoadsTrue, LoadsShaped, OnAccount

LEMMA RowsKept ==
    ASSUME RowsTrue, UNCHANGED << busy, inStayBusy, rowCalls >>
    PROVE  RowsTrue'
  BY DEF RowsTrue, FreesRow, FreesInStay

\* A search starts when none runs.
LEMMA LoadStarted ==
    ASSUME LoadsTrue, ~loading, OnAccount', loading' = TRUE, NEW ids,
           loads' = Append(loads, [ ids |-> ids, live |-> TRUE,
                                    kept |-> FALSE, answer |-> NoAnswer ])
    PROVE  LoadsTrue'
<1> DEFINE e == [ ids |-> ids, live |-> TRUE, kept |-> FALSE,
                  answer |-> NoAnswer ]
<1>1. /\ IsSeq(loads') /\ Len(loads) \in Nat /\ DOMAIN loads = 1 .. Len(loads)
      /\ DOMAIN loads' = 1 .. Len(loads) + 1
      /\ \A j \in DOMAIN loads : loads'[j] = loads[j]
      /\ loads'[Len(loads) + 1] = e
  BY EntryComes DEF LoadsTrue, LoadsShaped
<1>2. /\ e.live = TRUE
      /\ e = [ ids |-> e.ids, live |-> e.live, kept |-> e.kept,
               answer |-> e.answer ]
  OBVIOUS
<1> HIDE DEF e
<1>3. \A j \in DOMAIN loads' : j \in DOMAIN loads \/ j = Len(loads) + 1
  BY <1>1
<1>4. LoadsShaped'
  <2>1. ASSUME NEW j \in DOMAIN loads'
        PROVE  /\ loads'[j] = [ ids |-> loads'[j].ids, live |-> loads'[j].live,
                                kept |-> loads'[j].kept,
                                answer |-> loads'[j].answer ]
               /\ loads'[j].live \in BOOLEAN
    <3>1. CASE j \in DOMAIN loads
      BY <1>1, <3>1 DEF LoadsTrue, LoadsShaped
    <3>2. CASE j = Len(loads) + 1
      BY <1>1, <1>2, <3>2
    <3> QED
      BY <1>3, <3>1, <3>2
  <2> QED
    BY <1>1, <2>1 DEF LoadsShaped
<1>5. \A j \in DOMAIN loads' : loads'[j].live => j = Len(loads) + 1
  BY <1>1, <1>3 DEF LoadsTrue
<1>6. Len(loads) + 1 \in DOMAIN loads'
  BY <1>1
<1> QED
  BY <1>1, <1>2, <1>4, <1>5, <1>6 DEF LoadsTrue

\* A search ends: that of the page, or one of a page that was left.
LEMMA LoadEnded ==
    ASSUME LoadsTrue, NEW i \in DOMAIN loads, loads' = RemoveAt(loads, i),
           loading' = (IF loads[i].live THEN FALSE ELSE loading), at' = at
    PROVE  LoadsTrue'
<1>1. /\ IsSeq(loads')
      /\ \A j \in DOMAIN loads' :
           \E k \in DOMAIN loads \ {i} :
              loads'[j] = loads[k] /\ j = IF k < i THEN k ELSE k - 1
      /\ \A k \in DOMAIN loads \ {i} :
           \E j \in DOMAIN loads' : loads'[j] = loads[k]
  BY OthersStay DEF LoadsTrue, LoadsShaped
<1>2. LoadsShaped'
  BY <1>1 DEF LoadsTrue, LoadsShaped
<1>3. \A j, m \in DOMAIN loads' : loads'[j].live /\ loads'[m].live => j = m
  <2> TAKE j, m \in DOMAIN loads'
  <2> HAVE loads'[j].live /\ loads'[m].live
  <2>1. PICK k \in DOMAIN loads \ {i} :
          loads'[j] = loads[k] /\ j = IF k < i THEN k ELSE k - 1
    BY <1>1
  <2>2. PICK n \in DOMAIN loads \ {i} :
          loads'[m] = loads[n] /\ m = IF n < i THEN n ELSE n - 1
    BY <1>1
  <2>3. k = n
    BY <2>1, <2>2 DEF LoadsTrue
  <2> QED
    BY <2>1, <2>2, <2>3
<1>4. loading' <=> \E j \in DOMAIN loads' : loads'[j].live
  <2>1. CASE loads[i].live
    BY <1>1, <2>1 DEF LoadsTrue
  <2>2. CASE ~loads[i].live
    BY <1>1, <2>2 DEF LoadsTrue
  <2> QED
    BY <2>1, <2>2
<1> QED
  BY <1>2, <1>3, <1>4 DEF LoadsTrue, OnAccount

\* A request of a row is sent, and its row, or none, is busy from now on.
LEMMA RowAsked ==
    ASSUME RowsTrue, NEW e,
           e = [ op |-> e.op, ids |-> e.ids, email |-> e.email,
                 answer |-> e.answer ],
           rowCalls' = Append(rowCalls, e),
           \/ busy' = busy
           \/ e.op \in { "payment", "terms", "cancel" } /\ busy' \in e.ids,
           \/ inStayBusy' = inStayBusy
           \/ e.op = "inStay" /\ inStayBusy' \in e.ids
    PROVE  RowsTrue'
<1>1. /\ IsSeq(rowCalls') /\ Len(rowCalls) \in Nat
      /\ DOMAIN rowCalls = 1 .. Len(rowCalls)
      /\ DOMAIN rowCalls' = 1 .. Len(rowCalls) + 1
      /\ \A j \in DOMAIN rowCalls : rowCalls'[j] = rowCalls[j]
      /\ rowCalls'[Len(rowCalls) + 1] = e
  BY EntryComes DEF RowsTrue
<1>2. \A j \in DOMAIN rowCalls' :
        j \in DOMAIN rowCalls \/ j = Len(rowCalls) + 1
  BY <1>1
<1>3. DOMAIN rowCalls \subseteq DOMAIN rowCalls'
        /\ Len(rowCalls) + 1 \in DOMAIN rowCalls'
  BY <1>1
<1>4. \A j \in DOMAIN rowCalls' :
        rowCalls'[j] = [ op |-> rowCalls'[j].op, ids |-> rowCalls'[j].ids,
                         email |-> rowCalls'[j].email,
                         answer |-> rowCalls'[j].answer ]
  <2> TAKE j \in DOMAIN rowCalls'
  <2>1. CASE j \in DOMAIN rowCalls
    BY <1>1, <2>1 DEF RowsTrue
  <2>2. CASE j = Len(rowCalls) + 1
    BY <1>1, <2>2
  <2> QED
    BY <1>2, <2>1, <2>2
<1>5. busy' # NoId =>
        \E j \in DOMAIN rowCalls' : FreesRow(j)' /\ busy' \in rowCalls'[j].ids
  BY <1>1, <1>3 DEF RowsTrue, FreesRow
<1>6. inStayBusy' # NoId =>
        \E j \in DOMAIN rowCalls' :
           FreesInStay(j)' /\ inStayBusy' \in rowCalls'[j].ids
  BY <1>1, <1>3 DEF RowsTrue, FreesInStay
<1> QED
  BY <1>1, <1>4, <1>5, <1>6 DEF RowsTrue

\* A row's request ends: the finally of its kind frees whatever row waits.
LEMMA RowEnded ==
    ASSUME RowsTrue, NEW i \in DOMAIN rowCalls, NEW ok \in BOOLEAN,
           RowAnswered(i, ok)
    PROVE  RowsTrue'
<1>1. /\ rowCalls' = RemoveAt(rowCalls, i)
      /\ busy' = (IF FreesRow(i) THEN NoId ELSE busy)
      /\ inStayBusy' = (IF FreesInStay(i) THEN NoId ELSE inStayBusy)
  BY DEF RowAnswered, BusyAfter
<1>2. /\ IsSeq(rowCalls')
      /\ \A j \in DOMAIN rowCalls' :
           \E k \in DOMAIN rowCalls \ {i} : rowCalls'[j] = rowCalls[k]
      /\ \A k \in DOMAIN rowCalls \ {i} :
           \E j \in DOMAIN rowCalls' : rowCalls'[j] = rowCalls[k]
  BY <1>1, OthersStay DEF RowsTrue
<1>3. ASSUME NEW j \in DOMAIN rowCalls'
      PROVE  rowCalls'[j] = [ op |-> rowCalls'[j].op,
                              ids |-> rowCalls'[j].ids,
                              email |-> rowCalls'[j].email,
                              answer |-> rowCalls'[j].answer ]
  BY <1>2 DEF RowsTrue
<1>4. ASSUME busy' # NoId
      PROVE  \E j \in DOMAIN rowCalls' :
               FreesRow(j)' /\ busy' \in rowCalls'[j].ids
  <2>1. ~FreesRow(i) /\ busy' = busy
    BY <1>1, <1>4
  <2>2. PICK k \in DOMAIN rowCalls : FreesRow(k) /\ busy \in rowCalls[k].ids
    BY <1>4, <2>1 DEF RowsTrue
  <2>3. PICK j \in DOMAIN rowCalls' : rowCalls'[j] = rowCalls[k]
    BY <1>2, <2>1, <2>2
  <2> QED
    BY <2>1, <2>2, <2>3 DEF FreesRow
<1>5. ASSUME inStayBusy' # NoId
      PROVE  \E j \in DOMAIN rowCalls' :
               FreesInStay(j)' /\ inStayBusy' \in rowCalls'[j].ids
  <2>1. ~FreesInStay(i) /\ inStayBusy' = inStayBusy
    BY <1>1, <1>5
  <2>2. PICK k \in DOMAIN rowCalls :
          FreesInStay(k) /\ inStayBusy \in rowCalls[k].ids
    BY <1>5, <2>1 DEF RowsTrue
  <2>3. PICK j \in DOMAIN rowCalls' : rowCalls'[j] = rowCalls[k]
    BY <1>2, <2>1, <2>2
  <2> QED
    BY <2>1, <2>2, <2>3 DEF FreesInStay
<1> QED
  BY <1>2, <1>3, <1>4, <1>5 DEF RowsTrue

LEMMA SearchStarts ==
    ASSUME AccountInv, NEW address, NEW tokens, LoadEnabled,
           Search(address, tokens), at' = at
    PROVE  LoadsTrue'
<1>1. CASE UNCHANGED << loading, loads >>
  BY <1>1, LoadsKept DEF AccountInv
<1>2. CASE loading' = TRUE
  <2>1. loads' = Append(loads, [ ids |-> tokens, live |-> TRUE,
                                 kept |-> FALSE, answer |-> NoAnswer ])
    BY <1>2 DEF Search, LoadEnabled
  <2>2. LoadsTrue /\ ~loading /\ OnAccount'
    BY DEF AccountInv, LoadEnabled, OnAccount
  <2> QED
    BY <1>2, <2>1, <2>2, LoadStarted
<1> QED
  BY <1>1, <1>2 DEF Search

\* A search goes on: it is answered, or its tokens are remembered.
LEMMA LoadGoesOn ==
    ASSUME LoadsTrue, NEW i \in DOMAIN loads, NEW e,
           loads' = [ loads EXCEPT ![i] = e ],
           e = [ ids |-> e.ids, live |-> e.live, kept |-> e.kept,
                 answer |-> e.answer ],
           e.live = loads[i].live,
           UNCHANGED << at, loading >>
    PROVE  LoadsTrue'
<1>1. /\ IsSeq(loads') /\ DOMAIN loads' = DOMAIN loads
      /\ \A j \in DOMAIN loads : loads'[j] = IF j = i THEN e ELSE loads[j]
  BY EntriesChange DEF LoadsTrue, LoadsShaped
<1>2. \A j \in DOMAIN loads : loads'[j].live = loads[j].live
  BY <1>1
<1>3. LoadsShaped'
  BY <1>1, <1>2 DEF LoadsTrue, LoadsShaped
<1> QED
  BY <1>1, <1>2, <1>3 DEF LoadsTrue, OnAccount

LEMMA LoadServed ==
    ASSUME LoadsTrue, NEW i \in DOMAIN loads, ServeLoad(i)
    PROVE  LoadsTrue'
<1>1. PICK a : loads' = [ loads EXCEPT ![i].answer = a ]
  BY DEF ServeLoad
<1> DEFINE e == [ loads[i] EXCEPT !.answer = a ]
<1>2. loads' = [ loads EXCEPT ![i] = e ]
  BY <1>1
<1>3. /\ e = [ ids |-> e.ids, live |-> e.live, kept |-> e.kept,
               answer |-> e.answer ]
      /\ e.live = loads[i].live
  BY DEF LoadsTrue, LoadsShaped
<1> HIDE DEF e
<1> QED
  BY <1>2, <1>3, LoadGoesOn DEF ServeLoad, guestVars

LEMMA LoadRemembered ==
    ASSUME LoadsTrue, NEW i \in DOMAIN loads, LoadAnswered(i)
    PROVE  LoadsTrue'
<1> DEFINE l == loads[i]
           e == [ l EXCEPT !.kept = TRUE ]
<1>1. loads' = [ loads EXCEPT ![i] = e ]
  BY DEF LoadAnswered
<1>2. l = [ ids |-> l.ids, live |-> l.live, kept |-> l.kept,
            answer |-> l.answer ]
  BY DEF LoadsTrue, LoadsShaped
<1>3. UNCHANGED << at, loading >>
  BY DEF LoadAnswered
<1>0. e = [ l EXCEPT !.kept = TRUE ]
  OBVIOUS
<1> HIDE DEF l, e
<1>4. e = [ ids |-> l.ids, live |-> l.live, kept |-> TRUE,
            answer |-> l.answer ]
  BY <1>0, <1>2
<1>5. /\ e = [ ids |-> e.ids, live |-> e.live, kept |-> e.kept,
               answer |-> e.answer ]
      /\ e.live = l.live
  BY <1>4
<1> QED
  BY <1>1, <1>3, <1>5, LoadGoesOn DEF l

LEMMA CancelServed ==
    ASSUME RowsTrue, NEW i \in DOMAIN rowCalls, ServeCancel(i)
    PROVE  RowsTrue'
<1> DEFINE e == [ rowCalls[i] EXCEPT !.answer = "done" ]
<1>1. rowCalls' = [ rowCalls EXCEPT ![i] = e ]
  BY DEF ServeCancel
<1>2. /\ e = [ op |-> e.op, ids |-> e.ids, email |-> e.email,
               answer |-> e.answer ]
      /\ e.op = rowCalls[i].op /\ e.ids = rowCalls[i].ids
  BY DEF RowsTrue
<1> HIDE DEF e
<1>3. /\ IsSeq(rowCalls') /\ DOMAIN rowCalls' = DOMAIN rowCalls
      /\ \A j \in DOMAIN rowCalls :
           rowCalls'[j] = IF j = i THEN e ELSE rowCalls[j]
  BY <1>1, EntriesChange DEF RowsTrue
<1>4. \A j \in DOMAIN rowCalls :
        rowCalls'[j].op = rowCalls[j].op /\ rowCalls'[j].ids = rowCalls[j].ids
  BY <1>2, <1>3
<1> QED
  BY <1>2, <1>3, <1>4 DEF RowsTrue, FreesRow, FreesInStay, ServeCancel

\* A search ends; what it asks for in turn is nobody's row.
LEMMA LoadDone ==
    ASSUME AccountInv, NEW i \in DOMAIN loads,
           LoadShown(i) \/ LoadFailed(i)
    PROVE  AccountInv'
<1>1. /\ loads' = RemoveAt(loads, i) /\ at' = at
      /\ loading' = IF loads[i].live THEN FALSE ELSE loading
      /\ UNCHANGED << busy, inStayBusy >>
  BY DEF LoadShown, LoadFailed, guestVars
<1>2. LoadsTrue'
  BY <1>1, LoadEnded DEF AccountInv
<1>3. RowsTrue'
  <2>1. CASE UNCHANGED rowCalls
    BY <1>1, <2>1, RowsKept DEF AccountInv
  <2>2. CASE rowCalls' = Append(rowCalls,
                           [ op |-> "inStayAll", ids |-> Eligible(i),
                             email |-> email, answer |-> NoAnswer ])
    <3> DEFINE e == [ op |-> "inStayAll", ids |-> Eligible(i),
                      email |-> email, answer |-> NoAnswer ]
    <3>1. e = [ op |-> e.op, ids |-> e.ids, email |-> e.email,
                answer |-> e.answer ]
      OBVIOUS
    <3>2. rowCalls' = Append(rowCalls, e)
      BY <2>2
    <3> HIDE DEF e
    <3> QED
      BY <1>1, <3>1, <3>2, RowAsked DEF AccountInv
  <2> QED
    BY <2>1, <2>2 DEF LoadShown, LoadFailed
<1> QED
  BY <1>2, <1>3 DEF AccountInv

LEMMA RowPressed ==
    ASSUME AccountInv, NEW r,
           \/ \E op \in { "payment", "terms", "cancel" } : PressRow(op, r)
           \/ PressInStay(r)
    PROVE  AccountInv'
<1>1. LoadsTrue'
  BY LoadsKept DEF AccountInv, PressRow, PressInStay, guestVars
<1>2. ASSUME NEW op \in { "payment", "terms", "cancel" }, PressRow(op, r)
      PROVE  RowsTrue'
  <2> DEFINE e == [ op |-> op, ids |-> {r}, email |-> email,
                    answer |-> NoAnswer ]
  <2>1. /\ e = [ op |-> e.op, ids |-> e.ids, email |-> e.email,
                 answer |-> e.answer ]
        /\ e.op = op /\ r \in e.ids
    OBVIOUS
  <2>2. rowCalls' = Append(rowCalls, e)
    BY <1>2 DEF PressRow, Ask
  <2> HIDE DEF e
  <2> QED
    BY <1>2, <2>1, <2>2, RowAsked DEF AccountInv, PressRow
<1>3. ASSUME PressInStay(r) PROVE RowsTrue'
  <2> DEFINE e == [ op |-> "inStay", ids |-> {r}, email |-> email,
                    answer |-> NoAnswer ]
  <2>1. /\ e = [ op |-> e.op, ids |-> e.ids, email |-> e.email,
                 answer |-> e.answer ]
        /\ e.op = "inStay" /\ r \in e.ids
    OBVIOUS
  <2>2. rowCalls' = Append(rowCalls, e)
    BY <1>3 DEF PressInStay, Ask
  <2> HIDE DEF e
  <2> QED
    BY <1>3, <2>1, <2>2, RowAsked DEF AccountInv, PressInStay
<1> QED
  BY <1>1, <1>2, <1>3 DEF AccountInv

LEMMA AccountRequestsStep ==
    ASSUME AccountInv, AccountNext
    PROVE  AccountInv'
<1>1. ASSUME PressLoad PROVE AccountInv'
  <2>1. LoadsTrue'
    BY <1>1, SearchStarts DEF PressLoad, guestVars
  <2> QED
    BY <1>1, <2>1, RowsKept DEF PressLoad, AccountInv
<1>2. ASSUME NEW address, TypeEmail(address) PROVE AccountInv'
  BY <1>2, LoadsKept, RowsKept DEF TypeEmail, AccountInv, guestVars
<1>3. ASSUME NEW i \in DOMAIN loads, ServeLoad(i) PROVE AccountInv'
  BY <1>3, LoadServed, RowsKept DEF ServeLoad, AccountInv
<1>7. ASSUME NEW i \in DOMAIN loads, LoadAnswered(i) PROVE AccountInv'
  BY <1>7, LoadRemembered, RowsKept DEF LoadAnswered, AccountInv
<1>4. ASSUME NEW i \in DOMAIN rowCalls, ServeCancel(i) PROVE AccountInv'
  BY <1>4, CancelServed, LoadsKept DEF ServeCancel, AccountInv
<1>5. ASSUME NEW i \in DOMAIN rowCalls, NEW ok \in BOOLEAN,
             RowAnswered(i, ok)
      PROVE  AccountInv'
  BY <1>5, RowEnded, LoadsKept DEF RowAnswered, AccountInv, guestVars
<1>6. ASSUME LeaveAccount \/ OpenAccount PROVE AccountInv'
  BY <1>6, LoadsKept, RowsKept
  DEF LeaveAccount, OpenAccount, AccountInv, accountVars
<1> QED
  BY <1>1, <1>2, <1>3, <1>4, <1>5, <1>6, <1>7, LoadDone, RowPressed
  DEF AccountNext

\* The page comes with a search or without one, and goes with all of them.
LEMMA AccountComesAndGoes ==
    ASSUME AccountInv, NEW page, Land(page), AccountArrives(page)
    PROVE  AccountInv'
<1>1. at'.page = page
  BY DEF Land
<1>2. CASE page = "account" /\ at.page # "account"
  <2>1. /\ LoadsTrue /\ RowsTrue /\ ~loading /\ OnAccount'
        /\ UNCHANGED << busy, inStayBusy, rowCalls >>
    BY <1>1, <1>2 DEF AccountInv, LoadsTrue, OnAccount, AccountArrives
  <2> DEFINE tokens == TokensFor(store', email')
  <2>2. loading' = TRUE \/ loading' = FALSE
    BY <1>2 DEF AccountArrives
  <2>3. loads' = IF loading'
                 THEN Append(loads, [ ids |-> tokens, live |-> TRUE,
                                      kept |-> FALSE, answer |-> NoAnswer ])
                 ELSE loads
    BY <1>2 DEF AccountArrives
  <2> HIDE DEF tokens
  <2>4. CASE loading' = TRUE
    BY <2>1, <2>3, <2>4, LoadStarted, RowsKept DEF AccountInv
  <2>5. CASE loading' = FALSE
    <3>1. LoadsTrue'
      BY <2>1, <2>3, <2>5 DEF LoadsTrue, LoadsShaped
    <3> QED
      BY <2>1, <3>1, RowsKept DEF AccountInv
  <2> QED
    BY <2>2, <2>4, <2>5
<1>3. CASE page = "account" /\ at.page = "account"
  <2>1. OnAccount' /\ UNCHANGED accountVars
    BY <1>1, <1>3 DEF OnAccount, AccountArrives
  <2>2. LoadsTrue'
    BY <2>1 DEF accountVars, AccountInv, LoadsTrue, LoadsShaped
  <2> QED
    BY <2>1, <2>2, RowsKept DEF accountVars, AccountInv
<1>4. CASE page # "account"
  <2>1. /\ loading' = FALSE /\ busy' = NoId /\ inStayBusy' = NoId
        /\ loads' = UnmountedLoads /\ rowCalls' = << >>
    BY <1>4 DEF AccountArrives
  <2>2. ASSUME NEW i \in DOMAIN loads
        PROVE  /\ UnmountedLoads[i] = [ ids |-> UnmountedLoads[i].ids,
                                        live |-> UnmountedLoads[i].live,
                                        kept |-> UnmountedLoads[i].kept,
                                        answer |-> UnmountedLoads[i].answer ]
               /\ UnmountedLoads[i].live = FALSE
    <3> DEFINE l == loads[i]
    <3>1. l = [ ids |-> l.ids, live |-> l.live, kept |-> l.kept,
                answer |-> l.answer ]
      BY DEF AccountInv, LoadsTrue, LoadsShaped
    <3>2. UnmountedLoads[i] = [ l EXCEPT !.live = FALSE ]
      BY DEF UnmountedLoads
    <3> HIDE DEF l
    <3>3. UnmountedLoads[i] = [ ids |-> l.ids, live |-> FALSE,
                                kept |-> l.kept, answer |-> l.answer ]
      BY <3>1, <3>2
    <3> QED
      BY <3>3
  <2>3. DOMAIN UnmountedLoads = DOMAIN loads
    BY DEF UnmountedLoads
  <2>4. IsSeq(UnmountedLoads)
    <3>1. UnmountedLoads = [ i \in DOMAIN loads |-> UnmountedLoads[i] ]
      BY DEF UnmountedLoads
    <3> QED
      BY <3>1, EntriesMapped DEF AccountInv, LoadsTrue, LoadsShaped
  <2>5. LoadsTrue'
    BY <2>1, <2>2, <2>3, <2>4 DEF LoadsTrue, LoadsShaped
  <2>6. RowsTrue'
    <3>1. << >> \in Seq({})
      OBVIOUS
    <3> QED
      BY <2>1, <3>1 DEF RowsTrue, IsSeq
  <2> QED
    BY <2>5, <2>6 DEF AccountInv
<1> QED
  BY <1>2, <1>3, <1>4

----------------------------------------------------------------------------
\* The checkout page

\* Requests are sent by the mounted page; the automatic refresh by one effect.
AutoAt(i) == requests[i].op = "auto" /\ requests[i].live

RequestsShaped ==
    /\ IsSeq(requests)
    /\ \A i \in DOMAIN requests :
          /\ requests[i] = [ op |-> requests[i].op, live |-> requests[i].live,
                             answer |-> requests[i].answer ]
          /\ requests[i].live \in BOOLEAN

\* One automatic refresh at a time, known as long as it is under way.
RefreshTrue ==
    /\ RequestsShaped
    /\ autoRefreshing \in BOOLEAN
    /\ autoRefreshing <=> \E i \in DOMAIN requests : AutoAt(i)
    /\ \A i, j \in DOMAIN requests : AutoAt(i) /\ AutoAt(j) => i = j
    /\ autoRefreshing => OnCheckout

LEMMA RefreshKept ==
    ASSUME RefreshTrue, UNCHANGED << at, autoRefreshing, requests >>
    PROVE  RefreshTrue'
  BY DEF RefreshTrue, RequestsShaped, AutoAt, OnCheckout

LEMMA RequestSent ==
    ASSUME RefreshTrue, NEW op, requests' = Sent(op), at' = at,
           \/ op # "auto" /\ autoRefreshing' = autoRefreshing
           \/ /\ op = "auto" /\ OnCheckout
              /\ ~autoRefreshing /\ autoRefreshing' = TRUE
    PROVE  RefreshTrue'
<1> DEFINE e == [ op |-> op, live |-> TRUE, answer |-> NoAnswer ]
           n == Len(requests) + 1
<1>1. /\ IsSeq(requests') /\ Len(requests) \in Nat
      /\ DOMAIN requests = 1 .. Len(requests)
      /\ DOMAIN requests' = 1 .. Len(requests) + 1
      /\ \A j \in DOMAIN requests : requests'[j] = requests[j]
      /\ requests'[Len(requests) + 1] = e
  BY EntryComes DEF RefreshTrue, RequestsShaped, Sent
<1>2. /\ e.op = op /\ e.live = TRUE
      /\ e = [ op |-> e.op, live |-> e.live, answer |-> e.answer ]
  OBVIOUS
<1> HIDE DEF e
<1>3. /\ \A j \in DOMAIN requests' : j \in DOMAIN requests \/ j = n
      /\ n \in DOMAIN requests' /\ n \notin DOMAIN requests
      /\ DOMAIN requests \subseteq DOMAIN requests'
      /\ requests'[n] = e
  BY <1>1
<1> HIDE DEF n
<1>4. RequestsShaped'
  <2>1. ASSUME NEW j \in DOMAIN requests'
        PROVE  /\ requests'[j] = [ op |-> requests'[j].op,
                                   live |-> requests'[j].live,
                                   answer |-> requests'[j].answer ]
               /\ requests'[j].live \in BOOLEAN
    <3>1. CASE j \in DOMAIN requests
      BY <1>1, <3>1 DEF RefreshTrue, RequestsShaped
    <3>2. CASE j = n
      BY <1>2, <1>3, <3>2
    <3> QED
      BY <1>3, <3>1, <3>2
  <2> QED
    BY <1>1, <2>1 DEF RequestsShaped
<1>5. /\ \A j \in DOMAIN requests : AutoAt(j)' <=> AutoAt(j)
      /\ \A j \in DOMAIN requests' : j = n => (AutoAt(j)' <=> op = "auto")
  BY <1>1, <1>2, <1>3 DEF AutoAt
<1>6. CASE op # "auto" /\ autoRefreshing' = autoRefreshing
  <2>1. \A j \in DOMAIN requests' :
          AutoAt(j)' => j \in DOMAIN requests /\ AutoAt(j)
    BY <1>3, <1>5, <1>6
  <2>2. (\E j \in DOMAIN requests' : AutoAt(j)')
          <=> (\E j \in DOMAIN requests : AutoAt(j))
    BY <1>3, <1>5, <2>1
  <2> QED
    BY <1>4, <1>6, <2>1, <2>2 DEF RefreshTrue, OnCheckout
<1>7. CASE op = "auto" /\ ~autoRefreshing /\ autoRefreshing' = TRUE /\ OnCheckout
  <2>1. \A j \in DOMAIN requests' : AutoAt(j)' <=> j = n
    BY <1>3, <1>5, <1>7 DEF RefreshTrue
  <2> QED
    BY <1>3, <1>4, <1>7, <2>1 DEF RefreshTrue, OnCheckout
<1> QED
  BY <1>6, <1>7

LEMMA RequestEnded ==
    ASSUME RefreshTrue, NEW i \in DOMAIN requests,
           requests' = RemoveAt(requests, i), at' = at,
           autoRefreshing' = (autoRefreshing /\ ~AutoAt(i))
    PROVE  RefreshTrue'
<1>1. /\ IsSeq(requests')
      /\ \A j \in DOMAIN requests' :
           \E k \in DOMAIN requests \ {i} :
              requests'[j] = requests[k] /\ j = IF k < i THEN k ELSE k - 1
      /\ \A k \in DOMAIN requests \ {i} :
           \E j \in DOMAIN requests' : requests'[j] = requests[k]
  BY OthersStay DEF RefreshTrue, RequestsShaped
<1>2. RequestsShaped'
  BY <1>1 DEF RefreshTrue, RequestsShaped
<1>3. \A j, m \in DOMAIN requests' : AutoAt(j)' /\ AutoAt(m)' => j = m
  <2> TAKE j, m \in DOMAIN requests'
  <2> HAVE AutoAt(j)' /\ AutoAt(m)'
  <2>1. PICK k \in DOMAIN requests \ {i} :
          requests'[j] = requests[k] /\ j = IF k < i THEN k ELSE k - 1
    BY <1>1
  <2>2. PICK n \in DOMAIN requests \ {i} :
          requests'[m] = requests[n] /\ m = IF n < i THEN n ELSE n - 1
    BY <1>1
  <2>3. k = n
    BY <2>1, <2>2 DEF RefreshTrue, AutoAt
  <2> QED
    BY <2>1, <2>2, <2>3
<1>4. autoRefreshing' <=> \E j \in DOMAIN requests' : AutoAt(j)'
  <2>1. CASE AutoAt(i)
    BY <1>1, <2>1 DEF RefreshTrue, AutoAt
  <2>2. CASE ~AutoAt(i)
    BY <1>1, <2>2 DEF RefreshTrue, AutoAt
  <2> QED
    BY <2>1, <2>2
<1>5. autoRefreshing' \in BOOLEAN
  BY DEF RefreshTrue
<1> QED
  BY <1>2, <1>3, <1>4, <1>5 DEF RefreshTrue, OnCheckout

\* A request changes where it is: no automatic refresh is made or lost.
LEMMA RequestChanges ==
    ASSUME RefreshTrue, NEW i \in DOMAIN requests, NEW e,
           e = [ op |-> e.op, live |-> e.live, answer |-> e.answer ],
           e.live = requests[i].live,
           e.op = "auto" <=> requests[i].op = "auto",
           requests' = [ requests EXCEPT ![i] = e ],
           UNCHANGED << at, autoRefreshing >>
    PROVE  RefreshTrue'
<1>1. /\ IsSeq(requests') /\ DOMAIN requests' = DOMAIN requests
      /\ \A j \in DOMAIN requests :
           requests'[j] = IF j = i THEN e ELSE requests[j]
  BY EntriesChange DEF RefreshTrue, RequestsShaped
<1>2. RequestsShaped'
  BY <1>1 DEF RefreshTrue, RequestsShaped
<1>3. \A j \in DOMAIN requests : AutoAt(j)' <=> AutoAt(j)
  BY <1>1 DEF AutoAt
<1> QED
  BY <1>1, <1>2, <1>3 DEF RefreshTrue, OnCheckout

LEMMA AnswerStep ==
    ASSUME RefreshTrue, NEW i, CheckoutAnswers(i)
    PROVE  RefreshTrue'
<1>1. i \in DOMAIN requests
  BY DEF CheckoutAnswers
<1>2. ASSUME ServeCreate(i) PROVE RefreshTrue'
  <2>1. PICK r : requests' = [ requests EXCEPT ![i].answer = [ draft |-> r ] ]
    BY <1>2 DEF ServeCreate
  <2> DEFINE e == [ requests[i] EXCEPT !.answer = [ draft |-> r ] ]
  <2>2. requests' = [ requests EXCEPT ![i] = e ]
    BY <2>1
  <2>3. /\ e = [ op |-> e.op, live |-> e.live, answer |-> e.answer ]
        /\ e.op = requests[i].op /\ e.live = requests[i].live
    BY <1>1 DEF RefreshTrue, RequestsShaped
  <2> HIDE DEF e
  <2> QED
    BY <1>1, <1>2, <2>2, <2>3, RequestChanges DEF ServeCreate, formVars
<1>3. ASSUME QuoteAnswered(i) \/ QuoteFailed(i) PROVE RefreshTrue'
  <2>1. autoRefreshing' = (autoRefreshing /\ ~AutoAt(i))
    <3>1. CASE requests[i].live
      BY <1>3, <3>1 DEF QuoteAnswered, QuoteFailed, Here, Ended, AutoAt
    <3>2. CASE ~requests[i].live
      BY <1>3, <3>2 DEF QuoteAnswered, QuoteFailed, Here, formVars, AutoAt,
                        RefreshTrue
    <3> QED
      BY <3>1, <3>2
  <2> QED
    BY <1>1, <1>3, <2>1, RequestEnded
    DEF QuoteAnswered, QuoteFailed, Drop, guestVars
<1>4. ASSUME SubmitAnswered(i) PROVE RefreshTrue'
  <2>1. autoRefreshing' = (autoRefreshing /\ ~AutoAt(i))
    BY <1>4 DEF SubmitAnswered, AutoAt, RefreshTrue
  <2> QED
    BY <1>1, <1>4, <2>1, RequestEnded DEF SubmitAnswered, Drop
<1>5. ASSUME SubmitRefused(i) PROVE RefreshTrue'
  <2>1. requests[i].op = "submit" /\ UNCHANGED << at, autoRefreshing >>
    BY <1>5 DEF SubmitRefused, guestVars
  <2>2. CASE requests' = RemoveAt(requests, i)
    <3>1. autoRefreshing' = (autoRefreshing /\ ~AutoAt(i))
      BY <2>1 DEF AutoAt, RefreshTrue
    <3> QED
      BY <1>1, <2>1, <2>2, <3>1, RequestEnded
  <2>3. CASE requests' = [ requests EXCEPT ![i].op = "retry" ]
    <3> DEFINE e == [ requests[i] EXCEPT !.op = "retry" ]
    <3>1. requests' = [ requests EXCEPT ![i] = e ]
      BY <2>3
    <3>2. /\ e = [ op |-> e.op, live |-> e.live, answer |-> e.answer ]
          /\ e.op = "retry" /\ e.live = requests[i].live
      BY <1>1 DEF RefreshTrue, RequestsShaped
    <3> HIDE DEF e
    <3> QED
      BY <1>1, <2>1, <3>1, <3>2, RequestChanges
  <2> QED
    BY <1>5, <2>2, <2>3 DEF SubmitRefused
<1> QED
  BY <1>2, <1>3, <1>4, <1>5 DEF CheckoutAnswers

LEMMA CheckoutRequestsStep ==
    ASSUME RefreshTrue, CheckoutNext
    PROVE  RefreshTrue'
<1>1. ASSUME Tick \/ LeaveCheckout PROVE RefreshTrue'
  BY <1>1, RefreshKept
  DEF Tick, LeaveCheckout, guestVars, checkoutVars, formVars
<1>2. ASSUME AutoRefresh PROVE RefreshTrue'
  BY <1>2, RequestSent DEF AutoRefresh, AutoRefreshDue, guestVars
<1>3. ASSUME PressRefresh \/ PressFormRefresh \/ PressSubmit
      PROVE  RefreshTrue'
  BY <1>3, RequestSent
  DEF PressRefresh, PressFormRefresh, PressSubmit, guestVars, formVars
<1> QED
  BY <1>1, <1>2, <1>3, AnswerStep DEF CheckoutNext

\* The page comes without a request that could touch it.
LEMMA CheckoutComesAndGoes ==
    ASSUME RefreshTrue, NEW page, Land(page), CheckoutArrives(page)
    PROVE  RefreshTrue'
<1>1. at'.page = page
  BY DEF Land
<1>2. CASE page = at.page
  BY <1>1, <1>2
  DEF CheckoutArrives, checkoutVars, formVars, RefreshTrue, RequestsShaped,
      AutoAt, OnCheckout
<1>3. CASE page # at.page /\ page = "checkout"
  <2>1. ~autoRefreshing /\ autoRefreshing' = FALSE /\ UNCHANGED requests
    BY <1>3 DEF CheckoutArrives, ClearForm, RefreshTrue, OnCheckout
  <2> QED
    BY <2>1 DEF RefreshTrue, RequestsShaped, AutoAt
<1>4. CASE page # at.page /\ page # "checkout"
  <2>1. autoRefreshing' = FALSE /\ requests' = Unmounted
    BY <1>4 DEF CheckoutArrives, ClearForm
  <2>2. ASSUME NEW i \in DOMAIN requests
        PROVE  /\ Unmounted[i] = [ op |-> Unmounted[i].op,
                                   live |-> Unmounted[i].live,
                                   answer |-> Unmounted[i].answer ]
               /\ Unmounted[i].live = FALSE
    <3> DEFINE q == requests[i]
    <3>1. q = [ op |-> q.op, live |-> q.live, answer |-> q.answer ]
      BY DEF RefreshTrue, RequestsShaped
    <3>2. Unmounted[i] = [ q EXCEPT !.live = FALSE ]
      BY DEF Unmounted
    <3> HIDE DEF q
    <3>3. Unmounted[i] = [ op |-> q.op, live |-> FALSE, answer |-> q.answer ]
      BY <3>1, <3>2
    <3> QED
      BY <3>3
  <2>3. DOMAIN Unmounted = DOMAIN requests
    BY DEF Unmounted
  <2>4. IsSeq(Unmounted)
    <3>1. Unmounted = [ i \in DOMAIN requests |-> Unmounted[i] ]
      BY DEF Unmounted
    <3> QED
      BY <3>1, EntriesMapped DEF RefreshTrue, RequestsShaped
  <2> QED
    BY <2>1, <2>2, <2>3, <2>4 DEF RefreshTrue, RequestsShaped, AutoAt
<1> QED
  BY <1>2, <1>3, <1>4

----------------------------------------------------------------------------
\* The tab

RequestsInv == AccountInv /\ RefreshTrue

LEMMA PageKept ==
    ASSUME ServerNext \/ CheckoutNext \/ PaymentNext \/ AccountNext
    PROVE  at' = at
<1>1. ASSUME ServerNext PROVE at' = at
  BY <1>1 DEF ServerNext, SettlePayment, ExpireHold, PartnerDecides
<1>2. ASSUME CheckoutNext PROVE at' = at
  BY <1>2
  DEF CheckoutNext, CheckoutAnswers, ServeCreate, QuoteAnswered, QuoteFailed,
      SubmitAnswered, SubmitRefused, Tick, AutoRefresh, PressRefresh,
      PressFormRefresh, PressSubmit, LeaveCheckout, guestVars
<1>3. ASSUME PaymentNext PROVE at' = at
  BY <1>3
  DEF PaymentNext, PaymentAnswers, ServeAttempt, ServePoll, AttemptAnswered,
      PollAnswered, PayFailed, ServeUnavailable, PressPay, ChooseMethod,
      FollowRedirect, StayHere, LeavePayment, LeaveSuccess, ServeOrphan,
      guestVars
<1>4. ASSUME AccountNext PROVE at' = at
  BY <1>4
  DEF AccountNext, PressLoad, TypeEmail, ServeLoad, LoadAnswered, LoadShown,
      LoadFailed, PressRow, PressInStay, ServeCancel, RowAnswered, LeaveAccount,
      OpenAccount, guestVars
<1> QED
  BY <1>1, <1>2, <1>3, <1>4

LEMMA RequestsInit == Init => RequestsInv
<1> SUFFICES ASSUME Init PROVE RequestsInv
  OBVIOUS
<1>1. << >> \in Seq({}) /\ DOMAIN << >> = {}
  OBVIOUS
<1>2. IsSeq(<< >>)
  BY <1>1 DEF IsSeq
<1>3. LoadsTrue
  BY <1>1, <1>2 DEF Init, AccountInit, LoadsTrue, LoadsShaped
<1>4. RowsTrue
  BY <1>1, <1>2 DEF Init, AccountInit, RowsTrue
<1>5. RefreshTrue
  BY <1>1, <1>2 DEF Init, CheckoutInit, RefreshTrue, RequestsShaped
<1> QED
  BY <1>3, <1>4, <1>5 DEF RequestsInv, AccountInv

LEMMA RequestsStep == RequestsInv /\ [Next]_vars => RequestsInv'
<1> SUFFICES ASSUME RequestsInv, [Next]_vars PROVE RequestsInv'
  OBVIOUS
<1>1. AccountInv /\ LoadsTrue /\ RowsTrue /\ RefreshTrue
  BY DEF RequestsInv, AccountInv
<1>2. ASSUME at' = at, UNCHANGED accountVars PROVE AccountInv'
  BY <1>1, <1>2, LoadsKept, RowsKept DEF accountVars, AccountInv
<1>3. ASSUME at' = at, UNCHANGED checkoutVars PROVE RefreshTrue'
  BY <1>1, <1>3, RefreshKept DEF checkoutVars, formVars
<1>4. ASSUME NEW page, Arrive(page) PROVE RequestsInv'
  BY <1>1, <1>4, AccountComesAndGoes, CheckoutComesAndGoes
  DEF Arrive, RequestsInv
<1>5. ASSUME Book \/ UNCHANGED vars PROVE RequestsInv'
  BY <1>2, <1>3, <1>5 DEF Book, vars, guestVars, RequestsInv
<1>6. ASSUME ServerNext, UNCHANGED << checkoutVars, payVars, accountVars >>
      PROVE  RequestsInv'
  BY <1>2, <1>3, <1>6, PageKept DEF RequestsInv
<1>7. ASSUME CheckoutNext, UNCHANGED << payVars, accountVars >>
      PROVE  RequestsInv'
  BY <1>1, <1>2, <1>7, PageKept, CheckoutRequestsStep DEF RequestsInv
<1>8. ASSUME PaymentNext, UNCHANGED << checkoutVars, accountVars >>
      PROVE  RequestsInv'
  BY <1>2, <1>3, <1>8, PageKept DEF RequestsInv
<1>9. ASSUME AccountNext, UNCHANGED << checkoutVars, payVars >>
      PROVE  RequestsInv'
  BY <1>1, <1>3, <1>9, PageKept, AccountRequestsStep DEF RequestsInv
<1> QED
  BY <1>4, <1>5, <1>6, <1>7, <1>8, <1>9 DEF Next

\* Nothing stays disabled for an answer that will not come: the account page
\* says that it searches, and that a row is busy, only while a request that
\* will free it is under way (GuestAccountPage.tsx).
THEOREM BusyIsAlwaysInFlight == Spec => []BusyIsInFlight
<1>1. RequestsInv => BusyIsInFlight
  BY DEF RequestsInv, AccountInv, LoadsTrue, RowsTrue, BusyIsInFlight
<1> QED
  BY <1>1, RequestsInit, RequestsStep, PTL DEF Spec

\* The refreshes of the last ten seconds of a price lock never overlap, however
\* many requests of the page are under way (CheckoutShell.tsx).
THEOREM AutoRefreshIsAlwaysSingle == Spec => []AutoRefreshIsSingle
<1> DEFINE autos == { i \in DOMAIN requests : requests[i].op = "auto" /\ Here(i) }
<1>1. RequestsInv => AutoRefreshIsSingle
  <2> SUFFICES ASSUME RefreshTrue
               PROVE  Cardinality(autos) = IF autoRefreshing THEN 1 ELSE 0
    BY DEF RequestsInv, AutoRefreshIsSingle
  <2>1. CASE autoRefreshing
    <3>1. PICK i \in DOMAIN requests : AutoAt(i)
      BY <2>1 DEF RefreshTrue
    <3>2. autos = {i}
      BY <3>1 DEF RefreshTrue, AutoAt, Here
    <3> QED
      BY <2>1, <3>2, FS_Singleton
  <2>2. CASE ~autoRefreshing
    <3>1. autos = {}
      BY <2>2 DEF RefreshTrue, AutoAt, Here
    <3> QED
      BY <2>2, <3>1, FS_EmptySet
  <2> QED
    BY <2>1, <2>2
<1> QED
  BY <1>1, RequestsInit, RequestsStep, PTL DEF Spec

----------------------------------------------------------------------------
\* Numbers: what is stated of all of them holds unless there is a least
\* counterexample

\* The order of the numbers, as a relation.
Before == { ss \in Nat \X Nat : ss[1] < ss[2] }

LEMMA LeastNat ==
    ASSUME NEW T, T \subseteq Nat, T # {}
    PROVE  \E x \in T : \A y \in T : x <= y
<1>1. IsWellFoundedOn(Before, Nat)
  BY NatLessThanWellFounded DEF OpToRel, Before
<1>2. PICK x \in T : \A y \in T : << y, x >> \notin Before
  BY <1>1, WFMin
<1>3. ASSUME NEW y \in T PROVE x <= y
  <2>1. x \in Nat /\ y \in Nat
    BY <1>2, <1>3
  <2>2. << y, x >> \notin Before
    BY <1>2
  <2> QED
    BY <2>1, <2>2 DEF Before
<1> QED
  BY <1>2, <1>3

LEMMA LeastIs ==
    ASSUME NEW T, T \subseteq Nat, T # {}
    PROVE  Min(T) \in T /\ \A y \in T : Min(T) <= y
<1>1. PICK x \in T : \A y \in T : x <= y
  BY LeastNat
<1> QED
  BY <1>1 DEF Min

LEMMA GreatestIs ==
    ASSUME NEW n \in Nat, NEW T, T \subseteq 0 .. n, T # {}
    PROVE  Max(T) \in T /\ \A y \in T : Max(T) >= y
<1> DEFINE U == { n - x : x \in T }
<1>0. \A x \in T : n - x \in Nat
  OBVIOUS
<1>1. U \subseteq Nat /\ U # {}
  BY <1>0
<1> HIDE DEF U
<1>2. PICK u \in U : \A y \in U : u <= y
  BY <1>1, LeastNat
<1>3. PICK x \in T : u = n - x
  BY DEF U
<1>4. ASSUME NEW y \in T PROVE x >= y
  <2>1. n - x <= n - y
    BY <1>2, <1>3 DEF U
  <2> QED
    BY <2>1
<1> QED
  BY <1>4 DEF Max

----------------------------------------------------------------------------
\* The list of localStorage

IsStore(s) == s \in Seq(Ids) /\ Len(s) <= MaxStored /\ IsInjective(s)

\* s ends with the first m entries of q.
EndsWith(s, q, m) ==
    /\ m <= Len(s)
    /\ \A j \in 1 .. m : s[(Len(s) - m) + j] = q[j]

\* The entry of a reservation leaves the list, if there is one.
LEMMA EntryForgotten ==
    ASSUME NEW s \in Seq(Ids), IsInjective(s), NEW id \in Ids
    PROVE  LET t == RemoveFirst(s, id)
           IN  /\ t \in Seq(Ids) /\ IsInjective(t)
               /\ Range(t) = Range(s) \ {id}
               /\ Len(t) = Len(s) - (IF id \in Range(s) THEN 1 ELSE 0)
               /\ \A q : \A m \in Nat :
                    EndsWith(s, q, m) /\ (\A j \in 1 .. m : q[j] # id)
                      => EndsWith(t, q, m)
<1> DEFINE t == RemoveFirst(s, id)
           n == Len(s)
           At == { i \in 1 .. n : s[i] = id }
<1>0. n \in Nat /\ DOMAIN s = 1 .. n
  OBVIOUS
<1>1. CASE id \notin Range(s)
  <2>1. t = s
    BY <1>0, <1>1 DEF RemoveFirst, Range
  <2> QED
    BY <1>0, <1>1, <2>1
<1>2. CASE id \in Range(s)
  <2>1. At # {} /\ At \subseteq Nat
    BY <1>0, <1>2 DEF Range
  <2> DEFINE p == Min(At)
  <2>2. p \in At
    BY <2>1, LeastIs
  <2>3. t = RemoveAt(s, p)
    BY <2>1, <2>2 DEF RemoveFirst, SelectInSeq
  <2> HIDE DEF p, t
  <2>4. p \in 1 .. n /\ s[p] = id
    BY <2>2
  <2>5. /\ t \in Seq(Ids) /\ Len(t) = n - 1
        /\ \A j \in 1 .. n - 1 : t[j] = IF j < p THEN s[j] ELSE s[j + 1]
    BY <1>0, <2>3, <2>4, EntryLeaves
  <2>6. DOMAIN t = 1 .. n - 1
    BY <1>0, <2>4, <2>5
  <2>7. \A i, j \in 1 .. n : s[i] = s[j] => i = j
    BY <1>0 DEF IsInjective
  <2> HIDE DEF n, At
  <2>8. ASSUME NEW i \in 1 .. n - 1, NEW j \in 1 .. n - 1, t[i] = t[j] PROVE i = j
    <3> DEFINE k(l) == IF l < p THEN l ELSE l + 1
    <3>1. k(i) \in 1 .. n /\ k(j) \in 1 .. n /\ (k(i) = k(j) => i = j)
      BY <1>0, <2>4
    <3>2. t[i] = s[k(i)] /\ t[j] = s[k(j)]
      BY <2>5
    <3> HIDE DEF k
    <3> QED
      BY <2>7, <2>8, <3>1, <3>2
  <2>9. IsInjective(t)
    BY <2>6, <2>8 DEF IsInjective
  <2>10. ASSUME NEW x \in Range(t) PROVE x \in Range(s) \ {id}
    <3>1. PICK j \in 1 .. n - 1 : x = t[j]
      BY <2>6 DEF Range
    <3>2. PICK k \in 1 .. n : x = s[k] /\ k # p
      BY <1>0, <2>4, <2>5, <3>1
    <3> QED
      BY <1>0, <2>4, <2>7, <3>2 DEF Range
  <2>11. ASSUME NEW x \in Range(s), x # id PROVE x \in Range(t)
    <3>1. PICK k \in 1 .. n : x = s[k] /\ k # p
      BY <1>0, <2>4, <2>11 DEF Range
    <3>2. \E j \in 1 .. n - 1 : x = t[j]
      <4>1. CASE k < p
        BY <1>0, <2>4, <2>5, <3>1, <4>1
      <4>2. CASE ~(k < p)
        <5>1. k - 1 \in 1 .. n - 1 /\ ~(k - 1 < p) /\ (k - 1) + 1 = k
          BY <1>0, <2>4, <3>1, <4>2
        <5> QED
          BY <2>5, <3>1, <5>1
      <4> QED
        BY <4>1, <4>2
    <3> QED
      BY <2>6, <3>2 DEF Range
  <2>12. ASSUME NEW q, NEW m \in Nat, EndsWith(s, q, m),
                \A j \in 1 .. m : q[j] # id
         PROVE  EndsWith(t, q, m)
    <3>1. m <= n /\ \A j \in 1 .. m : s[(n - m) + j] = q[j]
      BY <2>12 DEF EndsWith, n
    <3>2. p <= n - m
      <4>1. SUFFICES ASSUME ~(p <= n - m) PROVE FALSE
        OBVIOUS
      <4>2. p - (n - m) \in 1 .. m /\ (n - m) + (p - (n - m)) = p
        BY <1>0, <2>4, <3>1, <4>1
      <4>3. q[p - (n - m)] = id
        BY <2>4, <3>1, <4>2
      <4> QED
        BY <2>12, <4>2, <4>3
    <3>3. m <= n - 1
      BY <1>0, <2>4, <3>1, <3>2
    <3>4. ASSUME NEW j \in 1 .. m PROVE t[((n - 1) - m) + j] = q[j]
      <4>1. /\ ((n - 1) - m) + j \in 1 .. n - 1
            /\ ~(((n - 1) - m) + j < p)
            /\ (((n - 1) - m) + j) + 1 = (n - m) + j
        BY <1>0, <2>4, <3>1, <3>2
      <4> QED
        BY <2>5, <3>1, <4>1
    <3> QED
      BY <2>5, <3>3, <3>4 DEF EndsWith
  <2>13. Range(t) = Range(s) \ {id}
    BY <2>10, <2>11
  <2> QED
    BY <1>2, <2>5, <2>9, <2>12, <2>13 DEF t, n
<1> QED
  BY <1>1, <1>2

\* slice(-50): the end of the list stays.
LEMMA NewestKept ==
    ASSUME NEW u \in Seq(Ids), IsInjective(u)
    PROVE  LET v == Newest(u)
           IN  /\ IsStore(v) /\ Range(v) \subseteq Range(u)
               /\ Len(u) <= MaxStored => v = u
               /\ \A q : \A m \in Nat :
                    EndsWith(u, q, m) /\ m <= MaxStored => EndsWith(v, q, m)
<1> DEFINE v == Newest(u)
           n == Len(u)
           d == n - MaxStored
<1>0. n \in Nat /\ DOMAIN u = 1 .. n /\ MaxStored \in Nat \ {0}
  BY GuestAssumption
<1>1. CASE n <= MaxStored
  <2>1. v = u
    BY <1>1 DEF Newest
  <2> QED
    BY <1>1, <2>1 DEF IsStore
<1>2. CASE ~(n <= MaxStored)
  <2>1. v = SubSeq(u, d + 1, n)
    BY <1>2 DEF Newest
  <2>2. d \in Nat /\ d + MaxStored = n
    BY <1>0, <1>2
  <2> HIDE DEF v, d
  <2>3. /\ v \in Seq(Ids) /\ Len(v) = MaxStored
        /\ \A j \in 1 .. MaxStored : v[j] = u[j + d]
    <3> HIDE DEF n
    <3>0. MaxStored \in Int /\ MaxStored >= 1
      BY <1>0
    <3>1. d + 1 \in 1 .. n /\ n - (d + 1) + 1 = MaxStored
      BY <2>2, <3>0
    <3>2. /\ v \in Seq(Ids) /\ Len(v) = n - (d + 1) + 1
          /\ \A j \in 1 .. n - (d + 1) + 1 : v[j] = u[(d + 1) + j - 1]
      <4>1. \A i \in (d + 1) .. n : u[i] \in Ids
        BY <1>0, <2>2, <3>1
      <4> QED
        BY <1>0, <2>1, <2>2, <3>1, <4>1
    <3>3. \A j \in 1 .. MaxStored : (d + 1) + j - 1 = j + d
      BY <1>0, <2>2
    <3> QED
      BY <3>1, <3>2, <3>3
  <2>4. DOMAIN v = 1 .. MaxStored
    BY <2>3
  <2>5. \A i, j \in 1 .. n : u[i] = u[j] => i = j
    BY <1>0 DEF IsInjective
  <2> HIDE DEF n
  <2>6. \A j \in 1 .. MaxStored : j + d \in 1 .. n
    BY <1>0, <2>2
  <2>7. IsInjective(v)
    BY <1>0, <2>2, <2>3, <2>4, <2>5, <2>6 DEF IsInjective
  <2>8. Range(v) \subseteq Range(u)
    BY <1>0, <2>3, <2>4, <2>6 DEF Range
  <2>9. ASSUME NEW q, NEW m \in Nat, EndsWith(u, q, m), m <= MaxStored
        PROVE  EndsWith(v, q, m)
    <3>1. \A j \in 1 .. m : u[(n - m) + j] = q[j]
      BY <2>9 DEF EndsWith, n
    <3>2. ASSUME NEW j \in 1 .. m PROVE v[(MaxStored - m) + j] = q[j]
      <4>1. (MaxStored - m) + j \in 1 .. MaxStored
            /\ ((MaxStored - m) + j) + d = (n - m) + j
        BY <1>0, <2>2, <2>9
      <4> QED
        BY <2>3, <3>1, <4>1
    <3> QED
      BY <2>3, <2>9, <3>2 DEF EndsWith
  <2> QED
    BY <1>2, <2>3, <2>7, <2>8, <2>9, <1>0 DEF IsStore, v, n
<1> QED
  BY <1>1, <1>2


LEMMA LengthBounded ==
    ASSUME NEW S, IsFiniteSet(S), NEW s \in Seq(S), IsInjective(s)
    PROVE  Len(s) <= Cardinality(S)
<1> DEFINE n == Len(s)
<1>1. n \in Nat /\ DOMAIN s = 1 .. n /\ s \in [ 1 .. n -> S ]
  OBVIOUS
<1>2. IsFiniteSet(1 .. n) /\ Cardinality(1 .. n) = n
  BY <1>1, FS_Interval
<1> HIDE DEF n
<1>3. s \in Injection(1 .. n, S)
  BY <1>1 DEF Injection, IsInjective
<1>4. Cardinality(1 .. n) <= Cardinality(S)
  BY <1>2, <1>3, FS_Injection
<1> QED
  BY <1>2, <1>4 DEF n

\* The list has a place for every one of these reservations.
Fits(S) == IsFiniteSet(S) /\ Cardinality(S) <= MaxStored

LEMMA FewerFit ==
    ASSUME NEW T, Fits(T), NEW S, S \subseteq T
    PROVE  Fits(S)
<1>1. /\ IsFiniteSet(S) /\ Cardinality(S) <= Cardinality(T)
      /\ Cardinality(S) \in Nat /\ Cardinality(T) \in Nat
  BY FS_Subset, FS_CardinalityType DEF Fits
<1> QED
  BY <1>1, GuestAssumption DEF Fits

\* A reservation is remembered, as the newest one.
LEMMA OneRemembered ==
    ASSUME NEW s, IsStore(s), NEW id \in Ids
    PROVE  LET v == Remember(s, id)
           IN  /\ IsStore(v) /\ id \in Range(v)
               /\ Range(v) \subseteq Range(s) \cup {id}
               /\ id \in Range(s) \/ Fits(Range(s) \cup {id})
                    => Range(v) = Range(s) \cup {id}
               /\ \A q : \A m \in Nat :
                    /\ EndsWith(s, q, m) /\ m < MaxStored
                    /\ q[m + 1] = id /\ \A j \in 1 .. m : q[j] # id
                    => EndsWith(v, q, m + 1)
<1> DEFINE t == RemoveFirst(s, id)
           u == Append(t, id)
           v == Remember(s, id)
<1>1. s \in Seq(Ids) /\ Len(s) <= MaxStored /\ IsInjective(s)
  BY DEF IsStore
<1>2. /\ t \in Seq(Ids) /\ IsInjective(t)
      /\ Range(t) = Range(s) \ {id}
      /\ Len(t) = Len(s) - (IF id \in Range(s) THEN 1 ELSE 0)
      /\ \A q : \A m \in Nat :
           EndsWith(s, q, m) /\ (\A j \in 1 .. m : q[j] # id)
             => EndsWith(t, q, m)
  BY <1>1, EntryForgotten
<1> HIDE DEF t
<1> DEFINE n == Len(t)
<1>3. /\ n \in Nat /\ DOMAIN t = 1 .. n
      /\ u \in Seq(Ids) /\ Len(u) = n + 1 /\ DOMAIN u = 1 .. n + 1
      /\ \A j \in 1 .. n : u[j] = t[j]
      /\ u[n + 1] = id
  BY <1>2
<1>4. v = Newest(u)
  BY DEF Remember, t
<1> HIDE DEF u, v, n
<1>5. Range(u) = Range(s) \cup {id}
  <2>1. ASSUME NEW x \in Range(u) PROVE x \in Range(t) \cup {id}
    <3>1. PICK j \in 1 .. n + 1 : x = u[j]
      BY <1>3 DEF Range
    <3>2. j \in 1 .. n \/ j = n + 1
      BY <1>3
    <3> QED
      BY <1>3, <3>1, <3>2 DEF Range
  <2>2. id \in Range(u)
    <3>1. n + 1 \in 1 .. n + 1
      BY <1>3
    <3> QED
      BY <1>3, <3>1 DEF Range
  <2>3. ASSUME NEW x \in Range(t) PROVE x \in Range(u)
    <3>1. PICK j \in 1 .. n : x = t[j]
      BY <1>3 DEF Range
    <3>2. j \in 1 .. n + 1
      BY <1>3
    <3> QED
      BY <1>3, <3>1, <3>2 DEF Range
  <2> QED
    BY <1>2, <2>1, <2>2, <2>3
<1>6. IsInjective(u)
  <2>1. \A j \in 1 .. n : t[j] # id
    BY <1>2, <1>3 DEF Range
  <2>2. \A j \in 1 .. n + 1 : j \in 1 .. n \/ j = n + 1
    BY <1>3
  <2>3. \A i, j \in 1 .. n : t[i] = t[j] => i = j
    BY <1>2, <1>3 DEF IsInjective
  <2> QED
    BY <1>3, <2>1, <2>2, <2>3 DEF IsInjective
<1>7. /\ IsStore(v) /\ Range(v) \subseteq Range(u)
      /\ Len(u) <= MaxStored => v = u
      /\ \A q : \A m \in Nat :
           EndsWith(u, q, m) /\ m <= MaxStored => EndsWith(v, q, m)
  BY <1>3, <1>4, <1>6, NewestKept
<1>8. ASSUME NEW q, NEW m \in Nat, EndsWith(s, q, m), m < MaxStored,
             q[m + 1] = id, \A j \in 1 .. m : q[j] # id
      PROVE  EndsWith(v, q, m + 1)
  <2>1. m <= n /\ \A j \in 1 .. m : t[(n - m) + j] = q[j]
    BY <1>2, <1>8 DEF EndsWith, n
  <2>2. ASSUME NEW j \in 1 .. m + 1
        PROVE  u[((n + 1) - (m + 1)) + j] = q[j]
    <3>0. (n + 1) - (m + 1) = n - m
      BY <1>3
    <3>1. CASE j = m + 1
      <4>1. (n - m) + j = n + 1
        BY <1>3, <3>1
      <4> QED
        BY <1>3, <1>8, <3>0, <3>1, <4>1
    <3>2. CASE j # m + 1
      <4>1. j \in 1 .. m /\ (n - m) + j \in 1 .. n
        BY <1>3, <2>1, <3>2
      <4> QED
        BY <1>3, <2>1, <3>0, <4>1
    <3> QED
      BY <3>1, <3>2
  <2>3. EndsWith(u, q, m + 1)
    BY <1>3, <2>1, <2>2 DEF EndsWith
  <2>4. m + 1 \in Nat /\ m + 1 <= MaxStored
    BY <1>8, GuestAssumption
  <2> QED
    BY <1>7, <2>3, <2>4
<1>9. id \in Range(v)
  <2> DEFINE q == << id >>
  <2>1. 0 < MaxStored /\ EndsWith(s, q, 0)
    BY <1>1, GuestAssumption DEF EndsWith
  <2>2. EndsWith(v, q, 1)
    BY <1>8, <2>1
  <2>3. v \in Seq(Ids)
    BY <1>7 DEF IsStore
  <2>4. v[Len(v)] = id /\ Len(v) \in DOMAIN v
    BY <2>2, <2>3 DEF EndsWith
  <2> QED
    BY <2>4 DEF Range
<1>10. ASSUME id \in Range(s) \/ Fits(Range(s) \cup {id})
       PROVE  Range(v) = Range(s) \cup {id}
  <2>1. Len(u) <= MaxStored
    <3>1. CASE id \in Range(s)
      <4>1. Len(s) \in Nat /\ n = Len(s) - 1
        BY <1>1, <1>2, <3>1 DEF n
      <4> QED
        BY <1>1, <1>3, <4>1, GuestAssumption
    <3>2. CASE Fits(Range(s) \cup {id})
      <4> DEFINE K == Range(s) \cup {id}
      <4>1. u \in Seq(K) /\ IsFiniteSet(K) /\ Cardinality(K) <= MaxStored
        <5>1. \A j \in 1 .. n + 1 : u[j] \in K
          BY <1>3, <1>5 DEF Range
        <5>2. n + 1 \in Nat /\ u \in [ 1 .. n + 1 -> K ]
          BY <1>3, <5>1
        <5>3. IsFiniteSet(K) /\ Cardinality(K) <= MaxStored
          BY <3>2 DEF Fits
        <5> HIDE DEF K
        <5> QED
          BY <5>2, <5>3
      <4> HIDE DEF K
      <4>2. Len(u) <= Cardinality(K)
        BY <1>6, <4>1, LengthBounded
      <4>3. Cardinality(K) \in Nat
        BY <4>1, FS_CardinalityType
      <4> QED
        BY <1>3, <4>1, <4>2, <4>3, GuestAssumption
    <3> QED
      BY <1>10, <3>1, <3>2
  <2> QED
    BY <1>5, <1>7, <2>1
<1> QED
  BY <1>5, <1>7, <1>8, <1>9, <1>10 DEF v

\* f[d]: what the loop over the entries d of q leaves of the list s.
Visits(f, D, s, q) ==
    f = [ d \in SUBSET D |->
            IF d = {} THEN s ELSE Remember(f[d \ {Max(d)}], q[Max(d)]) ]

\* The same for no more than k entries.
VisitsUpTo(f, D, k, s, q) ==
    f = [ d \in { e \in SUBSET D : Cardinality(e) <= k } |->
            IF d = {} THEN s ELSE Remember(f[d \ {Max(d)}], q[Max(d)]) ]

\* There is such a loop: recursion over a finite set is well defined.
LEMMA VisitsExist ==
    ASSUME NEW n \in Nat, NEW s, NEW q
    PROVE  \E f : Visits(f, 1 .. n, s, q)
<1> DEFINE D == 1 .. n
           Small(k) == { e \in SUBSET D : Cardinality(e) <= k }
           Wrong == { k \in Nat : ~\E f : VisitsUpTo(f, D, k, s, q) }
<1>1. IsFiniteSet(D) /\ Cardinality(D) = n
  BY FS_Interval
<1>2. \A d \in SUBSET D :
        IsFiniteSet(d) /\ Cardinality(d) \in Nat /\ Cardinality(d) <= n
  BY <1>1, FS_Subset, FS_CardinalityType
<1>3. ASSUME NEW d \in SUBSET D, d # {}
      PROVE  /\ Max(d) \in d /\ d \ {Max(d)} \in SUBSET D
             /\ Cardinality(d \ {Max(d)}) = Cardinality(d) - 1
  <2>1. Max(d) \in d
    <3>1. d \subseteq 0 .. n
      OBVIOUS
    <3> QED
      BY <1>3, <3>1, GreatestIs
  <2> QED
    BY <1>2, <2>1, FS_RemoveElement
<1> HIDE DEF D
<1>4. Wrong = {}
  <2> SUFFICES ASSUME Wrong # {} PROVE FALSE
    OBVIOUS
  <2>1. PICK k \in Wrong : \A j \in Wrong : k <= j
    BY LeastNat
  <2>2. k # 0
    <3> SUFFICES ASSUME k = 0 PROVE \E f : VisitsUpTo(f, D, k, s, q)
      BY <2>1
    <3> DEFINE g == [ d \in Small(0) |-> s ]
    <3>1. \A d \in Small(0) : d = {}
      BY <1>2, FS_EmptySet
    <3>2. VisitsUpTo(g, D, 0, s, q)
      BY <3>1 DEF VisitsUpTo
    <3> QED
      BY <3>2
  <2>3. k - 1 \in Nat /\ k - 1 \notin Wrong
    BY <2>1, <2>2
  <2>4. PICK f : VisitsUpTo(f, D, k - 1, s, q)
    BY <2>3
  <2> DEFINE value(d) == IF d = {} THEN s
                         ELSE Remember(f[d \ {Max(d)}], q[Max(d)])
             g == [ d \in Small(k) |-> value(d) ]
  <2>5. \A d \in Small(k - 1) : f[d] = value(d)
    BY <2>4 DEF VisitsUpTo
  <2>6. ASSUME NEW d \in Small(k), d # {}
        PROVE  g[d \ {Max(d)}] = f[d \ {Max(d)}]
    <3>1. d \ {Max(d)} \in Small(k - 1)
      BY <1>2, <1>3, <2>3, <2>6
    <3>2. d \ {Max(d)} \in Small(k)
      BY <1>2, <2>3, <3>1
    <3>3. g[d \ {Max(d)}] = value(d \ {Max(d)})
      BY <3>2
    <3> QED
      BY <2>5, <3>1, <3>3
  <2> HIDE DEF Small
  <2>7. g = [ d \in Small(k) |->
                IF d = {} THEN s ELSE Remember(g[d \ {Max(d)}], q[Max(d)]) ]
    <3> HIDE DEF g
    <3>1. g = [ d \in Small(k) |-> value(d) ]
      BY DEF g
    <3> QED
      BY <2>6, <3>1
  <2>8. VisitsUpTo(g, D, k, s, q)
    BY <2>7 DEF VisitsUpTo, Small
  <2> QED
    BY <2>1, <2>8
<1>5. PICK f : VisitsUpTo(f, D, n, s, q)
  BY <1>4
<1>6. Small(n) = SUBSET D
  BY <1>2
<1> HIDE DEF Wrong
<1>7. Visits(f, D, s, q)
  BY <1>5, <1>6 DEF VisitsUpTo, Visits
<1> QED
  BY <1>7 DEF D

\* The loop takes the entries one after the other.
Steps(g, n, s, q) ==
    /\ g[0] = s
    /\ \A k \in 1 .. n : g[k] = Remember(g[k - 1], q[k])

LEMMA LoopIsStepwise ==
    ASSUME NEW n \in Nat, NEW q, DOMAIN q = 1 .. n, NEW s
    PROVE  \E g : Steps(g, n, s, q) /\ RememberAll(s, q) = g[n]
<1> DEFINE Runs(f) ==
             f = [ d \in SUBSET (1 .. n) |->
                     IF d = {} THEN s ELSE Remember(f[d \ {Max(d)}], q[Max(d)]) ]
<1>1. RememberAll(s, q) = (CHOOSE f : Runs(f))[1 .. n]
  BY DEF RememberAll, FoldLeft, MapThenFoldSet
<1>2. \A f : Runs(f) <=> Visits(f, 1 .. n, s, q)
  BY DEF Visits
<1>3. \E f : Runs(f)
  BY <1>2, VisitsExist
<1>4. PICK f : Runs(f) /\ RememberAll(s, q) = f[1 .. n]
  <2> HIDE DEF Runs
  <2> QED
    BY <1>1, <1>3
<1> DEFINE g == [ k \in 0 .. n |-> f[1 .. k] ]
<1>5. \A d \in SUBSET (1 .. n) :
        f[d] = IF d = {} THEN s ELSE Remember(f[d \ {Max(d)}], q[Max(d)])
  BY <1>4
<1>6. g[0] = s
  <2>1. 1 .. 0 = {} /\ 1 .. 0 \in SUBSET (1 .. n)
    OBVIOUS
  <2>2. f[1 .. 0] = s
    BY <1>5, <2>1
  <2> QED
    BY <2>2
<1>7. ASSUME NEW k \in 1 .. n PROVE g[k] = Remember(g[k - 1], q[k])
  <2> DEFINE d == 1 .. k
  <2>1. d # {} /\ d \in SUBSET (1 .. n) /\ d \ {k} = 1 .. k - 1
    OBVIOUS
  <2>2. Max(d) = k
    <3>1. d \subseteq 0 .. n /\ k \in d /\ \A x \in d : x <= k
      OBVIOUS
    <3>2. Max(d) \in d /\ \A x \in d : Max(d) >= x
      BY <2>1, <3>1, GreatestIs
    <3>3. Max(d) <= k /\ Max(d) >= k /\ Max(d) \in Int
      BY <3>1, <3>2
    <3> QED
      BY <3>3
  <2>3. f[d] = Remember(f[1 .. k - 1], q[k])
    <3> HIDE DEF d
    <3> QED
      BY <1>5, <2>1, <2>2
  <2> QED
    BY <2>3
<1>8. RememberAll(s, q) = g[n]
  BY <1>4
<1> HIDE DEF g
<1> QED
  BY <1>6, <1>7, <1>8 DEF Steps

\* Several reservations are remembered, the first one of q first.
LEMMA AllRemembered ==
    ASSUME NEW s, IsStore(s), NEW n \in Nat, NEW q \in [ 1 .. n -> Ids ],
           IsInjective(q)
    PROVE  LET v == RememberAll(s, q)
           IN  /\ IsStore(v) /\ Range(v) \subseteq Range(s) \cup Range(q)
               /\ Range(q) \subseteq Range(s) \/ Fits(Range(s) \cup Range(q))
                    => Range(v) = Range(s) \cup Range(q)
               /\ n <= MaxStored => Range(q) \subseteq Range(v)
<1>0. PICK g : Steps(g, n, s, q) /\ RememberAll(s, q) = g[n]
  <2>1. DOMAIN q = 1 .. n
    OBVIOUS
  <2> QED
    BY <2>1, LoopIsStepwise
<1>1. /\ g[0] = s
      /\ \A k \in 1 .. n : g[k] = Remember(g[k - 1], q[k])
      /\ RememberAll(s, q) = g[n]
  BY <1>0 DEF Steps
<1> DEFINE First(k) == { q[j] : j \in 1 .. k }
           Good(k) == /\ IsStore(g[k])
                      /\ Range(g[k]) \subseteq Range(s) \cup Range(q)
                      /\ Range(q) \subseteq Range(s) \/ Fits(Range(s) \cup Range(q))
                           => Range(g[k]) = Range(s) \cup First(k)
                      /\ k <= MaxStored => EndsWith(g[k], q, k)
           Wrong == { k \in 0 .. n : ~Good(k) }
<1>2. Good(0)
  <2>1. First(0) = {}
    OBVIOUS
  <2>2. EndsWith(s, q, 0)
    BY DEF IsStore, EndsWith
  <2> HIDE DEF First
  <2> QED
    BY <1>1, <2>1, <2>2
<1>3. ASSUME NEW k \in 1 .. n, Good(k - 1) PROVE Good(k)
  <2> DEFINE s0 == g[k - 1]
             id == q[k]
  <2>1. id \in Ids /\ id \in Range(q) /\ g[k] = Remember(s0, id)
    BY <1>1 DEF Range
  <2>2. First(k) = First(k - 1) \cup {id}
    <3>1. \A j \in 1 .. k : j \in 1 .. k - 1 \/ j = k
      OBVIOUS
    <3>2. k \in 1 .. k /\ \A j \in 1 .. k - 1 : j \in 1 .. k
      OBVIOUS
    <3> QED
      BY <3>1, <3>2
  <2> HIDE DEF First, s0, id
  <2>3. /\ IsStore(s0)
        /\ Range(s0) \subseteq Range(s) \cup Range(q)
        /\ Range(q) \subseteq Range(s) \/ Fits(Range(s) \cup Range(q))
             => Range(s0) = Range(s) \cup First(k - 1)
        /\ k - 1 <= MaxStored => EndsWith(s0, q, k - 1)
    BY <1>3 DEF s0
  <2>4. /\ IsStore(g[k])
        /\ Range(g[k]) \subseteq Range(s0) \cup {id}
        /\ id \in Range(s0) \/ Fits(Range(s0) \cup {id})
             => Range(g[k]) = Range(s0) \cup {id}
        /\ \A p : \A m \in Nat :
             /\ EndsWith(s0, p, m) /\ m < MaxStored
             /\ p[m + 1] = id /\ \A j \in 1 .. m : p[j] # id
             => EndsWith(g[k], p, m + 1)
    <3>1. IsStore(s0) /\ id \in Ids /\ g[k] = Remember(s0, id)
      BY <2>1, <2>3
    <3> DEFINE v0 == Remember(s0, id)
    <3>2. /\ IsStore(v0)
          /\ Range(v0) \subseteq Range(s0) \cup {id}
          /\ id \in Range(s0) \/ Fits(Range(s0) \cup {id})
               => Range(v0) = Range(s0) \cup {id}
      BY <3>1, OneRemembered
    <3>3. \A p : \A m \in Nat :
            /\ EndsWith(s0, p, m) /\ m < MaxStored
            /\ p[m + 1] = id /\ \A j \in 1 .. m : p[j] # id
            => EndsWith(v0, p, m + 1)
      BY <3>1, OneRemembered
    <3> HIDE DEF v0
    <3>4. g[k] = v0
      BY <3>1 DEF v0
    <3> QED
      BY <3>2, <3>3, <3>4
  <2>5. ASSUME k <= MaxStored PROVE EndsWith(g[k], q, k)
    <3>1. k - 1 \in Nat /\ (k - 1) + 1 = k /\ k - 1 < MaxStored
          /\ k - 1 <= MaxStored
      BY <2>5, GuestAssumption
    <3>2. \A j \in 1 .. k - 1 : q[j] # id
      BY DEF IsInjective, id
    <3>3. q[(k - 1) + 1] = id
      BY <3>1 DEF id
    <3>4. EndsWith(g[k], q, (k - 1) + 1)
      BY <2>3, <2>4, <3>1, <3>2, <3>3
    <3> QED
      BY <3>1, <3>4
  <2>6. ASSUME Range(q) \subseteq Range(s) \/ Fits(Range(s) \cup Range(q))
        PROVE  Range(g[k]) = Range(s) \cup First(k)
    <3>1. Range(s0) \cup {id} \subseteq Range(s) \cup Range(q)
      BY <2>1, <2>3
    <3>2. Fits(Range(s) \cup Range(q)) => Fits(Range(s0) \cup {id})
      BY <3>1, FewerFit
    <3>3. Range(q) \subseteq Range(s) => id \in Range(s0)
      BY <2>1, <2>3
    <3> QED
      BY <2>2, <2>3, <2>4, <2>6, <3>2, <3>3
  <2>7. Range(g[k]) \subseteq Range(s) \cup Range(q)
    BY <2>1, <2>3, <2>4
  <2> QED
    BY <2>4, <2>5, <2>6, <2>7
<1> HIDE DEF Good
<1>4. Wrong = {}
  <2> SUFFICES ASSUME Wrong # {} PROVE FALSE
    OBVIOUS
  <2>1. Wrong \subseteq Nat
    OBVIOUS
  <2>2. PICK k \in Wrong : \A j \in Wrong : k <= j
    <3> HIDE DEF Wrong
    <3> QED
      BY <2>1, LeastNat
  <2>3. k # 0
    BY <1>2, <2>2
  <2>4. k \in 1 .. n /\ k - 1 \in 0 .. n /\ k - 1 \notin Wrong
    BY <2>2, <2>3
  <2> QED
    BY <1>3, <2>2, <2>4
<1>5. Good(n)
  BY <1>4
<1> DEFINE v == RememberAll(s, q)
<1>6. First(n) = Range(q)
  BY DEF Range
<1> HIDE DEF First
<1>7. /\ IsStore(v) /\ Range(v) \subseteq Range(s) \cup Range(q)
      /\ Range(q) \subseteq Range(s) \/ Fits(Range(s) \cup Range(q))
           => Range(v) = Range(s) \cup Range(q)
      /\ n <= MaxStored => EndsWith(v, q, n)
  BY <1>1, <1>5, <1>6 DEF Good
<1>8. ASSUME n <= MaxStored PROVE Range(q) \subseteq Range(v)
  <2> SUFFICES ASSUME NEW j \in 1 .. n PROVE q[j] \in Range(v)
    BY DEF Range
  <2> HIDE DEF v
  <2>1. v \in Seq(Ids) /\ n <= Len(v) /\ v[(Len(v) - n) + j] = q[j]
    BY <1>7, <1>8 DEF IsStore, EndsWith
  <2>2. (Len(v) - n) + j \in DOMAIN v
    BY <2>1
  <2> QED
    BY <2>1, <2>2 DEF Range
<1> QED
  BY <1>7, <1>8

\* The ids of a finite set can be put in order, the greatest one first.
Falling(f, n) == \A i, j \in 1 .. n : i < j => f[i] > f[j]

LEMMA FallingExists ==
    ASSUME NEW n \in Nat, NEW S, S \subseteq Nat, IsFiniteSet(S),
           Cardinality(S) = n
    PROVE  \E f \in [ 1 .. n -> S ] : Falling(f, n)
<1> DEFINE Sized(k) == { T \in SUBSET Nat : IsFiniteSet(T) /\ Cardinality(T) = k }
           Ordered(k) == \A T \in Sized(k) :
                           \E f \in [ 1 .. k -> T ] : Falling(f, k)
           Wrong == { k \in Nat : ~Ordered(k) }
<1>1. Ordered(0)
  <2> SUFFICES ASSUME NEW T \in Sized(0)
               PROVE  \E f \in [ 1 .. 0 -> T ] : Falling(f, 0)
    OBVIOUS
  <2> DEFINE f == [ i \in 1 .. 0 |-> 0 ]
  <2>1. 1 .. 0 = {}
    OBVIOUS
  <2>2. f \in [ 1 .. 0 -> T ] /\ Falling(f, 0)
    BY <2>1 DEF Falling
  <2> QED
    BY <2>2
<1>2. ASSUME NEW k \in Nat \ {0}, Ordered(k - 1) PROVE Ordered(k)
  <2> SUFFICES ASSUME NEW T \in Sized(k)
               PROVE  \E f \in [ 1 .. k -> T ] : Falling(f, k)
    OBVIOUS
  <2> DEFINE m == Min(T)
             U == T \ {m}
  <2>1. T # {}
    BY FS_EmptySet
  <2>2. m \in T /\ m \in Nat /\ \A x \in T : m <= x
    BY <2>1, LeastIs
  <2> HIDE DEF m
  <2>3. IsFiniteSet(U) /\ Cardinality(U) = k - 1 /\ U \subseteq Nat
    BY <2>2, FS_RemoveElement
  <2>4. PICK f \in [ 1 .. k - 1 -> U ] : Falling(f, k - 1)
    BY <1>2, <2>3
  <2>5. \A i \in 1 .. k - 1 : f[i] > m /\ f[i] \in T
    <3> TAKE i \in 1 .. k - 1
    <3>1. f[i] \in T /\ f[i] # m /\ f[i] \in Nat
      BY <2>3
    <3> QED
      BY <2>2, <3>1
  <2> DEFINE h == [ i \in 1 .. k |-> IF i < k THEN f[i] ELSE m ]
  <2>6. \A i \in 1 .. k :
          (i \in 1 .. k - 1 /\ i < k) \/ (i = k /\ ~(i < k))
    OBVIOUS
  <2> HIDE DEF U
  <2>7. h \in [ 1 .. k -> T ]
    BY <2>2, <2>5, <2>6
  <2>8. Falling(h, k)
    <3> SUFFICES ASSUME NEW i \in 1 .. k, NEW j \in 1 .. k, i < j
                 PROVE  h[i] > h[j]
      BY DEF Falling
    <3>1. i \in 1 .. k - 1 /\ h[i] = f[i]
      OBVIOUS
    <3>2. CASE j = k
      <4>1. h[j] = m
        BY <3>2
      <4> QED
        BY <2>5, <3>1, <4>1
    <3>3. CASE j # k
      <4>1. j \in 1 .. k - 1 /\ h[j] = f[j]
        BY <3>3
      <4> QED
        BY <2>4, <3>1, <4>1 DEF Falling
    <3> QED
      BY <3>2, <3>3
  <2> QED
    BY <2>7, <2>8
<1> HIDE DEF Ordered
<1>3. Wrong = {}
  <2> SUFFICES ASSUME Wrong # {} PROVE FALSE
    OBVIOUS
  <2>1. PICK k \in Wrong : \A j \in Wrong : k <= j
    BY LeastNat
  <2>2. k \in Nat \ {0}
    BY <1>1, <2>1
  <2>3. k - 1 \in Nat /\ k - 1 \notin Wrong
    BY <2>1, <2>2
  <2> QED
    BY <1>2, <2>1, <2>2, <2>3
<1>4. Ordered(n)
  BY <1>3
<1> QED
  BY <1>4 DEF Ordered

\* What the backend lists are the reservations that it found, each one once.
LEMMA NewestFirstLists ==
    ASSUME NEW S, S \subseteq Ids, IsFiniteSet(S)
    PROVE  LET q == NewestFirst(S)
           IN  /\ q \in [ 1 .. Cardinality(S) -> S ]
               /\ IsInjective(q) /\ Range(q) = S
<1> DEFINE n == Cardinality(S)
           q == NewestFirst(S)
<1>1. n \in Nat /\ S \subseteq Nat
  BY FS_CardinalityType, GuestAssumption
<1>2. PICK f \in [ 1 .. n -> S ] : Falling(f, n)
  BY <1>1, FallingExists
<1>3. \A i, j \in 1 .. n : i < j \/ j < i \/ i = j
  BY <1>1
<1> HIDE DEF n
<1>4. \A i, j \in 1 .. n : i # j => f[i] # f[j]
  <2> TAKE i, j \in 1 .. n
  <2> HAVE i # j
  <2>1. f[i] \in Nat /\ f[j] \in Nat
    BY <1>1
  <2>2. f[i] > f[j] \/ f[j] > f[i]
    BY <1>2, <1>3 DEF Falling
  <2> QED
    BY <2>1, <2>2
<1>5. f \in SetToSeqs(S)
  BY <1>4 DEF SetToSeqs, n
<1>6. \A i, j \in DOMAIN f : i < j => f[i] > f[j]
  BY <1>2 DEF Falling
<1>7. q \in SetToSeqs(S)
  BY <1>5, <1>6 DEF NewestFirst
<1> HIDE DEF q
<1>8. q \in [ 1 .. n -> S ] /\ \A i, j \in 1 .. n : i # j => q[i] # q[j]
  BY <1>7 DEF SetToSeqs, n
<1>9. IsInjective(q)
  BY <1>8 DEF IsInjective
<1>10. Range(q) = S
  <2>1. q \in Injection(1 .. n, S)
    BY <1>8 DEF Injection, IsInjective
  <2>2. IsFiniteSet(1 .. n) /\ Cardinality(1 .. n) = n
    BY <1>1, FS_Interval
  <2>3. q \in Surjection(1 .. n, S)
    BY <2>1, <2>2, FS_Injection DEF n
  <2> QED
    BY <2>3 DEF Surjection, Range
<1> QED
  BY <1>8, <1>9, <1>10 DEF n, q

\* No more tokens are looked up than are stored.
LEMMA StoredAreFew ==
    ASSUME NEW s, IsStore(s), NEW T, T \subseteq Range(s)
    PROVE  IsFiniteSet(T) /\ Cardinality(T) <= MaxStored /\ T \subseteq Ids
<1> DEFINE n == Len(s)
<1>1. n \in Nat /\ DOMAIN s = 1 .. n /\ s \in [ 1 .. n -> Ids ] /\ n <= MaxStored
  BY DEF IsStore
<1>2. IsFiniteSet(1 .. n) /\ Cardinality(1 .. n) = n
  BY <1>1, FS_Interval
<1>3. s \in Surjection(1 .. n, Range(s))
  BY <1>1 DEF Surjection, Range
<1> HIDE DEF n
<1>4. IsFiniteSet(Range(s)) /\ Cardinality(Range(s)) <= n
  BY <1>2, <1>3, FS_Surjection
<1>5. IsFiniteSet(T) /\ Cardinality(T) <= Cardinality(Range(s))
  BY <1>4, FS_Subset
<1>6. Cardinality(T) \in Nat /\ Cardinality(Range(s)) \in Nat
  BY <1>4, <1>5, FS_CardinalityType
<1>7. Cardinality(T) <= MaxStored
  BY <1>1, <1>4, <1>5, <1>6, GuestAssumption
<1>8. T \subseteq Ids
  BY <1>1 DEF Range
<1> QED
  BY <1>5, <1>7, <1>8

----------------------------------------------------------------------------
\* Queues of requests, of a set of requests

LEMMA EntrySent ==
    ASSUME NEW S, NEW s \in Seq(S), NEW e \in S
    PROVE  Append(s, e) \in Seq(S) /\ Len(Append(s, e)) = Len(s) + 1
  OBVIOUS

LEMMA EntryReplaced ==
    ASSUME NEW S, NEW s \in Seq(S), NEW i \in DOMAIN s, NEW e \in S
    PROVE  /\ [ s EXCEPT ![i] = e ] \in Seq(S)
           /\ Len([ s EXCEPT ![i] = e ]) = Len(s)
  OBVIOUS

LEMMA EntriesRewritten ==
    ASSUME NEW S, NEW s \in Seq(S), NEW t, t = [ i \in DOMAIN s |-> t[i] ],
           \A i \in DOMAIN s : t[i] \in S
    PROVE  t \in Seq(S) /\ Len(t) = Len(s)
<1>1. DOMAIN s = 1 .. Len(s) /\ Len(s) \in Nat
  OBVIOUS
<1>2. t \in [ 1 .. Len(s) -> S ]
  BY <1>1
<1> QED
  BY <1>1, <1>2

----------------------------------------------------------------------------
\* The types

\* A draft that an answer names is one of the new reservations.
OwnRequest ==
    { q \in Request : q.answer # NoAnswer => q.answer.draft \in Reservations }

\* A search asks for no more than is stored, and finds nothing else; what it
\* remembers has been answered.
FewLoad ==
    { l \in Load :
        /\ IsFiniteSet(l.ids) /\ Cardinality(l.ids) <= MaxStored
        /\ l.answer # NoAnswer =>
             \A r \in Ids : l.answer[r] # "absent" => r \in l.ids
        /\ l.kept => l.answer # NoAnswer }

\* The checkout is never mounted without a price.
CheckoutTyped ==
    /\ quote \in Quote \cup {NoQuote}
    /\ OnCheckout => quote \in Quote
    /\ marked \in BOOLEAN
    /\ autoRefreshing \in BOOLEAN
    /\ isSubmitting \in BOOLEAN
    /\ isRefreshing \in BOOLEAN
    /\ requests \in Seq(OwnRequest)
    /\ Len(requests) <= MaxRequests

PaymentTyped ==
    /\ processing \in BOOLEAN
    /\ snapshot \in PaymentStatus \cup {NoSnapshot}
    /\ notice \in { "idle", "progress", "error" }
    /\ orphans \subseteq Reservations

AccountTyped ==
    /\ email \in Emails \cup {NoEmail}
    /\ loading \in BOOLEAN
    /\ items \in [ Ids -> Shown ]
    /\ busy \in Ids \cup {NoId}
    /\ inStayBusy \in Ids \cup {NoId}
    /\ loads \in Seq(FewLoad)
    /\ Len(loads) <= MaxLoads
    /\ rowCalls \in Seq(RowCall)
    /\ Len(rowCalls) <= MaxRowCalls

\* The reservations that are named by the address, the navigation, the redirect
\* that waits for its timer, and the press of Pay.
Carried ==
    { at.url.id }
      \cup (IF nav = NoPage THEN {} ELSE { nav.url.id })
      \cup (IF redirect = NoPage THEN {} ELSE { redirect.url.id })
      \cup (IF call = NoCall THEN {} ELSE { call.url.id })

CarriedAreOwn == Carried \subseteq Reservations \cup {NoId}

GuestInv ==
    /\ PaidInv
    /\ IsStore(store)
    /\ CheckoutTyped
    /\ PaymentTyped
    /\ AccountTyped
    /\ CarriedAreOwn

----------------------------------------------------------------------------
\* What the pages name

\* A name comes with the answer to a submit, or has been carried before.
NamesFollow ==
    \A id \in Carried' :
        \/ id = NoId
        \/ id \in Carried
        \/ \E i \in DOMAIN requests :
              SubmitAnswered(i) /\ id = requests[i].answer.draft

LEMMA NamesStay ==
    ASSUME UNCHANGED << at, nav, redirect, call >>
    PROVE  NamesFollow
  BY DEF NamesFollow, Carried

LEMMA NamedByPayment ==
    ASSUME PagesTyped, PaymentNext
    PROVE  NamesFollow
<1> USE DEF NamesFollow, Carried
<1>1. ASSUME ServeAttempt \/ ServePoll PROVE NamesFollow
  <2>1. call \in Call /\ call # NoCall
    BY <1>1 DEF PagesTyped, ServeAttempt, ServePoll, Awaits
  <2>2. PICK a : call' = [ call EXCEPT !.answer = a ]
    BY <1>1 DEF ServeAttempt, ServePoll, Reply
  <2>3. call'.url = call.url
    BY <2>1, <2>2 DEF Call
  <2>4. UNCHANGED << at, nav, redirect >>
    BY <1>1 DEF ServeAttempt, ServePoll, guestVars
  <2> QED
    BY <2>1, <2>3, <2>4
<1>2. ASSUME NEW money, Finish(money), Answered, UNCHANGED << at, nav >>
      PROVE  NamesFollow
  <2>1. call \in Call /\ call.url \in Url /\ call # NoCall
    BY <1>2 DEF PagesTyped, Answered, Call
  <2>2. redirect'.url.id = call.url.id
    BY <1>2, <2>1 DEF Finish, Result, Url
  <2> QED
    BY <1>2, <2>1, <2>2 DEF Finish
<1>3. ASSUME AttemptAnswered \/ PollAnswered PROVE NamesFollow
  <2>1. call \in Call /\ call # NoCall /\ UNCHANGED << at, nav >> /\ Answered
    BY <1>3
    DEF PagesTyped, AttemptAnswered, PollAnswered, Answered, guestVars
  <2>2. CASE Finish(call.answer)
    BY <1>2, <2>1, <2>2
  <2>3. CASE ~Finish(call.answer)
    <3>1. call'.url = call.url /\ UNCHANGED redirect
      BY <1>3, <2>1, <2>3 DEF AttemptAnswered, PollAnswered, Call
    <3> QED
      BY <2>1, <3>1
  <2> QED
    BY <2>2, <2>3
<1>4. ASSUME PayFailed \/ ServeUnavailable PROVE NamesFollow
  BY <1>4 DEF PayFailed, ServeUnavailable, PressFails, guestVars
<1>5. ASSUME PressPay PROVE NamesFollow
  BY <1>5 DEF PressPay, guestVars
<1>6. ASSUME ChooseMethod \/ StayHere PROVE NamesFollow
  BY <1>6 DEF ChooseMethod, StayHere, guestVars
<1>7. ASSUME FollowRedirect PROVE NamesFollow
  BY <1>7 DEF FollowRedirect, RedirectShown
<1>8. ASSUME LeavePayment PROVE NamesFollow
  <2>1. nav'.url = EmptyUrl \/ nav'.url = at.url
    BY <1>8 DEF LeavePayment, Go
  <2> QED
    BY <1>8, <2>1 DEF LeavePayment, payVars, EmptyUrl
<1>9. ASSUME LeaveSuccess PROVE NamesFollow
  <2>1. at.url \in Url
    BY DEF PagesTyped, Location
  <2>2. nav'.url.id = NoId \/ nav'.url.id = at.url.id
    BY <1>9, <2>1 DEF LeaveSuccess, Go, EmptyUrl, Url
  <2> QED
    BY <1>9, <2>2 DEF LeaveSuccess, payVars
<1>10. ASSUME NEW r, ServeOrphan(r) PROVE NamesFollow
  BY <1>10, NamesStay DEF ServeOrphan
<1> QED
  BY <1>1, <1>3, <1>4, <1>5, <1>6, <1>7, <1>8, <1>9, <1>10
  DEF PaymentNext, PaymentAnswers

LEMMA NamedByCheckout ==
    ASSUME CheckoutNext, UNCHANGED payVars
    PROVE  NamesFollow
<1> USE DEF NamesFollow, Carried
<1>1. ASSUME NEW i \in DOMAIN requests, SubmitAnswered(i) PROVE NamesFollow
  <2>1. nav'.url.id = requests[i].answer.draft
    BY <1>1 DEF SubmitAnswered, Go, EmptyUrl
  <2>2. UNCHANGED << at, redirect, call >>
    BY <1>1 DEF SubmitAnswered, payVars
  <2> QED
    BY <1>1, <2>1, <2>2
<1>2. ASSUME NEW i, QuoteAnswered(i) PROVE NamesFollow
  BY <1>2 DEF QuoteAnswered, Go, EmptyUrl, payVars
<1>3. ASSUME NEW i, ServeCreate(i) \/ QuoteFailed(i) \/ SubmitRefused(i)
      PROVE  NamesFollow
  BY <1>3, NamesStay
  DEF ServeCreate, QuoteFailed, SubmitRefused, guestVars, payVars
<1>4. ASSUME LeaveCheckout PROVE NamesFollow
  BY <1>4 DEF LeaveCheckout, Go, EmptyUrl, payVars
<1>5. ASSUME Tick \/ AutoRefresh \/ PressRefresh \/ PressFormRefresh \/ PressSubmit
      PROVE  NamesFollow
  BY <1>5, NamesStay
  DEF Tick, AutoRefresh, PressRefresh, PressFormRefresh, PressSubmit,
      guestVars, payVars
<1> QED
  BY <1>1, <1>2, <1>3, <1>4, <1>5 DEF CheckoutNext, CheckoutAnswers

LEMMA NamedByAccount ==
    ASSUME AccountNext, UNCHANGED payVars
    PROVE  NamesFollow
<1>1. ASSUME LeaveAccount \/ OpenAccount PROVE NamesFollow
  BY <1>1
  DEF LeaveAccount, OpenAccount, Go, EmptyUrl, payVars, NamesFollow, Carried
<1>2. ASSUME ~LeaveAccount, ~OpenAccount PROVE NamesFollow
  BY <1>2, NamesStay
  DEF AccountNext, PressLoad, TypeEmail, ServeLoad, LoadAnswered, LoadShown,
      LoadFailed, PressRow, PressInStay, ServeCancel, RowAnswered, guestVars, payVars
<1> QED
  BY <1>1, <1>2

LEMMA NamedAtArrival ==
    ASSUME NEW page, Arrive(page)
    PROVE  NamesFollow
<1>1. /\ nav # NoPage /\ nav' = NoPage
      /\ at'.url = nav.url \/ at'.url = EmptyUrl
  BY DEF Arrive, Land
<1>2. \/ UNCHANGED << call, redirect >>
      \/ call' = NoCall /\ redirect' = NoPage
  BY DEF Arrive, PaymentArrives, ResetForm, payVars
<1> QED
  BY <1>1, <1>2 DEF NamesFollow, Carried, EmptyUrl

LEMMA NamesStep ==
    ASSUME PagesTyped, [Next]_vars
    PROVE  NamesFollow
<1>1. ASSUME Book PROVE NamesFollow
  BY <1>1 DEF Book, Go, EmptyUrl, payVars, NamesFollow, Carried
<1>2. ASSUME ServerNext, UNCHANGED payVars PROVE NamesFollow
  BY <1>2, NamesStay
  DEF ServerNext, SettlePayment, ExpireHold, PartnerDecides, payVars
<1>3. ASSUME UNCHANGED vars PROVE NamesFollow
  BY <1>3, NamesStay DEF vars, guestVars, payVars
<1> QED
  BY <1>1, <1>2, <1>3, NamedAtArrival, NamedByCheckout, NamedByPayment,
     NamedByAccount DEF Next

----------------------------------------------------------------------------
\* What a step makes of the list

StoreMoves ==
    /\ IsStore(store')
    /\ \/ Range(store) \subseteq Range(store')
       \/ ~(Range(store') \subseteq Range(store))

LEMMA StoreStays ==
    ASSUME IsStore(store), UNCHANGED store
    PROVE  StoreMoves
  BY DEF StoreMoves

LEMMA StoreRemembers ==
    ASSUME IsStore(store), NEW id \in Ids, store' = Remember(store, id)
    PROVE  StoreMoves /\ id \in Range(store')
<1>1. /\ IsStore(store') /\ id \in Range(store')
      /\ id \in Range(store) => Range(store') = Range(store) \cup {id}
  BY OneRemembered
<1> QED
  BY <1>1 DEF StoreMoves

LEMMA DraftIsOwn ==
    ASSUME CheckoutTyped, NEW i \in DOMAIN requests, SubmitAnswered(i)
    PROVE  requests[i].answer.draft \in Reservations
<1>1. requests[i] \in OwnRequest
  BY DEF CheckoutTyped
<1>2. requests[i].answer # NoAnswer
  BY CheckoutAssumption DEF SubmitAnswered
<1> QED
  BY <1>1, <1>2 DEF OwnRequest

\* The answer to a search names what the search asked for.
LEMMA FoundAreFew ==
    ASSUME AccountTyped, NEW i \in DOMAIN loads, loads[i].answer # NoAnswer
    PROVE  /\ Found(i) \subseteq Ids /\ IsFiniteSet(Found(i))
           /\ Cardinality(Found(i)) \in Nat
           /\ Cardinality(Found(i)) <= MaxStored
<1> DEFINE l == loads[i]
<1>1. l \in FewLoad
  BY DEF AccountTyped
<1>2. Found(i) \subseteq l.ids /\ Found(i) \subseteq Ids
  BY <1>1 DEF FewLoad, Found
<1>3. IsFiniteSet(l.ids) /\ Cardinality(l.ids) <= MaxStored
  BY <1>1 DEF FewLoad
<1> HIDE DEF l
<1>4. IsFiniteSet(Found(i)) /\ Cardinality(Found(i)) <= Cardinality(l.ids)
  BY <1>2, <1>3, FS_Subset
<1>5. Cardinality(Found(i)) \in Nat /\ Cardinality(l.ids) \in Nat
  BY <1>3, <1>4, FS_CardinalityType
<1> QED
  BY <1>2, <1>3, <1>4, <1>5, GuestAssumption

LEMMA StoreLooksUp ==
    ASSUME IsStore(store), AccountTyped, NEW i \in DOMAIN loads, LoadAnswered(i)
    PROVE  StoreMoves
<1> DEFINE S == Found(i)
           n == Cardinality(S)
           q == NewestFirst(S)
<1>1. S \subseteq Ids /\ IsFiniteSet(S) /\ n \in Nat /\ n <= MaxStored
  BY FoundAreFew DEF LoadAnswered
<1>2. store' = RememberAll(store, q)
  BY DEF LoadAnswered
<1> HIDE DEF S
<1>3. q \in [ 1 .. n -> S ] /\ IsInjective(q) /\ Range(q) = S
  BY <1>1, NewestFirstLists
<1> HIDE DEF q, n
<1>4. q \in [ 1 .. n -> Ids ]
  BY <1>1, <1>3
<1>5. /\ IsStore(store')
      /\ Range(q) \subseteq Range(store)
           => Range(store') = Range(store) \cup Range(q)
      /\ Range(q) \subseteq Range(store')
  BY <1>1, <1>2, <1>3, <1>4, AllRemembered
<1>6. CASE Range(q) \subseteq Range(store)
  BY <1>5, <1>6 DEF StoreMoves
<1>7. CASE ~(Range(q) \subseteq Range(store))
  <2>1. ~(Range(store') \subseteq Range(store))
    BY <1>5, <1>7
  <2> QED
    BY <1>5, <2>1 DEF StoreMoves
<1> QED
  BY <1>6, <1>7

LEMMA StoreArrives ==
    ASSUME PagesTyped, IsStore(store), NEW page, Land(page), AccountArrives(page)
    PROVE  StoreMoves
<1>1. nav \in Location /\ nav.url \in Url
  BY DEF Land, PagesTyped, Location
<1>2. UNCHANGED store \/ store' = Entered(nav.url)
  BY DEF AccountArrives
<1>3. nav.url.id = NoId \/ nav.url.id \in Ids
  BY <1>1 DEF Url
<1>4. UNCHANGED store
        \/ (nav.url.id \in Ids /\ store' = Remember(store, nav.url.id))
  BY <1>2, <1>3 DEF Entered
<1> QED
  BY <1>4, StoreStays, StoreRemembers

LEMMA StoreStep ==
    ASSUME GuestInv, [Next]_vars
    PROVE  StoreMoves
<1>0. PagesTyped /\ IsStore(store) /\ CheckoutTyped /\ AccountTyped
  BY DEF GuestInv, PaidInv
<1>1. ASSUME NEW page, Arrive(page) PROVE StoreMoves
  BY <1>0, <1>1, StoreArrives DEF Arrive
<1>2. ASSUME Book \/ UNCHANGED vars PROVE StoreMoves
  BY <1>0, <1>2, StoreStays DEF Book, vars, guestVars
<1>3. ASSUME ServerNext PROVE StoreMoves
  BY <1>0, <1>3, StoreStays
  DEF ServerNext, SettlePayment, ExpireHold, PartnerDecides
<1>4. ASSUME CheckoutNext PROVE StoreMoves
  <2>1. ASSUME NEW i \in DOMAIN requests, SubmitAnswered(i) PROVE StoreMoves
    <3>1. requests[i].answer.draft \in Ids
      BY <1>0, <2>1, DraftIsOwn DEF Ids
    <3> QED
      BY <1>0, <2>1, <3>1, StoreRemembers DEF SubmitAnswered, Remembered
  <2>2. ASSUME UNCHANGED store PROVE StoreMoves
    BY <1>0, <2>2, StoreStays
  <2> QED
    BY <1>4, <2>1, <2>2
    DEF CheckoutNext, CheckoutAnswers, ServeCreate, QuoteAnswered, QuoteFailed,
        SubmitRefused, Tick, AutoRefresh, PressRefresh, PressFormRefresh,
        PressSubmit, LeaveCheckout, guestVars
<1>5. ASSUME PaymentNext PROVE StoreMoves
  BY <1>0, <1>5, StoreStays
  DEF PaymentNext, PaymentAnswers, ServeAttempt, ServePoll, AttemptAnswered,
      PollAnswered, PayFailed, ServeUnavailable, PressPay, ChooseMethod,
      FollowRedirect, StayHere, LeavePayment, LeaveSuccess, ServeOrphan,
      guestVars
<1>6. ASSUME AccountNext PROVE StoreMoves
  <2>1. ASSUME NEW i \in DOMAIN loads, LoadAnswered(i) PROVE StoreMoves
    BY <1>0, <2>1, StoreLooksUp
  <2>2. ASSUME UNCHANGED store PROVE StoreMoves
    BY <1>0, <2>2, StoreStays
  <2> QED
    BY <1>6, <2>1, <2>2
    DEF AccountNext, PressLoad, TypeEmail, ServeLoad, LoadShown, LoadFailed,
        PressRow, PressInStay, ServeCancel, RowAnswered, LeaveAccount, OpenAccount,
        guestVars
<1> QED
  BY <1>1, <1>2, <1>3, <1>4, <1>5, <1>6 DEF Next

----------------------------------------------------------------------------
\* The types of the checkout page

LEMMA RequestIsTyped ==
    ASSUME CheckoutTyped, CanSend, NEW op \in Refreshes \cup {"submit"}
    PROVE  Sent(op) \in Seq(OwnRequest) /\ Len(Sent(op)) <= MaxRequests
<1> DEFINE e == [ op |-> op, live |-> TRUE, answer |-> NoAnswer ]
<1>1. e \in OwnRequest
  BY DEF OwnRequest, Request
<1> HIDE DEF e
<1>2. Append(requests, e) \in Seq(OwnRequest)
      /\ Len(Append(requests, e)) = Len(requests) + 1
  BY <1>1, EntrySent DEF CheckoutTyped
<1>3. Len(requests) < MaxRequests /\ Len(requests) \in Nat /\ MaxRequests \in Nat
  BY CheckoutAssumption DEF CanSend, CheckoutTyped
<1> QED
  BY <1>2, <1>3 DEF Sent, e

LEMMA RequestIsDropped ==
    ASSUME CheckoutTyped, NEW i \in DOMAIN requests
    PROVE  /\ RemoveAt(requests, i) \in Seq(OwnRequest)
           /\ Len(RemoveAt(requests, i)) <= MaxRequests
<1>1. /\ RemoveAt(requests, i) \in Seq(OwnRequest)
      /\ Len(RemoveAt(requests, i)) = Len(requests) - 1
  BY EntryLeaves DEF CheckoutTyped
<1>2. Len(requests) \in Nat /\ Len(requests) <= MaxRequests /\ MaxRequests \in Nat
  BY CheckoutAssumption DEF CheckoutTyped
<1> QED
  BY <1>1, <1>2

\* Only the requests of the page change, and nothing that it shows.
LEMMA RequestsTyped ==
    ASSUME CheckoutTyped, UNCHANGED << at, formVars >>,
           requests' \in Seq(OwnRequest), Len(requests') <= MaxRequests
    PROVE  CheckoutTyped'
  BY DEF CheckoutTyped, formVars, OnCheckout

LEMMA CheckoutStays ==
    ASSUME CheckoutTyped, UNCHANGED << at, checkoutVars >>
    PROVE  CheckoutTyped'
  BY DEF CheckoutTyped, checkoutVars, formVars, OnCheckout

LEMMA CheckoutTypes ==
    ASSUME CheckoutTyped, CheckoutNext
    PROVE  CheckoutTyped'
<1>0. UNCHANGED at
  BY PageKept
<1>1. ASSUME NEW i \in DOMAIN requests, ServeCreate(i) PROVE CheckoutTyped'
  <2>1. PICK r \in Reservations :
          requests' = [ requests EXCEPT ![i].answer = [ draft |-> r ] ]
    BY <1>1 DEF ServeCreate
  <2> DEFINE e == [ requests[i] EXCEPT !.answer = [ draft |-> r ] ]
  <2>2. requests[i] \in OwnRequest /\ requests \in Seq(OwnRequest)
    BY DEF CheckoutTyped
  <2>3. [ draft |-> r ] \in Drafts /\ [ draft |-> r ].draft = r
    BY DEF Drafts, Ids
  <2>4. e \in OwnRequest
    BY <2>2, <2>3 DEF OwnRequest, Request
  <2>5. requests' = [ requests EXCEPT ![i] = e ]
    BY <2>1
  <2> HIDE DEF e
  <2>6. requests' \in Seq(OwnRequest) /\ Len(requests') = Len(requests)
    BY <2>2, <2>4, <2>5, EntryReplaced
  <2> QED
    BY <1>0, <1>1, <2>6, RequestsTyped DEF ServeCreate, CheckoutTyped
<1>2. ASSUME NEW i \in DOMAIN requests, QuoteAnswered(i) \/ QuoteFailed(i)
      PROVE  CheckoutTyped'
  <2>1. requests' \in Seq(OwnRequest) /\ Len(requests') <= MaxRequests
    BY <1>2, RequestIsDropped DEF QuoteAnswered, QuoteFailed, Drop
  <2>2. CASE UNCHANGED formVars
    BY <1>0, <2>1, <2>2, RequestsTyped
  <2>3. CASE ~UNCHANGED formVars
    <3>1. Ended(i)
      BY <1>2, <2>3 DEF QuoteAnswered, QuoteFailed
    <3>2. /\ autoRefreshing' \in BOOLEAN /\ isRefreshing' \in BOOLEAN
          /\ isSubmitting' \in BOOLEAN
      BY <3>1 DEF Ended
    <3>3. marked' \in BOOLEAN
      BY <1>2, <2>3 DEF QuoteAnswered, QuoteFailed
    <3>4. quote' \in Quote \/ quote' = quote
      <4>1. CASE QuoteAnswered(i)
        <5>1. PICK free \in BOOLEAN : quote' = [ free |-> free, age |-> 0 ]
          BY <2>3, <4>1 DEF QuoteAnswered
        <5> QED
          BY <5>1 DEF Quote
      <4>2. CASE QuoteFailed(i)
        BY <2>3, <4>2 DEF QuoteFailed, formVars
      <4> QED
        BY <1>2, <4>1, <4>2
    <3> QED
      BY <1>0, <2>1, <3>2, <3>3, <3>4 DEF CheckoutTyped, OnCheckout
  <2> QED
    BY <2>2, <2>3
<1>3. ASSUME NEW i \in DOMAIN requests, SubmitAnswered(i) PROVE CheckoutTyped'
  <2>1. requests' \in Seq(OwnRequest) /\ Len(requests') <= MaxRequests
    BY <1>3, RequestIsDropped DEF SubmitAnswered, Drop
  <2>2. isSubmitting' \in BOOLEAN
    BY <1>3 DEF SubmitAnswered
  <2> QED
    BY <1>0, <1>3, <2>1, <2>2 DEF SubmitAnswered, CheckoutTyped, OnCheckout
<1>4. ASSUME NEW i \in DOMAIN requests, SubmitRefused(i) PROVE CheckoutTyped'
  <2>1. isSubmitting' \in BOOLEAN
    BY <1>4 DEF SubmitRefused, LockedAfter
  <2>2. CASE requests' = RemoveAt(requests, i)
    <3>1. requests' \in Seq(OwnRequest) /\ Len(requests') <= MaxRequests
      BY <2>2, RequestIsDropped
    <3> QED
      BY <1>0, <1>4, <2>1, <3>1 DEF SubmitRefused, CheckoutTyped, OnCheckout
  <2>3. CASE requests' = [ requests EXCEPT ![i].op = "retry" ]
    <3> DEFINE e == [ requests[i] EXCEPT !.op = "retry" ]
    <3>1. requests[i] \in OwnRequest /\ requests \in Seq(OwnRequest)
      BY DEF CheckoutTyped
    <3>2. e \in OwnRequest
      BY <3>1 DEF OwnRequest, Request, Refreshes
    <3>3. requests' = [ requests EXCEPT ![i] = e ]
      BY <2>3
    <3> HIDE DEF e
    <3>4. requests' \in Seq(OwnRequest) /\ Len(requests') = Len(requests)
      BY <3>1, <3>2, <3>3, EntryReplaced
    <3> QED
      BY <1>0, <1>4, <2>1, <3>4 DEF SubmitRefused, CheckoutTyped, OnCheckout
  <2> QED
    BY <1>4, <2>2, <2>3 DEF SubmitRefused
<1>5. ASSUME Tick PROVE CheckoutTyped'
  <2>1. quote \in Quote /\ quote.age # 2 /\ quote' = [ quote EXCEPT !.age = @ + 1 ]
    BY <1>5 DEF Tick, CheckoutTyped, Expired
  <2>2. quote.age + 1 \in 0 .. 2
    BY <2>1 DEF Quote
  <2>3. quote' \in Quote
    BY <2>1, <2>2 DEF Quote
  <2> QED
    BY <1>0, <1>5, <2>3 DEF Tick, CheckoutTyped
<1>6. ASSUME AutoRefresh \/ PressRefresh \/ PressFormRefresh \/ PressSubmit
      PROVE  CheckoutTyped'
  <2>1. PICK op \in Refreshes \cup {"submit"} : CanSend /\ requests' = Sent(op)
    BY <1>6
    DEF AutoRefresh, PressRefresh, PressFormRefresh, PressSubmit, Refreshes
  <2>2. requests' \in Seq(OwnRequest) /\ Len(requests') <= MaxRequests
    BY <2>1, RequestIsTyped
  <2>3. /\ UNCHANGED quote
        /\ marked' \in BOOLEAN /\ autoRefreshing' \in BOOLEAN
        /\ isSubmitting' \in BOOLEAN /\ isRefreshing' \in BOOLEAN
    BY <1>6
    DEF AutoRefresh, PressRefresh, PressFormRefresh, PressSubmit, formVars,
        CheckoutTyped
  <2> QED
    BY <1>0, <2>2, <2>3 DEF CheckoutTyped, OnCheckout
<1>7. ASSUME LeaveCheckout PROVE CheckoutTyped'
  BY <1>0, <1>7, CheckoutStays DEF LeaveCheckout
<1> QED
  BY <1>1, <1>2, <1>3, <1>4, <1>5, <1>6, <1>7 DEF CheckoutNext, CheckoutAnswers

LEMMA CheckoutTypedAtArrival ==
    ASSUME CheckoutTyped, NEW page, Land(page), CheckoutArrives(page)
    PROVE  CheckoutTyped'
<1>1. at'.page = page
  BY DEF Land
<1>2. CASE page = at.page
  BY <1>1, <1>2
  DEF CheckoutArrives, CheckoutTyped, checkoutVars, formVars, OnCheckout
<1>3. CASE page # at.page
  <2>1. /\ marked' = FALSE /\ autoRefreshing' = FALSE
        /\ isSubmitting' = FALSE /\ isRefreshing' = FALSE
    BY <1>3 DEF CheckoutArrives, ClearForm
  <2>2. CASE page = "checkout"
    <3>1. UNCHANGED requests /\ quote' \in Quote
      BY <1>3, <2>2 DEF CheckoutArrives, Quote
    <3> QED
      BY <2>1, <3>1 DEF CheckoutTyped
  <2>3. CASE page # "checkout"
    <3>1. quote' = NoQuote /\ requests' = Unmounted
      BY <1>3, <2>3 DEF CheckoutArrives
    <3>2. requests \in Seq(OwnRequest)
      BY DEF CheckoutTyped
    <3>3. ASSUME NEW i \in DOMAIN requests PROVE Unmounted[i] \in OwnRequest
      <4>1. requests[i] \in OwnRequest
        BY <3>2
      <4>2. Unmounted[i] = [ requests[i] EXCEPT !.live = FALSE ]
        BY DEF Unmounted
      <4> QED
        BY <4>1, <4>2 DEF OwnRequest, Request
    <3>4. Unmounted = [ i \in DOMAIN requests |-> Unmounted[i] ]
      BY DEF Unmounted
    <3>5. Unmounted \in Seq(OwnRequest) /\ Len(Unmounted) = Len(requests)
      BY <3>2, <3>3, <3>4, EntriesRewritten
    <3> QED
      BY <1>1, <2>1, <2>3, <3>1, <3>5 DEF CheckoutTyped, OnCheckout
  <2> QED
    BY <2>2, <2>3
<1> QED
  BY <1>2, <1>3

----------------------------------------------------------------------------
\* The types of the payment page

LEMMA PaymentStays ==
    ASSUME PaymentTyped, UNCHANGED payVars
    PROVE  PaymentTyped'
  BY DEF PaymentTyped, payVars

LEMMA PressIsOwn ==
    ASSUME PagesTyped, PaymentsNamed, CarriedAreOwn, call # NoCall
    PROVE  call.url.id \in Reservations
<1>1. call.url.id \in Carried
  BY DEF Carried
<1> QED
  BY <1>1, GuestAssumption DEF CarriedAreOwn, PaymentsNamed

LEMMA PaymentTypes ==
    ASSUME PagesTyped, PaymentTyped, PaymentNext
    PROVE  PaymentTyped'
<1>1. ASSUME ServeAttempt \/ ServePoll PROVE PaymentTyped'
  BY <1>1 DEF ServeAttempt, ServePoll, PaymentTyped
<1>2. ASSUME AttemptAnswered \/ PollAnswered PROVE PaymentTyped'
  <2>1. /\ snapshot' = call.answer /\ call.answer \in PaymentStatus
        /\ UNCHANGED orphans
    BY <1>2
    DEF AttemptAnswered, PollAnswered, Answered, PagesTyped, Call
  <2>2. /\ processing' \in BOOLEAN
        /\ notice' \in { "idle", "progress", "error" }
    BY <1>2 DEF AttemptAnswered, PollAnswered, Finish, PaymentTyped
  <2> QED
    BY <2>1, <2>2 DEF PaymentTyped
<1>3. ASSUME PayFailed \/ ServeUnavailable PROVE PaymentTyped'
  BY <1>3 DEF PayFailed, ServeUnavailable, PressFails, PaymentTyped
<1>4. ASSUME PressPay \/ ChooseMethod PROVE PaymentTyped'
  BY <1>4 DEF PressPay, ChooseMethod, PaymentTyped
<1>5. ASSUME FollowRedirect \/ StayHere \/ LeavePayment \/ LeaveSuccess
      PROVE  PaymentTyped'
  BY <1>5
  DEF FollowRedirect, StayHere, LeavePayment, LeaveSuccess, payVars,
      PaymentTyped
<1>6. ASSUME NEW r, ServeOrphan(r) PROVE PaymentTyped'
  BY <1>6 DEF ServeOrphan, PaymentTyped
<1> QED
  BY <1>1, <1>2, <1>3, <1>4, <1>5, <1>6 DEF PaymentNext, PaymentAnswers

LEMMA PaymentTypedAtArrival ==
    ASSUME PagesTyped, PaymentsNamed, CarriedAreOwn, PaymentTyped,
           NEW page, PaymentArrives(page)
    PROVE  PaymentTyped'
<1>1. Orphaned \subseteq Reservations
  BY PressIsOwn DEF Orphaned, Awaits
<1> QED
  BY <1>1, PaymentStays DEF PaymentArrives, ResetForm, PaymentTyped

----------------------------------------------------------------------------
\* The types of the account page

LEMMA AccountStays ==
    ASSUME AccountTyped, UNCHANGED accountVars
    PROVE  AccountTyped'
  BY DEF AccountTyped, accountVars

\* A search is sent for tokens that are stored.
LEMMA LoadIsTyped ==
    ASSUME AccountTyped, NEW s, IsStore(s), NEW address,
           Len(loads) < MaxLoads,
           loads' = Append(loads, [ ids |-> TokensFor(s, address), live |-> TRUE,
                                    kept |-> FALSE, answer |-> NoAnswer ])
    PROVE  loads' \in Seq(FewLoad) /\ Len(loads') <= MaxLoads
<1> DEFINE T == TokensFor(s, address)
           l == [ ids |-> T, live |-> TRUE, kept |-> FALSE,
                  answer |-> NoAnswer ]
<1>1. T \subseteq Range(s)
  BY DEF TokensFor
<1> HIDE DEF T
<1>2. IsFiniteSet(T) /\ Cardinality(T) <= MaxStored /\ T \subseteq Ids
  BY <1>1, StoredAreFew
<1>3. l \in FewLoad
  BY <1>2 DEF FewLoad, Load
<1>4. loads' = Append(loads, l)
  BY DEF T
<1> HIDE DEF l
<1>5. loads' \in Seq(FewLoad) /\ Len(loads') = Len(loads) + 1
  BY <1>3, <1>4, EntrySent DEF AccountTyped
<1>6. Len(loads) \in Nat /\ MaxLoads \in Nat
  BY AccountAssumption DEF AccountTyped
<1> QED
  BY <1>5, <1>6

LEMMA LoadIsDropped ==
    ASSUME AccountTyped, NEW i \in DOMAIN loads
    PROVE  /\ RemoveAt(loads, i) \in Seq(FewLoad)
           /\ Len(RemoveAt(loads, i)) <= MaxLoads
<1>1. /\ RemoveAt(loads, i) \in Seq(FewLoad)
      /\ Len(RemoveAt(loads, i)) = Len(loads) - 1
  BY EntryLeaves DEF AccountTyped
<1>2. Len(loads) \in Nat /\ Len(loads) <= MaxLoads /\ MaxLoads \in Nat
  BY AccountAssumption DEF AccountTyped
<1> QED
  BY <1>1, <1>2

LEMMA RowCallIsTyped ==
    ASSUME AccountTyped, NEW e \in RowCall, Len(rowCalls) < MaxRowCalls
    PROVE  /\ Append(rowCalls, e) \in Seq(RowCall)
           /\ Len(Append(rowCalls, e)) <= MaxRowCalls
<1>1. /\ Append(rowCalls, e) \in Seq(RowCall)
      /\ Len(Append(rowCalls, e)) = Len(rowCalls) + 1
  BY EntrySent DEF AccountTyped
<1>2. Len(rowCalls) \in Nat /\ MaxRowCalls \in Nat
  BY AccountAssumption DEF AccountTyped
<1> QED
  BY <1>1, <1>2

LEMMA ItemsAreTyped == NoItems \in [ Ids -> Shown ]
  BY DEF NoItems, Shown

LEMMA LoadServedTyped ==
    ASSUME PagesTyped, AccountTyped, NEW i \in DOMAIN loads, ServeLoad(i)
    PROVE  AccountTyped'
<1> DEFINE l == loads[i]
           a == [ r \in Ids |-> IF r \in l.ids /\ Exists(r)
                                THEN server[r].status ELSE "absent" ]
           e == [ l EXCEPT !.answer = a ]
<1>1. l \in FewLoad /\ loads \in Seq(FewLoad)
  BY DEF AccountTyped
<1>2. a \in [ Ids -> Shown ]
  <2>1. \A r \in Ids : Exists(r) => server[r].status \in ReservationStatus
    BY RowIsTyped DEF Row
  <2> QED
    BY <2>1 DEF Shown
<1>3. \A r \in Ids : a[r] # "absent" => r \in l.ids
  OBVIOUS
<1>4. loads' = [ loads EXCEPT ![i] = e ]
  BY DEF ServeLoad
<1> HIDE DEF l, a
<1>5. e \in FewLoad
  <2>1. e \in Load
    BY <1>1, <1>2 DEF FewLoad, Load
  <2>2. e.ids = l.ids /\ e.answer = a
    BY <1>1 DEF FewLoad, Load
  <2> HIDE DEF e
  <2> QED
    BY <1>1, <1>2, <1>3, <2>1, <2>2, AccountAssumption DEF FewLoad
<1> HIDE DEF e
<1>6. loads' \in Seq(FewLoad) /\ Len(loads') = Len(loads)
  BY <1>1, <1>4, <1>5, EntryReplaced
<1> QED
  BY <1>6 DEF ServeLoad, AccountTyped

LEMMA LoadEndedTyped ==
    ASSUME AccountTyped, NEW i \in DOMAIN loads, LoadShown(i) \/ LoadFailed(i)
    PROVE  AccountTyped'
<1>1. loads' \in Seq(FewLoad) /\ Len(loads') <= MaxLoads
  BY LoadIsDropped DEF LoadShown, LoadFailed
<1>2. loads[i] \in FewLoad
  BY DEF AccountTyped
<1>3. items' \in [ Ids -> Shown ] /\ loading' \in BOOLEAN
  BY <1>2, ItemsAreTyped, AccountAssumption
  DEF LoadShown, LoadFailed, AccountTyped, FewLoad, Load
<1>4. rowCalls' \in Seq(RowCall) /\ Len(rowCalls') <= MaxRowCalls
  <2>1. CASE UNCHANGED rowCalls
    BY <2>1 DEF AccountTyped
  <2>2. CASE ~UNCHANGED rowCalls
    <3> DEFINE e == [ op |-> "inStayAll", ids |-> Eligible(i),
                      email |-> email, answer |-> NoAnswer ]
    <3>1. rowCalls' = Append(rowCalls, e) /\ Len(rowCalls) < MaxRowCalls
      BY <2>2 DEF LoadShown, LoadFailed
    <3>2. e \in RowCall
      BY DEF RowCall, Eligible, Found, AccountTyped
    <3> HIDE DEF e
    <3> QED
      BY <3>1, <3>2, RowCallIsTyped
  <2> QED
    BY <2>1, <2>2
<1>5. UNCHANGED << email, busy, inStayBusy >>
  BY DEF LoadShown, LoadFailed
<1> QED
  BY <1>1, <1>3, <1>4, <1>5 DEF AccountTyped

LEMMA LoadRememberedTyped ==
    ASSUME AccountTyped, NEW i \in DOMAIN loads, LoadAnswered(i)
    PROVE  AccountTyped'
<1> DEFINE e == [ loads[i] EXCEPT !.kept = TRUE ]
<1>1. loads[i] \in FewLoad /\ loads \in Seq(FewLoad)
  BY DEF AccountTyped
<1>2. /\ e \in Load /\ e.ids = loads[i].ids
      /\ e.answer = loads[i].answer
  BY <1>1 DEF FewLoad, Load
<1>3. loads' = [ loads EXCEPT ![i] = e ]
  BY DEF LoadAnswered
<1> HIDE DEF e
<1>4. e \in FewLoad
  BY <1>1, <1>2 DEF FewLoad, LoadAnswered
<1>5. loads' \in Seq(FewLoad) /\ Len(loads') = Len(loads)
  BY <1>1, <1>3, <1>4, EntryReplaced
<1> QED
  BY <1>5 DEF LoadAnswered, AccountTyped

LEMMA AccountTypes ==
    ASSUME PagesTyped, IsStore(store), AccountTyped, AccountNext
    PROVE  AccountTyped'
<1>1. ASSUME PressLoad PROVE AccountTyped'
  <2>1. CASE UNCHANGED loads
    <3>1. loading' = loading /\ items' \in [ Ids -> Shown ]
      BY <1>1, <2>1, ItemsAreTyped DEF PressLoad, Search, AccountTyped
    <3> QED
      BY <1>1, <2>1, <3>1 DEF PressLoad, AccountTyped
  <2>2. CASE ~UNCHANGED loads
    <3>1. /\ loading' = TRUE /\ UNCHANGED items
          /\ loads' = Append(loads, [ ids |-> TokensFor(store, email),
                                      live |-> TRUE, kept |-> FALSE,
                                      answer |-> NoAnswer ])
      BY <1>1, <2>2 DEF PressLoad, Search
    <3>2. loads' \in Seq(FewLoad) /\ Len(loads') <= MaxLoads
      BY <1>1, <3>1, LoadIsTyped DEF PressLoad
    <3> QED
      BY <1>1, <3>1, <3>2 DEF PressLoad, AccountTyped
  <2> QED
    BY <2>1, <2>2
<1>2. ASSUME NEW address \in Emails \cup {NoEmail}, TypeEmail(address)
      PROVE  AccountTyped'
  BY <1>2 DEF TypeEmail, AccountTyped
<1>3. ASSUME NEW r \in Ids, NEW op \in { "payment", "terms", "cancel" },
             PressRow(op, r)
      PROVE  AccountTyped'
  <2> DEFINE e == [ op |-> op, ids |-> {r}, email |-> email,
                    answer |-> NoAnswer ]
  <2>1. rowCalls' = Append(rowCalls, e) /\ Len(rowCalls) < MaxRowCalls
    BY <1>3 DEF PressRow, Ask
  <2>2. e \in RowCall
    BY DEF RowCall, Details, AccountTyped
  <2> HIDE DEF e
  <2>3. rowCalls' \in Seq(RowCall) /\ Len(rowCalls') <= MaxRowCalls
    BY <2>1, <2>2, RowCallIsTyped
  <2> QED
    BY <1>3, <2>3 DEF PressRow, AccountTyped
<1>4. ASSUME NEW r \in Ids, PressInStay(r) PROVE AccountTyped'
  <2> DEFINE e == [ op |-> "inStay", ids |-> {r}, email |-> email,
                    answer |-> NoAnswer ]
  <2>1. rowCalls' = Append(rowCalls, e) /\ Len(rowCalls) < MaxRowCalls
    BY <1>4 DEF PressInStay, Ask
  <2>2. e \in RowCall
    BY DEF RowCall, Details, AccountTyped
  <2> HIDE DEF e
  <2>3. rowCalls' \in Seq(RowCall) /\ Len(rowCalls') <= MaxRowCalls
    BY <2>1, <2>2, RowCallIsTyped
  <2> QED
    BY <1>4, <2>3 DEF PressInStay, AccountTyped
<1>5. ASSUME NEW i \in DOMAIN rowCalls, ServeCancel(i) PROVE AccountTyped'
  <2> DEFINE e == [ rowCalls[i] EXCEPT !.answer = "done" ]
  <2>1. rowCalls[i] \in RowCall /\ rowCalls \in Seq(RowCall)
    BY DEF AccountTyped
  <2>2. e \in RowCall
    BY <2>1 DEF RowCall
  <2>3. rowCalls' = [ rowCalls EXCEPT ![i] = e ]
    BY <1>5 DEF ServeCancel
  <2> HIDE DEF e
  <2>4. rowCalls' \in Seq(RowCall) /\ Len(rowCalls') = Len(rowCalls)
    BY <2>1, <2>2, <2>3, EntryReplaced
  <2> QED
    BY <1>5, <2>4 DEF ServeCancel, AccountTyped
<1>6. ASSUME NEW i \in DOMAIN rowCalls, NEW ok \in BOOLEAN, RowAnswered(i, ok)
      PROVE  AccountTyped'
  <2>1. /\ rowCalls' \in Seq(RowCall) /\ Len(rowCalls') = Len(rowCalls) - 1
    BY <1>6, EntryLeaves DEF RowAnswered, AccountTyped
  <2>2. Len(rowCalls) \in Nat /\ Len(rowCalls) <= MaxRowCalls
        /\ MaxRowCalls \in Nat
    BY AccountAssumption DEF AccountTyped
  <2>3. Len(rowCalls') <= MaxRowCalls
    BY <2>1, <2>2
  <2>4. items' \in [ Ids -> Shown ]
    BY <1>6 DEF RowAnswered, AccountTyped, Shown, ReservationStatus
  <2>5. busy' \in Ids \cup {NoId} /\ inStayBusy' \in Ids \cup {NoId}
    BY <1>6 DEF RowAnswered, BusyAfter, AccountTyped
  <2> QED
    BY <1>6, <2>1, <2>3, <2>4, <2>5 DEF RowAnswered, AccountTyped
<1>7. ASSUME LeaveAccount \/ OpenAccount PROVE AccountTyped'
  BY <1>7, AccountStays DEF LeaveAccount, OpenAccount
<1> QED
  BY <1>1, <1>2, <1>3, <1>4, <1>5, <1>6, <1>7, LoadServedTyped,
     LoadRememberedTyped, LoadEndedTyped DEF AccountNext

LEMMA AccountTypedAtArrival ==
    ASSUME PagesTyped, AccountTyped, IsStore(store'), NEW page, Land(page),
           AccountArrives(page)
    PROVE  AccountTyped'
<1>0. nav \in Location /\ nav.url \in Url
  BY DEF Land, PagesTyped, Location
<1>1. CASE page = "account" /\ at.page # "account"
  <2>1. Address(nav.url) \subseteq Emails \cup {NoEmail}
    <3>1. nav.url.id # NoId => nav.url.id \in Ids
      BY <1>0 DEF Url
    <3>2. nav.url.id # NoId => EmailOf[nav.url.id] \in Emails
      BY <3>1, GuestAssumption
    <3> QED
      BY <3>2 DEF Address
  <2>2. /\ email' \in Emails \cup {NoEmail} /\ Len(loads) < MaxLoads
        /\ UNCHANGED << items, busy, inStayBusy, rowCalls >>
    BY <1>1, <2>1 DEF AccountArrives
  <2>3. loading' \in BOOLEAN
    BY <1>1 DEF AccountArrives
  <2>4. loads' \in Seq(FewLoad) /\ Len(loads') <= MaxLoads
    <3>1. CASE UNCHANGED loads
      BY <3>1 DEF AccountTyped
    <3>2. CASE ~UNCHANGED loads
      <4>1. loads' = Append(loads, [ ids |-> TokensFor(store', email'),
                                     live |-> TRUE, kept |-> FALSE,
                                     answer |-> NoAnswer ])
        BY <1>1, <3>2 DEF AccountArrives
      <4> QED
        BY <2>2, <4>1, LoadIsTyped
    <3> QED
      BY <3>1, <3>2
  <2> QED
    BY <2>2, <2>3, <2>4 DEF AccountTyped
<1>2. CASE page = "account" /\ at.page = "account"
  BY <1>2, AccountStays DEF AccountArrives
<1>3. CASE page # "account"
  <2>1. /\ email' = NoEmail /\ loading' = FALSE /\ items' = NoItems
        /\ busy' = NoId /\ inStayBusy' = NoId
        /\ loads' = UnmountedLoads /\ rowCalls' = << >>
    BY <1>3 DEF AccountArrives
  <2>2. loads \in Seq(FewLoad)
    BY DEF AccountTyped
  <2>3. ASSUME NEW i \in DOMAIN loads PROVE UnmountedLoads[i] \in FewLoad
    <3> DEFINE l == loads[i]
               e == [ l EXCEPT !.live = FALSE ]
    <3>1. l \in FewLoad
      BY <2>2
    <3>2. UnmountedLoads[i] = e
      BY DEF UnmountedLoads
    <3> HIDE DEF l
    <3>3. /\ e \in Load /\ e.ids = l.ids /\ e.answer = l.answer
          /\ e.kept = l.kept
      BY <3>1 DEF FewLoad, Load
    <3> HIDE DEF e
    <3> QED
      BY <3>1, <3>2, <3>3 DEF FewLoad
  <2>4. UnmountedLoads = [ i \in DOMAIN loads |-> UnmountedLoads[i] ]
    BY DEF UnmountedLoads
  <2>5. UnmountedLoads \in Seq(FewLoad) /\ Len(UnmountedLoads) = Len(loads)
    BY <2>2, <2>3, <2>4, EntriesRewritten
  <2>6. << >> \in Seq(RowCall) /\ Len(<< >>) = 0 /\ 0 <= MaxRowCalls
    BY AccountAssumption
  <2> QED
    BY <2>1, <2>5, <2>6, ItemsAreTyped DEF AccountTyped
<1> QED
  BY <1>1, <1>2, <1>3
----------------------------------------------------------------------------
\* The invariant of the pages

LEMMA OthersAreListed ==
    IsStore(SetToSeq(Others)) /\ Range(SetToSeq(Others)) \subseteq Others
<1> DEFINE n == Cardinality(Others)
           Lists(f) == f \in [ 1 .. n -> Others ] /\ IsInjective(f)
           s == SetToSeq(Others)
<1>1. IsFiniteSet(Others) /\ n \in Nat /\ n <= MaxStored
  BY GuestAssumption, FS_CardinalityType
<1>2. \E f : Lists(f)
  <2>1. ExistsBijection(1 .. n, Others)
    BY <1>1, FS_CountingElements, FS_NatBijection
  <2>2. PICK f : f \in Bijection(1 .. n, Others)
    BY <2>1 DEF ExistsBijection
  <2>3. Lists(f)
    BY <2>2 DEF Bijection, Injection, Surjection, IsInjective
  <2> QED
    BY <2>3
<1>3. s = CHOOSE f \in [ 1 .. n -> Others ] : IsInjective(f)
  BY DEF SetToSeq
<1>4. Lists(s)
  BY <1>2, <1>3
<1> HIDE DEF s, n
<1>5. s \in Seq(Ids) /\ Len(s) = n
  BY <1>1, <1>4 DEF Ids
<1>6. Range(s) \subseteq Others
  BY <1>4 DEF Range
<1> QED
  BY <1>1, <1>4, <1>5, <1>6 DEF IsStore, s

LEMMA GuestInitially == Init => GuestInv
<1> SUFFICES ASSUME Init PROVE GuestInv
  OBVIOUS
<1>1. PaidInv
  BY PaidAtFirst
<1>2. IsStore(store)
  BY OthersAreListed DEF Init, GuestInit
<1>3. CheckoutTyped
  <2>1. << >> \in Seq(OwnRequest) /\ Len(<< >>) = 0 /\ 0 <= MaxRequests
    BY CheckoutAssumption
  <2> QED
    BY <2>1 DEF Init, GuestInit, CheckoutInit, CheckoutTyped, OnCheckout
<1>4. PaymentTyped
  BY DEF Init, PaymentInit, PaymentTyped
<1>5. AccountTyped
  <2>1. /\ << >> \in Seq(FewLoad) /\ << >> \in Seq(RowCall) /\ Len(<< >>) = 0
        /\ 0 <= MaxLoads /\ 0 <= MaxRowCalls
    BY AccountAssumption
  <2> QED
    BY <2>1, ItemsAreTyped DEF Init, AccountInit, AccountTyped
<1>6. CarriedAreOwn
  BY DEF Init, GuestInit, PaymentInit, CarriedAreOwn, Carried, EmptyUrl
<1> QED
  BY <1>1, <1>2, <1>3, <1>4, <1>5, <1>6 DEF GuestInv

LEMMA OwnAreCarried ==
    ASSUME GuestInv, [Next]_vars
    PROVE  CarriedAreOwn'
<1>1. NamesFollow
  BY NamesStep DEF GuestInv, PaidInv
<1>2. ASSUME NEW i \in DOMAIN requests, SubmitAnswered(i)
      PROVE  requests[i].answer.draft \in Reservations
  BY <1>2, DraftIsOwn DEF GuestInv
<1> QED
  BY <1>1, <1>2 DEF NamesFollow, CarriedAreOwn, GuestInv

LEMMA GuestStep == GuestInv /\ [Next]_vars => GuestInv'
<1> SUFFICES ASSUME GuestInv, [Next]_vars PROVE GuestInv'
  OBVIOUS
<1>0. /\ PagesTyped /\ PaymentsNamed /\ IsStore(store)
      /\ CheckoutTyped /\ PaymentTyped /\ AccountTyped /\ CarriedAreOwn
  BY DEF GuestInv, PaidInv
<1>1. PaidInv'
  BY PaidStep DEF GuestInv
<1>2. IsStore(store')
  BY StoreStep DEF StoreMoves
<1>3. CarriedAreOwn'
  BY OwnAreCarried
<1>4. ASSUME NEW page, Arrive(page)
      PROVE  CheckoutTyped' /\ PaymentTyped' /\ AccountTyped'
  BY <1>0, <1>2, <1>4, CheckoutTypedAtArrival, PaymentTypedAtArrival,
     AccountTypedAtArrival DEF Arrive
<1>5. ASSUME Book \/ UNCHANGED vars
      PROVE  CheckoutTyped' /\ PaymentTyped' /\ AccountTyped'
  BY <1>0, <1>5, CheckoutStays, PaymentStays, AccountStays
  DEF Book, vars, guestVars
<1>6. ASSUME ServerNext, UNCHANGED << checkoutVars, payVars, accountVars >>
      PROVE  CheckoutTyped' /\ PaymentTyped' /\ AccountTyped'
  BY <1>0, <1>6, PageKept, CheckoutStays, PaymentStays, AccountStays
<1>7. ASSUME CheckoutNext, UNCHANGED << payVars, accountVars >>
      PROVE  CheckoutTyped' /\ PaymentTyped' /\ AccountTyped'
  BY <1>0, <1>7, CheckoutTypes, PaymentStays, AccountStays
<1>8. ASSUME PaymentNext, UNCHANGED << checkoutVars, accountVars >>
      PROVE  CheckoutTyped' /\ PaymentTyped' /\ AccountTyped'
  BY <1>0, <1>8, PageKept, CheckoutStays, PaymentTypes, AccountStays
<1>9. ASSUME AccountNext, UNCHANGED << checkoutVars, payVars >>
      PROVE  CheckoutTyped' /\ PaymentTyped' /\ AccountTyped'
  BY <1>0, <1>9, PageKept, CheckoutStays, PaymentStays, AccountTypes
<1> QED
  BY <1>1, <1>2, <1>3, <1>4, <1>5, <1>6, <1>7, <1>8, <1>9 DEF Next, GuestInv
\* The rows, the list, the router, the forms and every queue keep their types:
\* the list never holds a reservation twice, nor more than MaxStored of them,
\* and every request names what exists (GuestApi, Checkout, PaymentStep,
\* GuestAccount).
THEOREM GuestTypesHold == Spec => []TypeOK
<1>1. GuestInv => TypeOK
  <2> SUFFICES ASSUME GuestInv PROVE TypeOK
    OBVIOUS
  <2>1. GuestTypeOK
    BY DEF GuestInv, PaidInv, PagesTyped, IsStore, GuestTypeOK
  <2>2. CheckoutTypeOK
    <3>1. requests \in Seq(Request)
      <4>1. OwnRequest \subseteq Request
        BY DEF OwnRequest
      <4>2. requests \in Seq(OwnRequest)
        BY DEF GuestInv, CheckoutTyped
      <4> QED
        BY <4>1, <4>2
    <3>2. << marked, autoRefreshing, isSubmitting, isRefreshing >>
             \in BOOLEAN \X BOOLEAN \X BOOLEAN \X BOOLEAN
      BY DEF GuestInv, CheckoutTyped
    <3> QED
      BY <3>1, <3>2 DEF GuestInv, CheckoutTyped, CheckoutTypeOK
  <2>3. PaymentTypeOK
    BY DEF GuestInv, PaidInv, PagesTyped, PaymentTyped, PaymentTypeOK
  <2>4. AccountTypeOK
    <3>1. loads \in Seq(Load)
      <4>1. FewLoad \subseteq Load
        BY DEF FewLoad
      <4>2. loads \in Seq(FewLoad)
        BY DEF GuestInv, AccountTyped
      <4> QED
        BY <4>1, <4>2
    <3> QED
      BY <3>1 DEF GuestInv, AccountTyped, AccountTypeOK
  <2> QED
    BY <2>1, <2>2, <2>3, <2>4 DEF TypeOK
<1> QED
  BY <1>1, GuestInitially, GuestStep, PTL DEF Spec

\* Looking bookings up never costs a token: a reservation leaves the list only
\* in a step that brings another one in, whatever answers come late or twice
\* (rememberReservationAccess and writeAll of lib/guestAccess.ts).
THEOREM AccessIsNeverTraded == Spec => AccessIsNotTraded
<1>1. GuestInv /\ [Next]_vars =>
        [ ~(Range(store) \subseteq Range(store'))
            => ~(Range(store') \subseteq Range(store)) ]_store
  BY StoreStep DEF StoreMoves
<1> QED
  BY <1>1, GuestInitially, GuestStep, PTL DEF Spec, AccessIsNotTraded

----------------------------------------------------------------------------
\* What the backend knows

\* A step writes one row at most, and no row is removed.
OneRow ==
    \/ UNCHANGED server
    \/ \E r \in Ids : \E row \in Row : server' = [ server EXCEPT ![r] = row ]

LEMMA RowCancels ==
    ASSUME PagesTyped, NEW r \in Ids, Exists(r),
           \E row \in Cancelled(server[r]) :
              server' = [ server EXCEPT ![r] = row ]
    PROVE  OneRow
<1>1. server[r] \in Row
  BY RowIsTyped
<1>2. PICK row \in Cancelled(server[r]) : server' = [ server EXCEPT ![r] = row ]
  OBVIOUS
<1>3. row \in Row
  BY <1>1, <1>2 DEF Cancelled, Row, ReservationStatus, PaymentStatus
<1> QED
  BY <1>2, <1>3 DEF OneRow

LEMMA RowStarts ==
    ASSUME PagesTyped, NEW r \in Ids, Exists(r),
           \E row \in Started(server[r]) :
              server' = [ server EXCEPT ![r] = row ]
    PROVE  OneRow
<1>1. server[r] \in Row
  BY RowIsTyped
<1>2. PICK row \in Started(server[r]) : server' = [ server EXCEPT ![r] = row ]
  OBVIOUS
<1>3. row \in Row
  BY <1>1, <1>2 DEF Started, Row, ReservationStatus, PaymentStatus
<1> QED
  BY <1>2, <1>3 DEF OneRow

LEMMA RowsOfBackend ==
    ASSUME PagesTyped, ServerNext
    PROVE  OneRow
<1>1. ASSUME NEW r \in Reservations, NEW paid \in BOOLEAN, SettlePayment(r, paid)
      PROVE  OneRow
  <2>1. r \in Ids /\ server[r] \in Row
    BY <1>1, RowIsTyped DEF SettlePayment, Ids
  <2> DEFINE row == server'[r]
  <2>2. server' = [ server EXCEPT ![r] = row ]
    BY <1>1, <2>1 DEF SettlePayment, PagesTyped
  <2>3. row \in Row
    BY <1>1, <2>1
    DEF SettlePayment, PagesTyped, Row, ReservationStatus, PaymentStatus
  <2> HIDE DEF row
  <2> QED
    BY <2>1, <2>2, <2>3 DEF OneRow
<1>2. ASSUME NEW r \in Reservations, ExpireHold(r) PROVE OneRow
  <2>1. r \in Ids /\ server[r] \in Row
    BY <1>2, RowIsTyped DEF ExpireHold, Ids
  <2> DEFINE row == server'[r]
  <2>2. server' = [ server EXCEPT ![r] = row ]
    BY <1>2, <2>1 DEF ExpireHold, PagesTyped
  <2>3. row \in Row
    BY <1>2, <2>1
    DEF ExpireHold, PagesTyped, Row, ReservationStatus, PaymentStatus
  <2> HIDE DEF row
  <2> QED
    BY <2>1, <2>2, <2>3 DEF OneRow
<1>3. ASSUME NEW r \in Reservations, PartnerDecides(r, TRUE) PROVE OneRow
  <2>1. r \in Ids /\ server[r] \in Row
    BY <1>3, RowIsTyped DEF PartnerDecides, Ids
  <2> DEFINE row == [ server[r] EXCEPT !.status = "confirmed" ]
  <2>2. server' = [ server EXCEPT ![r] = row ]
    BY <1>3, <2>1 DEF PartnerDecides, PagesTyped
  <2>3. row \in Row
    BY <2>1 DEF Row, ReservationStatus
  <2> HIDE DEF row
  <2> QED
    BY <2>1, <2>2, <2>3 DEF OneRow
<1>4. ASSUME NEW r \in Reservations, PartnerDecides(r, FALSE) PROVE OneRow
  BY <1>4, RowCancels DEF PartnerDecides, Ids
<1> QED
  BY <1>1, <1>2, <1>3, <1>4 DEF ServerNext

LEMMA RowsOfPages ==
    ASSUME PagesTyped, PaymentsNamed, PaymentTyped, PaymentNext
    PROVE  OneRow
<1>1. ASSUME ServeAttempt PROVE OneRow
  <2>1. call.url.id \in Ids
    BY <1>1 DEF PaymentsNamed, ServeAttempt, Awaits
  <2> QED
    BY <1>1, <2>1, RowStarts DEF ServeAttempt
<1>2. ASSUME ServeUnavailable PROVE OneRow
  <2> DEFINE r == call.url.id
             row == [ server[r] EXCEPT !.status = "expired" ]
  <2>1. r \in Ids /\ Exists(r)
    BY <1>2 DEF PaymentsNamed, ServeUnavailable, Awaits
  <2>2. row \in Row
    BY <2>1, RowIsTyped DEF Row, ReservationStatus
  <2>3. server' = [ server EXCEPT ![r] = row ]
    BY <1>2 DEF ServeUnavailable, PagesTyped
  <2> HIDE DEF row, r
  <2> QED
    BY <2>1, <2>2, <2>3 DEF OneRow
<1>3. ASSUME NEW r \in Reservations, ServeOrphan(r) PROVE OneRow
  <2>1. r \in Ids
    BY DEF Ids
  <2>2. CASE UNCHANGED server
    BY <2>2 DEF OneRow
  <2>3. CASE ~UNCHANGED server
    BY <1>3, <2>1, <2>3, RowStarts DEF ServeOrphan
  <2> QED
    BY <2>2, <2>3
<1>4. ASSUME UNCHANGED server PROVE OneRow
  BY <1>4 DEF OneRow
<1> QED
  BY <1>1, <1>2, <1>3, <1>4
  DEF PaymentNext, PaymentAnswers, ServePoll, AttemptAnswered, PollAnswered,
      PayFailed, PressPay, ChooseMethod, FollowRedirect, StayHere,
      LeavePayment, LeaveSuccess, guestVars

LEMMA RowsStep ==
    ASSUME GuestInv, [Next]_vars
    PROVE  OneRow
<1>0. PagesTyped /\ PaymentsNamed /\ PaymentTyped
  BY DEF GuestInv, PaidInv
<1>1. ASSUME UNCHANGED server PROVE OneRow
  BY <1>1 DEF OneRow
<1>2. ASSUME NEW i, ServeCreate(i) PROVE OneRow
  <2>1. PICK r \in Reservations :
          \/ UNCHANGED server
          \/ server' = [ server EXCEPT ![r] = NewRow ]
    BY <1>2 DEF ServeCreate
  <2>2. r \in Ids /\ NewRow \in Row
    BY DEF Ids, NewRow, Row, ReservationStatus, PaymentStatus
  <2> QED
    BY <2>1, <2>2 DEF OneRow
<1>3. ASSUME CheckoutNext PROVE OneRow
  BY <1>1, <1>2, <1>3
  DEF CheckoutNext, CheckoutAnswers, QuoteAnswered, QuoteFailed,
      SubmitAnswered, SubmitRefused, Tick, AutoRefresh, PressRefresh,
      PressFormRefresh, PressSubmit, LeaveCheckout, guestVars
<1>4. ASSUME NEW i \in DOMAIN rowCalls, ServeCancel(i) PROVE OneRow
  <2>1. rowCalls[i] \in RowCall
    BY DEF GuestInv, AccountTyped
  <2>2. PICK r \in rowCalls[i].ids :
          /\ Exists(r)
          /\ \/ UNCHANGED server
             \/ \E row \in Cancelled(server[r]) :
                   server' = [ server EXCEPT ![r] = row ]
    BY <1>4 DEF ServeCancel
  <2>3. r \in Ids
    BY <2>1 DEF RowCall
  <2> QED
    BY <1>0, <1>1, <2>2, <2>3, RowCancels
<1>5. ASSUME AccountNext PROVE OneRow
  BY <1>1, <1>4, <1>5
  DEF AccountNext, PressLoad, TypeEmail, ServeLoad, LoadAnswered, LoadShown,
      LoadFailed, PressRow, PressInStay, RowAnswered, LeaveAccount,
      OpenAccount, guestVars
<1> QED
  BY <1>0, <1>1, <1>3, <1>5, RowsOfBackend, RowsOfPages
  DEF Next, Arrive, Book, vars, guestVars

LEMMA KnownGrows ==
    ASSUME PagesTyped, OneRow
    PROVE  /\ Known \subseteq Known'
           /\ IsFiniteSet(Known) => IsFiniteSet(Known')
<1>1. CASE UNCHANGED server
  BY <1>1 DEF Known, Exists
<1>2. ASSUME NEW r \in Ids, NEW row \in Row,
             server' = [ server EXCEPT ![r] = row ]
      PROVE  Known' = Known \cup {r}
  <2>1. row # NoRow
    BY GuestAssumption
  <2> QED
    BY <1>2, <2>1 DEF PagesTyped, Known, Exists
<1> QED
  BY <1>1, <1>2, FS_AddElement DEF OneRow

----------------------------------------------------------------------------
\* Whatever is named exists

DraftsExist ==
    \A i \in DOMAIN requests :
        requests[i].answer # NoAnswer => requests[i].answer.draft \in Known

FoundExist ==
    \A i \in DOMAIN loads :
        loads[i].answer # NoAnswer => Found(i) \subseteq Known

\* Where an answer that waits for its handler comes from.
DraftsFollow ==
    \A j \in DOMAIN requests' :
        \/ requests'[j].answer = NoAnswer
        \/ requests'[j].answer.draft \in Known'
        \/ \E i \in DOMAIN requests : requests'[j].answer = requests[i].answer

FoundFollow ==
    \A j \in DOMAIN loads' :
        \/ loads'[j].answer = NoAnswer
        \/ \A r \in Ids : loads'[j].answer[r] # "absent" => r \in Known'
        \/ \E i \in DOMAIN loads : loads'[j].answer = loads[i].answer

LEMMA DraftsStay ==
    ASSUME UNCHANGED requests
    PROVE  DraftsFollow
  BY DEF DraftsFollow

LEMMA DraftsServed ==
    ASSUME CheckoutTyped, PagesTyped, NEW i \in DOMAIN requests, ServeCreate(i)
    PROVE  DraftsFollow
<1>1. PICK r \in Reservations :
        /\ requests' = [ requests EXCEPT ![i].answer = [ draft |-> r ] ]
        /\ \/ Open(r) /\ UNCHANGED server
           \/ server' = [ server EXCEPT ![r] = NewRow ]
  BY DEF ServeCreate
<1>2. r \in Known'
  <2>1. r \in Ids /\ NewRow \in Row
    BY DEF Ids, NewRow, Row, ReservationStatus, PaymentStatus
  <2>2. NewRow # NoRow
    BY <2>1, GuestAssumption
  <2> QED
    BY <1>1, <2>1, <2>2 DEF Known, Exists, Open, PagesTyped
<1> DEFINE e == [ requests[i] EXCEPT !.answer = [ draft |-> r ] ]
<1>3. requests[i] \in OwnRequest /\ requests \in Seq(OwnRequest)
  BY DEF CheckoutTyped
<1>4. e.answer.draft = r
  BY <1>3 DEF OwnRequest, Request
<1>5. requests' = [ requests EXCEPT ![i] = e ]
  BY <1>1
<1> HIDE DEF e
<1>6. /\ DOMAIN requests' = DOMAIN requests
      /\ \A j \in DOMAIN requests :
           requests'[j] = IF j = i THEN e ELSE requests[j]
  BY <1>3, <1>5, EntriesChange DEF IsSeq
<1> QED
  BY <1>2, <1>4, <1>6 DEF DraftsFollow

LEMMA DraftsOfOthers ==
    ASSUME CheckoutTyped, NEW i \in DOMAIN requests,
           requests' = RemoveAt(requests, i)
    PROVE  DraftsFollow
<1>1. IsSeq(requests)
  BY DEF CheckoutTyped, IsSeq
<1>2. \A j \in DOMAIN requests' :
        \E k \in DOMAIN requests \ {i} : requests'[j] = requests[k]
  BY <1>1, OthersStay
<1> QED
  BY <1>2 DEF DraftsFollow

LEMMA DraftsStep ==
    ASSUME GuestInv, [Next]_vars
    PROVE  DraftsFollow
<1>0. /\ CheckoutTyped /\ PagesTyped
      /\ IsSeq(requests) /\ requests \in Seq(OwnRequest)
  BY DEF GuestInv, PaidInv, CheckoutTyped, IsSeq
<1>1. ASSUME NEW i \in DOMAIN requests, SubmitRefused(i) PROVE DraftsFollow
  <2>1. CASE requests' = RemoveAt(requests, i)
    BY <1>0, <2>1, DraftsOfOthers
  <2>2. CASE requests' = [ requests EXCEPT ![i].op = "retry" ]
    <3> DEFINE e == [ requests[i] EXCEPT !.op = "retry" ]
    <3>1. requests[i] \in OwnRequest
      BY <1>0
    <3>2. e.answer = requests[i].answer
      BY <3>1 DEF OwnRequest, Request
    <3>3. requests' = [ requests EXCEPT ![i] = e ]
      BY <2>2
    <3> HIDE DEF e
    <3>4. /\ DOMAIN requests' = DOMAIN requests
          /\ \A j \in DOMAIN requests :
               requests'[j] = IF j = i THEN e ELSE requests[j]
      BY <1>0, <3>3, EntriesChange
    <3> QED
      BY <3>2, <3>4 DEF DraftsFollow
  <2> QED
    BY <1>1, <2>1, <2>2 DEF SubmitRefused
<1>2. ASSUME NEW op, requests' = Sent(op) PROVE DraftsFollow
  <2> DEFINE e == [ op |-> op, live |-> TRUE, answer |-> NoAnswer ]
  <2>1. requests' = Append(requests, e) /\ e.answer = NoAnswer
    BY <1>2 DEF Sent
  <2> HIDE DEF e
  <2>2. /\ Len(requests) \in Nat /\ DOMAIN requests = 1 .. Len(requests)
        /\ DOMAIN requests' = 1 .. Len(requests) + 1
        /\ \A j \in DOMAIN requests : requests'[j] = requests[j]
        /\ requests'[Len(requests) + 1] = e
    BY <1>0, <2>1, EntryComes
  <2>3. \A j \in DOMAIN requests' :
          j \in DOMAIN requests \/ j = Len(requests) + 1
    BY <2>2
  <2> QED
    BY <2>1, <2>2, <2>3 DEF DraftsFollow
<1>3. ASSUME CheckoutNext PROVE DraftsFollow
  BY <1>0, <1>1, <1>2, <1>3, DraftsServed, DraftsOfOthers, DraftsStay
  DEF CheckoutNext, CheckoutAnswers, QuoteAnswered, QuoteFailed, Drop,
      SubmitAnswered, Tick, AutoRefresh, PressRefresh, PressFormRefresh,
      PressSubmit, LeaveCheckout, checkoutVars
<1>4. ASSUME NEW page, Arrive(page) PROVE DraftsFollow
  <2>1. CASE UNCHANGED requests
    BY <2>1, DraftsStay
  <2>2. CASE requests' = Unmounted
    <3>1. \A i \in DOMAIN requests : Unmounted[i].answer = requests[i].answer
      <4> SUFFICES ASSUME NEW i \in DOMAIN requests
                   PROVE  Unmounted[i].answer = requests[i].answer
        OBVIOUS
      <4>1. requests[i] \in OwnRequest
        BY <1>0
      <4> QED
        BY <4>1 DEF Unmounted, OwnRequest, Request
    <3>2. DOMAIN Unmounted = DOMAIN requests
      BY DEF Unmounted
    <3> QED
      BY <2>2, <3>1, <3>2 DEF DraftsFollow
  <2> QED
    BY <1>4, <2>1, <2>2 DEF Arrive, CheckoutArrives, checkoutVars
<1> QED
  BY <1>3, <1>4, DraftsStay DEF Next, Book, vars, checkoutVars

LEMMA FoundStay ==
    ASSUME UNCHANGED loads
    PROVE  FoundFollow
  BY DEF FoundFollow

LEMMA FoundServed ==
    ASSUME AccountTyped, NEW i \in DOMAIN loads, ServeLoad(i)
    PROVE  FoundFollow
<1> DEFINE a == [ r \in Ids |-> IF r \in loads[i].ids /\ Exists(r)
                                THEN server[r].status ELSE "absent" ]
           e == [ loads[i] EXCEPT !.answer = a ]
<1>1. loads[i] \in FewLoad /\ IsSeq(loads)
  BY DEF AccountTyped, IsSeq
<1>2. \A r \in Ids : a[r] # "absent" => r \in Known'
  BY DEF Known, Exists, ServeLoad, guestVars
<1>3. loads' = [ loads EXCEPT ![i] = e ]
  BY DEF ServeLoad
<1> HIDE DEF a
<1>4. e.answer = a
  BY <1>1 DEF FewLoad, Load
<1> HIDE DEF e
<1>5. /\ DOMAIN loads' = DOMAIN loads
      /\ \A j \in DOMAIN loads : loads'[j] = IF j = i THEN e ELSE loads[j]
  BY <1>1, <1>3, EntriesChange
<1> QED
  BY <1>2, <1>4, <1>5 DEF FoundFollow

LEMMA FoundOfAsked ==
    ASSUME AccountTyped, NEW ids,
           loads' = Append(loads, [ ids |-> ids, live |-> TRUE,
                                    kept |-> FALSE, answer |-> NoAnswer ])
    PROVE  FoundFollow
<1> DEFINE e == [ ids |-> ids, live |-> TRUE, kept |-> FALSE,
                  answer |-> NoAnswer ]
<1>1. IsSeq(loads) /\ loads' = Append(loads, e) /\ e.answer = NoAnswer
  BY DEF AccountTyped, IsSeq
<1> HIDE DEF e
<1>2. /\ Len(loads) \in Nat /\ DOMAIN loads = 1 .. Len(loads)
      /\ DOMAIN loads' = 1 .. Len(loads) + 1
      /\ \A j \in DOMAIN loads : loads'[j] = loads[j]
      /\ loads'[Len(loads) + 1] = e
  BY <1>1, EntryComes
<1>3. \A j \in DOMAIN loads' : j \in DOMAIN loads \/ j = Len(loads) + 1
  BY <1>2
<1> QED
  BY <1>1, <1>2, <1>3 DEF FoundFollow

LEMMA FoundStep ==
    ASSUME GuestInv, [Next]_vars
    PROVE  FoundFollow
<1>0. AccountTyped /\ IsSeq(loads) /\ loads \in Seq(FewLoad)
  BY DEF GuestInv, AccountTyped, IsSeq
<1>1. ASSUME NEW i \in DOMAIN loads, LoadShown(i) \/ LoadFailed(i)
      PROVE  FoundFollow
  <2>1. loads' = RemoveAt(loads, i)
    BY <1>1 DEF LoadShown, LoadFailed
  <2>2. \A j \in DOMAIN loads' :
          \E k \in DOMAIN loads \ {i} : loads'[j] = loads[k]
    BY <1>0, <2>1, OthersStay
  <2> QED
    BY <2>2 DEF FoundFollow
<1>2. ASSUME NEW i \in DOMAIN loads, LoadAnswered(i) PROVE FoundFollow
  <2> DEFINE e == [ loads[i] EXCEPT !.kept = TRUE ]
  <2>1. loads[i] \in FewLoad
    BY <1>0
  <2>2. loads' = [ loads EXCEPT ![i] = e ]
    BY <1>2 DEF LoadAnswered
  <2>3. e.answer = loads[i].answer
    BY <2>1 DEF FewLoad, Load
  <2> HIDE DEF e
  <2>4. /\ DOMAIN loads' = DOMAIN loads
        /\ \A j \in DOMAIN loads : loads'[j] = IF j = i THEN e ELSE loads[j]
    BY <1>0, <2>2, EntriesChange
  <2> QED
    BY <2>3, <2>4 DEF FoundFollow
<1>3. ASSUME PressLoad PROVE FoundFollow
  <2>1. \/ UNCHANGED loads
        \/ loads' = Append(loads, [ ids |-> TokensFor(store, email),
                                    live |-> TRUE, kept |-> FALSE,
                                    answer |-> NoAnswer ])
    BY <1>3 DEF PressLoad, Search
  <2> QED
    BY <1>0, <2>1, FoundStay, FoundOfAsked
<1>4. ASSUME AccountNext PROVE FoundFollow
  BY <1>0, <1>1, <1>2, <1>3, <1>4, FoundServed, FoundStay
  DEF AccountNext, TypeEmail, PressRow, PressInStay, ServeCancel,
      RowAnswered, LeaveAccount, OpenAccount, accountVars
<1>5. ASSUME NEW page, Arrive(page) PROVE FoundFollow
  <2>1. CASE UNCHANGED loads
    BY <2>1, FoundStay
  <2>2. CASE loads' = Append(loads, [ ids |-> TokensFor(store', email'),
                                      live |-> TRUE, kept |-> FALSE,
                                      answer |-> NoAnswer ])
    BY <1>0, <2>2, FoundOfAsked
  <2>3. CASE loads' = UnmountedLoads
    <3>1. ASSUME NEW i \in DOMAIN loads
          PROVE  UnmountedLoads[i].answer = loads[i].answer
      <4>1. loads[i] \in FewLoad
        BY <1>0
      <4> QED
        BY <4>1 DEF UnmountedLoads, FewLoad, Load
    <3>2. DOMAIN UnmountedLoads = DOMAIN loads
      BY DEF UnmountedLoads
    <3> QED
      BY <2>3, <3>1, <3>2 DEF FoundFollow
  <2> QED
    BY <1>5, <2>1, <2>2, <2>3 DEF Arrive, AccountArrives, accountVars
<1> QED
  BY <1>4, <1>5, FoundStay DEF Next, Book, vars, accountVars

----------------------------------------------------------------------------
\* A browser that never has to let go of a token

\* Whatever is named exists; and as long as there is a place for everything
\* that exists, what a page may lead to is in the list.
KnownInv ==
    /\ IsFiniteSet(Known)
    /\ Range(store) \subseteq Known
    /\ DraftsExist
    /\ FoundExist
    /\ Carried \subseteq Known \cup {NoId}
    /\ Fits(Known) => Carried \subseteq Range(store) \cup {NoId}

\* What a step makes of the list, when all that exists has a place in it.
StoreKeeps ==
    /\ Range(store') \subseteq Known
    /\ Fits(Known) => Range(store) \subseteq Range(store')

LEMMA KeepsStored ==
    ASSUME KnownInv, UNCHANGED store
    PROVE  StoreKeeps
  BY DEF KnownInv, StoreKeeps

LEMMA KeepsRemembered ==
    ASSUME KnownInv, IsStore(store), NEW id \in Known,
           store' = Remember(store, id)
    PROVE  StoreKeeps
<1>1. id \in Ids
  BY DEF Known
<1>2. /\ Range(store') \subseteq Range(store) \cup {id}
      /\ Fits(Range(store) \cup {id})
           => Range(store') = Range(store) \cup {id}
  BY <1>1, OneRemembered
<1>3. Range(store) \cup {id} \subseteq Known
  BY DEF KnownInv
<1>4. Fits(Known) => Fits(Range(store) \cup {id})
  BY <1>3, FewerFit
<1> QED
  BY <1>2, <1>3, <1>4 DEF StoreKeeps

LEMMA KeepsFound ==
    ASSUME KnownInv, IsStore(store), AccountTyped,
           NEW i \in DOMAIN loads, LoadAnswered(i)
    PROVE  StoreKeeps
<1> DEFINE S == Found(i)
           n == Cardinality(S)
           q == NewestFirst(S)
<1>1. S \subseteq Ids /\ IsFiniteSet(S) /\ n \in Nat
  BY FoundAreFew DEF LoadAnswered
<1>2. store' = RememberAll(store, q)
  BY DEF LoadAnswered
<1>3. S \subseteq Known
  BY DEF KnownInv, FoundExist, LoadAnswered
<1> HIDE DEF S
<1>4. q \in [ 1 .. n -> S ] /\ IsInjective(q) /\ Range(q) = S
  BY <1>1, NewestFirstLists
<1> HIDE DEF q, n
<1>5. q \in [ 1 .. n -> Ids ]
  BY <1>1, <1>4
<1>6. /\ Range(store') \subseteq Range(store) \cup Range(q)
      /\ Fits(Range(store) \cup Range(q))
           => Range(store') = Range(store) \cup Range(q)
  BY <1>1, <1>2, <1>4, <1>5, AllRemembered
<1>7. Range(store) \cup Range(q) \subseteq Known
  BY <1>3, <1>4 DEF KnownInv
<1>8. Fits(Known) => Fits(Range(store) \cup Range(q))
  BY <1>7, FewerFit
<1> QED
  BY <1>6, <1>7, <1>8 DEF StoreKeeps

LEMMA DraftIsKnown ==
    ASSUME KnownInv, CheckoutTyped, NEW i \in DOMAIN requests, SubmitAnswered(i)
    PROVE  requests[i].answer.draft \in Known
<1>1. requests[i].answer # NoAnswer
  BY CheckoutAssumption DEF SubmitAnswered
<1> QED
  BY <1>1 DEF KnownInv, DraftsExist

LEMMA KeepsStep ==
    ASSUME GuestInv, KnownInv, [Next]_vars
    PROVE  StoreKeeps
<1>0. PagesTyped /\ IsStore(store) /\ CheckoutTyped /\ AccountTyped
  BY DEF GuestInv, PaidInv
<1>1. ASSUME NEW page, Arrive(page) PROVE StoreKeeps
  <2>1. nav # NoPage /\ nav.url.id \in Carried
    BY <1>1 DEF Arrive, Land, Carried
  <2>2. nav.url.id = NoId \/ nav.url.id \in Known
    BY <2>1 DEF KnownInv
  <2>3. UNCHANGED store \/ store' = Entered(nav.url)
    BY <1>1 DEF Arrive, AccountArrives
  <2>4. UNCHANGED store
          \/ (nav.url.id \in Known /\ store' = Remember(store, nav.url.id))
    BY <2>2, <2>3 DEF Entered
  <2> QED
    BY <1>0, <2>4, KeepsStored, KeepsRemembered
<1>2. ASSUME UNCHANGED store PROVE StoreKeeps
  BY <1>2, KeepsStored
<1>3. ASSUME NEW i \in DOMAIN requests, SubmitAnswered(i) PROVE StoreKeeps
  <2>1. requests[i].answer.draft \in Known
    BY <1>0, <1>3, DraftIsKnown
  <2> QED
    BY <1>0, <1>3, <2>1, KeepsRemembered DEF SubmitAnswered, Remembered
<1>4. ASSUME CheckoutNext PROVE StoreKeeps
  BY <1>2, <1>3, <1>4
  DEF CheckoutNext, CheckoutAnswers, ServeCreate, QuoteAnswered, QuoteFailed,
      SubmitRefused, Tick, AutoRefresh, PressRefresh, PressFormRefresh,
      PressSubmit, LeaveCheckout, guestVars
<1>5. ASSUME PaymentNext PROVE StoreKeeps
  BY <1>2, <1>5
  DEF PaymentNext, PaymentAnswers, ServeAttempt, ServePoll, AttemptAnswered,
      PollAnswered, PayFailed, ServeUnavailable, PressPay, ChooseMethod,
      FollowRedirect, StayHere, LeavePayment, LeaveSuccess, ServeOrphan,
      guestVars
<1>6. ASSUME NEW i \in DOMAIN loads, LoadAnswered(i) PROVE StoreKeeps
  BY <1>0, <1>6, KeepsFound
<1>7. ASSUME AccountNext PROVE StoreKeeps
  BY <1>2, <1>6, <1>7
  DEF AccountNext, PressLoad, TypeEmail, ServeLoad, LoadShown, LoadFailed,
      PressRow, PressInStay, ServeCancel, RowAnswered, LeaveAccount,
      OpenAccount, guestVars
<1>8. ASSUME ServerNext PROVE StoreKeeps
  BY <1>2, <1>8
  DEF ServerNext, SettlePayment, ExpireHold, PartnerDecides
<1> QED
  BY <1>1, <1>2, <1>4, <1>5, <1>7, <1>8 DEF Next, Book, vars, guestVars

LEMMA KnownStep ==
    ASSUME GuestInv, KnownInv, [Next]_vars
    PROVE  KnownInv'
<1>0. /\ PagesTyped /\ CheckoutTyped /\ IsStore(store)
      /\ Known \subseteq Known' /\ IsFiniteSet(Known')
  BY RowsStep, KnownGrows DEF GuestInv, PaidInv, KnownInv
<1>1. NamesFollow /\ StoreKeeps /\ DraftsFollow /\ FoundFollow
  BY <1>0, NamesStep, KeepsStep, DraftsStep, FoundStep
<1>2. ASSUME NEW i \in DOMAIN requests, SubmitAnswered(i)
      PROVE  /\ requests[i].answer.draft \in Known
             /\ requests[i].answer.draft \in Range(store')
  <2>1. requests[i].answer.draft \in Known
    BY <1>0, <1>2, DraftIsKnown
  <2>2. requests[i].answer.draft \in Ids
    BY <2>1 DEF Known
  <2> QED
    BY <1>0, <1>2, <2>1, <2>2, StoreRemembers DEF SubmitAnswered, Remembered
<1>3. DraftsExist'
  BY <1>0, <1>1 DEF KnownInv, DraftsExist, DraftsFollow
<1>4. FoundExist'
  <2> SUFFICES ASSUME NEW j \in DOMAIN loads', loads'[j].answer # NoAnswer,
                      NEW r \in Ids, loads'[j].answer[r] # "absent"
               PROVE  r \in Known'
    BY DEF FoundExist, Found
  <2>1. CASE \E i \in DOMAIN loads : loads'[j].answer = loads[i].answer
    BY <1>0, <2>1 DEF KnownInv, FoundExist, Found
  <2> QED
    BY <1>1, <2>1 DEF FoundFollow
<1>5. Carried' \subseteq Known' \cup {NoId}
  BY <1>0, <1>1, <1>2 DEF NamesFollow, KnownInv
<1>6. ASSUME Fits(Known') PROVE Carried' \subseteq Range(store') \cup {NoId}
  <2>1. Fits(Known)
    BY <1>0, <1>6, FewerFit
  <2> QED
    BY <1>1, <1>2, <2>1 DEF NamesFollow, KnownInv, StoreKeeps
<1>7. Range(store') \subseteq Known'
  BY <1>0, <1>1 DEF StoreKeeps
<1>8. Fits(Known)' <=> Fits(Known')
  BY DEF Fits
<1> QED
  BY <1>0, <1>3, <1>4, <1>5, <1>6, <1>7, <1>8 DEF KnownInv

LEMMA KnownAtFirst == Init => KnownInv
<1> SUFFICES ASSUME Init PROVE KnownInv
  OBVIOUS
<1>1. Known = Others
  <2>1. PastRow \in Row
    BY DEF PastRow, Row, ReservationStatus, PaymentStatus
  <2>2. PastRow # NoRow
    BY <2>1, GuestAssumption
  <2> QED
    BY <2>2 DEF Init, GuestInit, Known, Exists, Ids
<1>2. Range(store) \subseteq Others
  BY OthersAreListed DEF Init, GuestInit
<1>3. Carried = {NoId}
  BY DEF Init, GuestInit, PaymentInit, Carried, EmptyUrl
<1>4. requests = << >> /\ loads = << >>
  BY DEF Init, CheckoutInit, AccountInit
<1>5. DraftsExist /\ FoundExist
  BY <1>4 DEF DraftsExist, FoundExist
<1> QED
  BY <1>1, <1>2, <1>3, <1>5, GuestAssumption DEF KnownInv

\* The reservation of the payment page can be opened again later, however the
\* guest came there: its token is in this browser (ReservationForm.tsx stores
\* it before it goes on), as long as no more reservations exist than writeAll
\* keeps.  Beyond that the address may outlive the end of the list, and
\* nothing is claimed.
THEOREM PayableIsAlwaysRemembered == Spec => []PayableIsRemembered
<1> DEFINE Inv == GuestInv /\ KnownInv
<1>1. Inv => PayableIsRemembered
  <2> SUFFICES ASSUME Inv, at.page = "payment",
                      Cardinality(Known) <= MaxStored
               PROVE  HasToken(store, at.url.id)
    BY DEF PayableIsRemembered
  <2>1. at.url.id \in Ids
    BY DEF GuestInv, PaidInv, PaymentsNamed
  <2>2. at.url.id # NoId
    BY <2>1, GuestAssumption
  <2>3. at.url.id \in Carried
    BY DEF Carried
  <2>4. Fits(Known)
    BY DEF KnownInv, Fits
  <2> QED
    BY <2>2, <2>3, <2>4 DEF KnownInv, HasToken
<1>2. Inv /\ [Next]_vars => Inv'
  BY GuestStep, KnownStep
<1> QED
  BY <1>1, <1>2, GuestInitially, KnownAtFirst, PTL DEF Spec

=============================================================================
