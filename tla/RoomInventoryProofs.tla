-------------------------- MODULE RoomInventoryProofs --------------------------
(***************************************************************************)
(* What the tables and windows of RoomInventory come to, for any number of *)
(* rows, rooms and days: the rooms that the loops take from a day one by   *)
(* one are those of all the rows together, and the windows of the scan are *)
(* the runs of free days.  The induction of the proofs is over the least   *)
(* counterexample (LeastNat).                                              *)
(***************************************************************************)
EXTENDS RoomInventory, FiniteSetTheorems, WellFoundedInduction, TLAPS

\* The order of the numbers, as a relation.
Earlier == { ss \in Nat \X Nat : ss[1] < ss[2] }

LEMMA LeastNat ==
    ASSUME NEW T, T \subseteq Nat, T # {}
    PROVE  \E x \in T : \A y \in T : x <= y
<1>1. IsWellFoundedOn(Earlier, Nat)
  BY NatLessThanWellFounded DEF OpToRel, Earlier
<1>2. PICK x \in T : \A y \in T : << y, x >> \notin Earlier
  BY <1>1, WFMin
<1>3. ASSUME NEW y \in T PROVE x <= y
  <2>1. x \in Nat /\ y \in Nat
    BY <1>2, <1>3
  <2>2. << y, x >> \notin Earlier
    BY <1>2
  <2> QED
    BY <2>1, <2>2 DEF Earlier
<1> QED
  BY <1>2, <1>3

----------------------------------------------------------------------------
\* The table of the days

\* f[s]: what the loop over the rows of s leaves of total rooms, when row x
\* takes amount[x] of them.
Loops(f, B, total, amount) ==
    f = [ s \in SUBSET B |->
            IF s = {} THEN total
            ELSE Cut(f[s \ {CHOOSE x \in s : TRUE}], amount[CHOOSE x \in s : TRUE]) ]

\* The row that the loop over s took last.
Picked(s) == CHOOSE x \in s : TRUE

LEMMA LoopStep ==
    ASSUME NEW B, NEW total, NEW amount, NEW f, Loops(f, B, total, amount),
           NEW s \in SUBSET B, s # {}
    PROVE  Picked(s) \in s /\ f[s] = Cut(f[s \ {Picked(s)}], amount[Picked(s)])
<1>1. Picked(s) \in s
  BY DEF Picked
<1>2. f[s] = IF s = {} THEN total ELSE Cut(f[s \ {Picked(s)}], amount[Picked(s)])
  BY DEF Loops, Picked
<1> QED
  BY <1>1, <1>2

\* w[s]: the rooms that the rows of s take together.
Weighs(w, B, amount) ==
    /\ w \in [ SUBSET B -> Nat ]
    /\ w[{}] = 0
    /\ \A s \in SUBSET B : \A x \in s : w[s] = w[s \ {x}] + amount[x]

LEMMA CutTwice ==
    ASSUME NEW n \in Nat, NEW a \in Nat, NEW b \in Nat
    PROVE  Cut(n, a) \in Nat /\ Cut(Cut(n, a), b) = Cut(n, a + b)
  BY DEF Cut

\* What is left does not depend on the order of the loop.
LEMMA LoopWeighs ==
    ASSUME NEW B, IsFiniteSet(B), NEW total \in Nat, NEW amount \in [ B -> Nat ],
           NEW w, Weighs(w, B, amount), NEW f, Loops(f, B, total, amount)
    PROVE  \A s \in SUBSET B : f[s] = Cut(total, w[s])
<1> DEFINE Wrong == { s \in SUBSET B : f[s] # Cut(total, w[s]) }
           Sizes == { Cardinality(s) : s \in Wrong }
<1>1. SUFFICES ASSUME Wrong # {} PROVE FALSE
  OBVIOUS
<1>2. Sizes \subseteq Nat /\ Sizes # {}
  BY <1>1, FS_Subset, FS_CardinalityType
<1>3. PICK s \in Wrong : \A u \in Wrong : Cardinality(s) <= Cardinality(u)
  <2> HIDE DEF Wrong
  <2>1. PICK n \in Sizes : \A m \in Sizes : n <= m
    BY <1>2, LeastNat
  <2>2. PICK s \in Wrong : Cardinality(s) = n
    BY <2>1
  <2> QED
    BY <2>1, <2>2
<1>4. s # {}
  <2>1. f[{}] = total
    BY DEF Loops
  <2>2. Cut(total, w[{}]) = total
    BY DEF Cut, Weighs
  <2> QED
    BY <1>3, <2>1, <2>2
<1> DEFINE x == Picked(s)
           u == s \ {x}
<1>5. x \in s /\ s \subseteq B /\ u \in SUBSET B
  BY <1>3, <1>4 DEF Picked
<1>6. IsFiniteSet(s) /\ Cardinality(u) = Cardinality(s) - 1 /\ Cardinality(s) \in Nat
  BY <1>5, FS_Subset, FS_RemoveElement, FS_CardinalityType
<1>7. f[u] = Cut(total, w[u])
  <2>1. u \notin Wrong
    <3>1. ~(Cardinality(s) <= Cardinality(u))
      BY <1>6
    <3> QED
      BY <3>1, <1>3
  <2> QED
    BY <2>1, <1>5
<1>8. f[s] = Cut(f[u], amount[x])
  BY <1>4, <1>5, LoopStep
<1>9. w[s] = w[u] + amount[x] /\ w[u] \in Nat /\ amount[x] \in Nat
  BY <1>5 DEF Weighs
<1>10. f[s] = Cut(total, w[s])
  <2> HIDE DEF x, u
  <2>1. Cut(Cut(total, w[u]), amount[x]) = Cut(total, w[u] + amount[x])
    BY <1>9, CutTwice
  <2> QED
    BY <1>7, <1>8, <1>9, <2>1
<1> QED
  BY <1>3, <1>10

\* There is such a loop: recursion over finite sets is well defined.
LEMMA LoopExists ==
    ASSUME NEW B, NEW total \in Nat, NEW amount \in [ B -> Nat ],
           NEW w, Weighs(w, B, amount)
    PROVE  Loops([ s \in SUBSET B |-> Cut(total, w[s]) ], B, total, amount)
<1> DEFINE g == [ s \in SUBSET B |-> Cut(total, w[s]) ]
<1>1. ASSUME NEW s \in SUBSET B
      PROVE  g[s] = IF s = {} THEN total ELSE Cut(g[s \ {Picked(s)}], amount[Picked(s)])
  <2>1. CASE s = {}
    <3>1. g[s] = Cut(total, w[{}])
      BY <2>1
    <3>2. w[{}] = 0
      BY DEF Weighs
    <3> QED
      BY <2>1, <3>1, <3>2 DEF Cut
  <2>2. CASE s # {}
    <3> DEFINE x == Picked(s)
               u == s \ {x}
    <3>1. x \in s /\ u \in SUBSET B
      BY <2>2 DEF Picked
    <3>2. w[s] = w[u] + amount[x] /\ w[u] \in Nat /\ amount[x] \in Nat
      BY <3>1 DEF Weighs
    <3>3. g[s] = Cut(total, w[s]) /\ g[u] = Cut(total, w[u])
      BY <3>1
    <3>4. g[s] = Cut(g[u], amount[x])
      <4> HIDE DEF x, u, g
      <4>1. Cut(Cut(total, w[u]), amount[x]) = Cut(total, w[u] + amount[x])
        BY <3>2, CutTwice
      <4> QED
        BY <3>2, <3>3, <4>1
    <3> QED
      BY <3>4, <2>2
  <2> QED
    BY <2>1, <2>2
<1> HIDE DEF g
<1>2. g = [ s \in SUBSET B |-> g[s] ]
  BY DEF g
<1> QED
  BY <1>1, <1>2 DEF Loops, Picked, g

\* The loop that the fold runs is one of these.
LEMMA LoopIs ==
    ASSUME NEW B, IsFiniteSet(B), NEW total \in Nat, NEW amount \in [ B -> Nat ],
           NEW w, Weighs(w, B, amount)
    PROVE  /\ \E f : Loops(f, B, total, amount)
           /\ \A f : Loops(f, B, total, amount) => f[B] = Cut(total, w[B])
<1>1. \E f : Loops(f, B, total, amount)
  BY LoopExists
<1>2. ASSUME NEW f, Loops(f, B, total, amount) PROVE f[B] = Cut(total, w[B])
  <2>1. \A s \in SUBSET B : f[s] = Cut(total, w[s])
    BY <1>2, LoopWeighs
  <2> QED
    BY <2>1
<1> QED
  BY <1>1, <1>2

\* The rooms that the rows of s take, one by one.
Pile(s, amount) == UNION { {b} \X (1 .. amount[b]) : b \in s }

LEMMA RoomsOfRow ==
    ASSUME NEW b, NEW n \in Nat
    PROVE  /\ IsFiniteSet({b} \X (1 .. n))
           /\ Cardinality({b} \X (1 .. n)) = n
<1>1. IsFiniteSet({b}) /\ Cardinality({b}) = 1
  BY FS_Singleton
<1>2. IsFiniteSet(1 .. n) /\ Cardinality(1 .. n) = n
  BY FS_Interval
<1>3. /\ IsFiniteSet({b} \X (1 .. n))
      /\ Cardinality({b} \X (1 .. n)) = Cardinality({b}) * Cardinality(1 .. n)
  BY <1>1, <1>2, FS_Product
<1> QED
  BY <1>1, <1>2, <1>3

LEMMA PileFinite ==
    ASSUME NEW s, IsFiniteSet(s), NEW amount, \A b \in s : amount[b] \in Nat
    PROVE  IsFiniteSet(Pile(s, amount))
<1> DEFINE Row(b) == {b} \X (1 .. amount[b])
           S == { Row(b) : b \in s }
           f == [ b \in s |-> Row(b) ]
<1>1. IsFiniteSet(S)
  <2>1. f \in Surjection(s, S)
    BY DEF Surjection
  <2> HIDE DEF S, f
  <2> QED
    BY <2>1, FS_Surjection
<1>2. ASSUME NEW b \in s PROVE IsFiniteSet(Row(b))
  BY RoomsOfRow
<1>3. \A u \in S : IsFiniteSet(u)
  BY <1>2
<1>4. Pile(s, amount) = UNION S
  BY DEF Pile
<1> HIDE DEF S
<1> QED
  BY <1>1, <1>3, <1>4, FS_UNION

LEMMA PileWeighs ==
    ASSUME NEW B, IsFiniteSet(B), NEW amount \in [ B -> Nat ]
    PROVE  Weighs([ s \in SUBSET B |-> Cardinality(Pile(s, amount)) ], B, amount)
<1> DEFINE w == [ s \in SUBSET B |-> Cardinality(Pile(s, amount)) ]
<1>1. ASSUME NEW s \in SUBSET B
      PROVE  IsFiniteSet(Pile(s, amount)) /\ Cardinality(Pile(s, amount)) \in Nat
  <2>1. IsFiniteSet(s)
    BY FS_Subset
  <2>2. IsFiniteSet(Pile(s, amount))
    BY <2>1, PileFinite
  <2> QED
    BY <2>2, FS_CardinalityType
<1>2. Pile({}, amount) = {}
  BY DEF Pile
<1>3. ASSUME NEW s \in SUBSET B, NEW x \in s
      PROVE  Cardinality(Pile(s, amount)) = Cardinality(Pile(s \ {x}, amount)) + amount[x]
  <2> DEFINE P == Pile(s \ {x}, amount)
             R == {x} \X (1 .. amount[x])
  <2>1. Pile(s, amount) = P \cup R /\ P \cap R = {}
    BY DEF Pile
  <2>2. amount[x] \in Nat
    OBVIOUS
  <2>3. IsFiniteSet(R) /\ Cardinality(R) = amount[x]
    BY <2>2, RoomsOfRow
  <2>4. IsFiniteSet(P) /\ Cardinality(P) \in Nat
    BY <1>1
  <2> HIDE DEF P, R
  <2>5. Cardinality(P \cup R) = Cardinality(P) + Cardinality(R) - Cardinality(P \cap R)
    BY <2>3, <2>4, FS_Union
  <2>6. Cardinality(P \cap R) = 0
    BY <2>1, FS_EmptySet
  <2>7. Cardinality(P \cup R) = Cardinality(P) + amount[x]
    BY <2>2, <2>3, <2>4, <2>5, <2>6
  <2> QED
    BY <2>1, <2>7 DEF P
<1>4. w \in [ SUBSET B -> Nat ]
  BY <1>1
<1>5. w[{}] = 0
  BY <1>2, FS_EmptySet
<1>6. ASSUME NEW s \in SUBSET B, NEW x \in s PROVE w[s] = w[s \ {x}] + amount[x]
  BY <1>3
<1> HIDE DEF w
<1> QED
  BY <1>4, <1>5, <1>6 DEF Weighs, w

LEMMA SizeWeighs ==
    ASSUME NEW B, IsFiniteSet(B)
    PROVE  Weighs([ s \in SUBSET B |-> Cardinality(s) ], B, [ x \in B |-> 1 ])
<1> DEFINE w == [ s \in SUBSET B |-> Cardinality(s) ]
<1>1. ASSUME NEW s \in SUBSET B PROVE IsFiniteSet(s) /\ Cardinality(s) \in Nat
  BY FS_Subset, FS_CardinalityType
<1>2. ASSUME NEW s \in SUBSET B, NEW x \in s
      PROVE  Cardinality(s) = Cardinality(s \ {x}) + 1
  BY <1>1, FS_RemoveElement
<1> QED
  BY <1>1, <1>2, FS_EmptySet DEF Weighs

----------------------------------------------------------------------------
\* The rooms of a day

BlocksOn(d, blocks) == { b \in DOMAIN blocks : Covers(blocks[b], d) }
GuestsOn(d, t, primary, holds) ==
    { r \in DOMAIN holds : Applies(holds[r], t, primary) /\ Covers(holds[r], d) }

\* The first loop of a day.
AfterBlocks(B, t, total, blocks) ==
    FoldSet(LAMBDA b, n : Cut(n, BlockAmount(blocks[b], t, total)), total, B)

LEMMA BlockedLoop ==
    ASSUME NEW B, IsFiniteSet(B), NEW total \in Nat, NEW t, NEW blocks,
           NEW amount \in [ B -> Nat ],
           \A b \in B : amount[b] = BlockAmount(blocks[b], t, total)
    PROVE  AfterBlocks(B, t, total, blocks) = Cut(total, Cardinality(Pile(B, amount)))
<1> DEFINE Runs(f) ==
             f = [ s \in SUBSET B |->
                     IF s = {} THEN total
                     ELSE Cut(f[s \ {CHOOSE x \in s : TRUE}],
                              BlockAmount(blocks[CHOOSE x \in s : TRUE], t, total)) ]
           w == [ s \in SUBSET B |-> Cardinality(Pile(s, amount)) ]
           left == AfterBlocks(B, t, total, blocks)
<1>1. left = (CHOOSE f : Runs(f))[B]
  BY DEF AfterBlocks, FoldSet, MapThenFoldSet
<1>2. ASSUME NEW f PROVE Runs(f) <=> Loops(f, B, total, amount)
  <2>1. ASSUME NEW s \in SUBSET B, s # {}
        PROVE  amount[CHOOSE x \in s : TRUE]
                 = BlockAmount(blocks[CHOOSE x \in s : TRUE], t, total)
    <3>1. (CHOOSE x \in s : TRUE) \in s
      BY <2>1
    <3> QED
      BY <3>1
  <2> QED
    BY <2>1 DEF Loops
<1>3. Weighs(w, B, amount)
  BY PileWeighs
<1>4. w[B] = Cardinality(Pile(B, amount))
  OBVIOUS
<1> HIDE DEF Runs, w, left
<1>5. Loops(CHOOSE f : Runs(f), B, total, amount)
  BY <1>2, <1>3, LoopIs
<1>6. left = Cut(total, w[B])
  BY <1>1, <1>3, <1>4, <1>5, LoopIs
<1> QED
  BY <1>4, <1>6 DEF left

LEMMA TakenLoop ==
    ASSUME NEW B, IsFiniteSet(B), NEW total \in Nat
    PROVE  FoldSet(LAMBDA r, n : Cut(n, 1), total, B) = Cut(total, Cardinality(B))
<1> DEFINE Runs(f) ==
             f = [ s \in SUBSET B |->
                     IF s = {} THEN total
                     ELSE Cut(f[s \ {CHOOSE x \in s : TRUE}], 1) ]
           w == [ s \in SUBSET B |-> Cardinality(s) ]
           one == [ x \in B |-> 1 ]
           left == FoldSet(LAMBDA r, n : Cut(n, 1), total, B)
<1>1. left = (CHOOSE f : Runs(f))[B]
  BY DEF FoldSet, MapThenFoldSet
<1>2. ASSUME NEW f PROVE Runs(f) <=> Loops(f, B, total, one)
  <2>1. ASSUME NEW s \in SUBSET B, s # {} PROVE one[CHOOSE x \in s : TRUE] = 1
    <3>1. (CHOOSE x \in s : TRUE) \in s
      BY <2>1
    <3> QED
      BY <3>1
  <2> HIDE DEF one
  <2> QED
    BY <2>1 DEF Loops
<1>3. Weighs(w, B, one)
  BY SizeWeighs
<1>4. w[B] = Cardinality(B) /\ one \in [ B -> Nat ]
  OBVIOUS
<1> HIDE DEF Runs, w, one, left
<1>5. Loops(CHOOSE f : Runs(f), B, total, one)
  BY <1>2, <1>3, <1>4, LoopIs
<1>6. left = Cut(total, w[B])
  BY <1>1, <1>3, <1>4, <1>5, LoopIs
<1> QED
  BY <1>4, <1>6 DEF left

\* The table of a day: what is left after all its blocks and guests.
LEMMA DayIs ==
    ASSUME NEW d, NEW t, NEW total \in Nat, NEW primary, NEW blocks, NEW holds,
           IsFiniteSet(DOMAIN blocks), IsFiniteSet(DOMAIN holds),
           NEW amount \in [ BlocksOn(d, blocks) -> Nat ],
           \A b \in BlocksOn(d, blocks) : amount[b] = BlockAmount(blocks[b], t, total)
    PROVE  /\ Cardinality(Pile(BlocksOn(d, blocks), amount)) \in Nat
           /\ Cardinality(GuestsOn(d, t, primary, holds)) \in Nat
           /\ DayAvailable(d, t, total, primary, blocks, holds)
                = Cut(total, Cardinality(Pile(BlocksOn(d, blocks), amount))
                               + Cardinality(GuestsOn(d, t, primary, holds)))
<1> DEFINE B == BlocksOn(d, blocks)
           G == GuestsOn(d, t, primary, holds)
           open == AfterBlocks(B, t, total, blocks)
           left == FoldSet(LAMBDA r, n : Cut(n, 1), open, G)
<1>1. DayAvailable(d, t, total, primary, blocks, holds) = left
  BY DEF DayAvailable, AfterBlocks, BlocksOn, GuestsOn
<1>2. IsFiniteSet(B) /\ IsFiniteSet(G)
  <2>1. B \in SUBSET DOMAIN blocks /\ G \in SUBSET DOMAIN holds
    BY DEF BlocksOn, GuestsOn
  <2> HIDE DEF B, G
  <2> QED
    BY <2>1, FS_Subset
<1>3. Cardinality(Pile(B, amount)) \in Nat /\ Cardinality(G) \in Nat
  BY <1>2, PileFinite, FS_CardinalityType
<1>4. open = Cut(total, Cardinality(Pile(B, amount)))
  <2> HIDE DEF open
  <2> QED
    BY <1>2, BlockedLoop DEF open
<1>5. open \in Nat
  <2> HIDE DEF open, B
  <2> QED
    BY <1>3, <1>4 DEF Cut
<1>6. left = Cut(open, Cardinality(G))
  <2> HIDE DEF open, G
  <2> QED
    BY <1>2, <1>5, TakenLoop
<1> HIDE DEF B, G, open, left
<1>7. left = Cut(total, Cardinality(Pile(B, amount)) + Cardinality(G))
  BY <1>3, <1>4, <1>6, CutTwice
<1> QED
  BY <1>1, <1>3, <1>7 DEF B, G

----------------------------------------------------------------------------
\* The windows

WindowRow == [ from : Nat, to : Nat, count : Nat ]

\* A run of free days, with the rooms of its fullest day; it ends with the days
\* that are asked for, or before a day without rooms.
IsRun(w, a, from, to) ==
    /\ w.from \in from .. to - 1
    /\ w.to \in w.from + 1 .. to
    /\ \A d \in w.from .. w.to - 1 : a[d] > 0 /\ w.count <= a[d]
    /\ \E d \in w.from .. w.to - 1 : w.count = a[d]
    /\ w.to < to => a[w.to] = 0

InOrder(windows) ==
    \A i \in DOMAIN windows : i > 1 => windows[i - 1].to < windows[i].from

\* The scan after the days before d.
Scanned(s, a, from, d) ==
    /\ s \in [ start : Nat, count : Nat, windows : Seq(WindowRow) ]
    /\ \A i \in DOMAIN s.windows :
         /\ IsRun(s.windows[i], a, from, d)
         /\ s.windows[i].to < d
         /\ s.start # NoDay => s.windows[i].to < s.start
    /\ InOrder(s.windows)
    /\ s.start # NoDay => IsRun(Window(s.start, d, s.count), a, from, d)
    /\ \A e \in from .. d - 1 :
         a[e] > 0 <=> \/ \E i \in DOMAIN s.windows : Covers(s.windows[i], e)
                      \/ s.start # NoDay /\ s.start <= e

\* One day of the scan.
NextScan(s, n, d) ==
    IF n > 0 /\ s.start = NoDay
    THEN [ s EXCEPT !.start = d, !.count = n ]
    ELSE IF n > 0
    THEN [ s EXCEPT !.count = NextCount(@, n) ]
    ELSE IF s.start # NoDay
    THEN [ start |-> NoDay, count |-> 0,
           windows |-> Append(s.windows, Window(s.start, d, s.count)) ]
    ELSE s

\* A run that has ended stays one.
LEMMA RunStays ==
    ASSUME NEW w \in WindowRow, NEW a, NEW from \in Nat, NEW d \in Nat,
           IsRun(w, a, from, d), w.to < d
    PROVE  IsRun(w, a, from, d + 1) /\ w.to < d + 1
  BY DEF IsRun, WindowRow

LEMMA RunOpens ==
    ASSUME NEW a, NEW from \in Nat, NEW d \in Nat, from <= d, a[d] \in Nat, a[d] > 0
    PROVE  IsRun(Window(d, d + 1, a[d]), a, from, d + 1)
  BY DEF IsRun, Window

LEMMA RunGoesOn ==
    ASSUME NEW a, NEW from \in Nat, NEW d \in Nat, NEW start \in Nat, NEW count \in Nat,
           \A e \in from .. d : a[e] \in Nat, a[d] > 0,
           IsRun(Window(start, d, count), a, from, d)
    PROVE  IsRun(Window(start, d + 1, NextCount(count, a[d])), a, from, d + 1)
<1> DEFINE m == NextCount(count, a[d])
<1>1. /\ start \in from .. d - 1
      /\ \A e \in start .. d - 1 : a[e] > 0 /\ count <= a[e]
      /\ \E e \in start .. d - 1 : count = a[e]
  BY DEF IsRun, Window
<1>2. m \in Nat /\ m <= count /\ m <= a[d] /\ (m = count \/ m = a[d])
  BY <1>1 DEF NextCount
<1>3. \A e \in start .. d : a[e] > 0 /\ m <= a[e]
  <2> SUFFICES ASSUME NEW e \in start .. d PROVE a[e] > 0 /\ m <= a[e]
    OBVIOUS
  <2>1. CASE e = d
    BY <1>2, <2>1
  <2>2. CASE e \in start .. d - 1
    BY <1>1, <1>2, <2>2
  <2> QED
    BY <2>1, <2>2, <1>1
<1>4. \E e \in start .. d : m = a[e]
  BY <1>1, <1>2
<1> HIDE DEF m
<1> QED
  BY <1>1, <1>3, <1>4 DEF IsRun, Window, m

LEMMA ScannedOn ==
    ASSUME NEW a, NEW from \in Nat, NEW d \in Nat, NEW start \in Nat, NEW count \in Nat,
           NEW ws \in Seq(WindowRow), InOrder(ws),
           \A i \in DOMAIN ws : IsRun(ws[i], a, from, d + 1) /\ ws[i].to < d + 1,
           \A i \in DOMAIN ws : start # NoDay => ws[i].to < start,
           start # NoDay => IsRun(Window(start, d + 1, count), a, from, d + 1),
           \A e \in from .. d :
             a[e] > 0 <=> \/ \E i \in DOMAIN ws : Covers(ws[i], e)
                          \/ start # NoDay /\ start <= e
    PROVE  Scanned([ start |-> start, count |-> count, windows |-> ws ], a, from, d + 1)
<1> DEFINE s == [ start |-> start, count |-> count, windows |-> ws ]
<1>1. /\ s \in [ start : Nat, count : Nat, windows : Seq(WindowRow) ]
      /\ s.start = start /\ s.count = count /\ s.windows = ws
  OBVIOUS
<1> HIDE DEF s
<1>2. ASSUME NEW e \in from .. (d + 1) - 1
      PROVE  a[e] > 0 <=> \/ \E i \in DOMAIN s.windows : Covers(s.windows[i], e)
                          \/ s.start # NoDay /\ s.start <= e
  <2>1. e \in from .. d
    OBVIOUS
  <2> QED
    BY <1>1, <2>1
<1>3. \A i \in DOMAIN s.windows :
        /\ IsRun(s.windows[i], a, from, d + 1)
        /\ s.windows[i].to < d + 1
        /\ s.start # NoDay => s.windows[i].to < s.start
  <2>1. s.start = start /\ s.windows = ws
    BY <1>1
  <2> QED
    BY <2>1
<1>4. InOrder(s.windows)
  BY <1>1
<1>5. s.start # NoDay => IsRun(Window(s.start, d + 1, s.count), a, from, d + 1)
  BY <1>1
<1>6. Scanned(s, a, from, d + 1)
  BY <1>1, <1>2, <1>3, <1>4, <1>5 DEF Scanned
<1> QED
  BY <1>6 DEF s

LEMMA ScanStep ==
    ASSUME NEW a, NEW from \in Nat \ {0}, NEW d \in Nat, from <= d,
           \A e \in from .. d : a[e] \in Nat,
           NEW s, Scanned(s, a, from, d)
    PROVE  Scanned(NextScan(s, a[d], d), a, from, d + 1)
<1> DEFINE ws == s.windows
           t == NextScan(s, a[d], d)
<1>1. s \in [ start : Nat, count : Nat, windows : Seq(WindowRow) ]
  BY DEF Scanned
<1>2. /\ a[d] \in Nat /\ d # NoDay
      /\ \A i \in DOMAIN ws : ws[i] \in WindowRow
  <2>1. \A i \in DOMAIN ws : ws[i] \in WindowRow
    BY <1>1
  <2> QED
    BY <2>1 DEF NoDay
\* The windows that are there already.
<1>3. \A i \in DOMAIN ws : IsRun(ws[i], a, from, d + 1) /\ ws[i].to < d + 1
  BY <1>2, RunStays DEF Scanned
<1>4. \A i \in DOMAIN ws : ws[i].to < d
  BY DEF Scanned
<1>5. \A e \in from .. d - 1 :
         a[e] > 0 <=> \/ \E i \in DOMAIN ws : Covers(ws[i], e)
                      \/ s.start # NoDay /\ s.start <= e
  BY DEF Scanned
<1>6. \A i \in DOMAIN ws : ~Covers(ws[i], d)
  BY <1>2, <1>4 DEF Covers, WindowRow
<1>7. \A e \in from .. d : e = d \/ e \in from .. d - 1
  OBVIOUS
<1>12. ws \in Seq(WindowRow) /\ InOrder(ws)
  BY <1>1 DEF Scanned
\* A day with rooms opens a window ...
<1>8. CASE a[d] > 0 /\ s.start = NoDay
  <2>1. t = [ start |-> d, count |-> a[d], windows |-> ws ]
    BY <1>1, <1>8 DEF NextScan
  <2>2. IsRun(Window(d, d + 1, a[d]), a, from, d + 1)
    BY <1>2, <1>8, RunOpens
  <2>3. ASSUME NEW e \in from .. d
        PROVE  a[e] > 0 <=> (\E i \in DOMAIN ws : Covers(ws[i], e)) \/ d <= e
    BY <1>5, <1>7, <1>8
  <2> HIDE DEF t, ws
  <2>4. Scanned(t, a, from, d + 1)
    BY <1>2, <1>3, <1>4, <1>12, <2>1, <2>2, <2>3, ScannedOn
  <2> QED
    BY <2>4 DEF t
\* ... or belongs to the one that is open;
<1>9. CASE a[d] > 0 /\ s.start # NoDay
  <2>1. t = [ start |-> s.start, count |-> NextCount(s.count, a[d]), windows |-> ws ]
    BY <1>1, <1>9 DEF NextScan
  <2>2. IsRun(Window(s.start, d + 1, NextCount(s.count, a[d])), a, from, d + 1)
    BY <1>1, <1>2, <1>9, RunGoesOn DEF Scanned
  <2>3. ASSUME NEW e \in from .. d
        PROVE  a[e] > 0 <=> (\E i \in DOMAIN ws : Covers(ws[i], e)) \/ s.start <= e
    <3>1. s.start \in Nat /\ s.start <= d
      BY <1>1, <1>9 DEF Scanned, IsRun, Window
    <3> QED
      BY <3>1, <1>5, <1>7, <1>9
  <2>4. NextCount(s.count, a[d]) \in Nat
    BY <1>1, <1>2 DEF NextCount
  <2>5. \A i \in DOMAIN ws : ws[i].to < s.start
    BY <1>9 DEF Scanned
  <2> HIDE DEF t, ws
  <2>6. Scanned(t, a, from, d + 1)
    BY <1>1, <1>3, <1>9, <1>12, <2>1, <2>2, <2>3, <2>4, <2>5, ScannedOn
  <2> QED
    BY <2>6 DEF t
\* a full day closes it ...
<1>10. CASE a[d] = 0 /\ s.start # NoDay
  <2> DEFINE w == Window(s.start, d, s.count)
  <2>1. t = [ start |-> NoDay, count |-> 0, windows |-> Append(ws, w) ]
    BY <1>1, <1>10 DEF NextScan
  <2>2. w \in WindowRow
    BY <1>1 DEF Window, WindowRow
  <2>3. IsRun(w, a, from, d)
    BY <1>10 DEF Scanned
  <2>4. IsRun(w, a, from, d + 1) /\ w.to < d + 1
    BY <2>3, <1>10 DEF IsRun, Window
  <2>5. /\ Append(ws, w) \in Seq(WindowRow)
        /\ DOMAIN Append(ws, w) = DOMAIN ws \cup {Len(ws) + 1}
        /\ \A i \in DOMAIN ws : Append(ws, w)[i] = ws[i]
        /\ Append(ws, w)[Len(ws) + 1] = w
        /\ DOMAIN ws = 1 .. Len(ws) /\ Len(ws) \in Nat
    BY <1>1, <2>2
  <2>6. \A i \in DOMAIN ws : ws[i].to < w.from
    BY <1>10 DEF Scanned, Window
  <2>7. ASSUME NEW e \in from .. d
        PROVE  a[e] > 0 <=> \E i \in DOMAIN Append(ws, w) : Covers(Append(ws, w)[i], e)
    <3>1. (\E i \in DOMAIN Append(ws, w) : Covers(Append(ws, w)[i], e))
            <=> (\E i \in DOMAIN ws : Covers(ws[i], e)) \/ Covers(w, e)
      BY <2>5
    <3>2. Covers(w, e) <=> s.start <= e /\ e < d
      BY DEF Covers, Window
    <3> QED
      BY <3>1, <3>2, <1>5, <1>6, <1>7, <1>10
  <2>8. InOrder(Append(ws, w))
    <3>1. InOrder(ws)
      BY DEF Scanned
    <3> HIDE DEF ws, w
    <3> QED
      BY <3>1, <2>5, <2>6 DEF InOrder
  <2>9. \A i \in DOMAIN Append(ws, w) :
           /\ IsRun(Append(ws, w)[i], a, from, d + 1)
           /\ Append(ws, w)[i].to < d + 1
    <3> HIDE DEF ws, w
    <3> QED
      BY <1>3, <2>4, <2>5
  <2> DEFINE vs == Append(ws, w)
  <2> HIDE DEF t, ws, w, vs
  <2>10. Scanned([ start |-> 0, count |-> 0, windows |-> vs ], a, from, d + 1)
    BY <2>5, <2>7, <2>8, <2>9, ScannedOn DEF NoDay, vs
  <2>11. Scanned(t, a, from, d + 1)
    BY <2>1, <2>10 DEF NoDay, vs
  <2> QED
    BY <2>11 DEF t
\* ... or leaves everything as it is.
<1>11. CASE a[d] = 0 /\ s.start = NoDay
  <2>1. t = s
    BY <1>11 DEF NextScan
  <2>2. ASSUME NEW e \in from .. d
        PROVE  a[e] > 0 <=> \E i \in DOMAIN ws : Covers(ws[i], e)
    BY <1>5, <1>6, <1>7, <1>11
  <2>3. s = [ start |-> s.start, count |-> s.count, windows |-> ws ]
    BY <1>1
  <2>4. s.start \in Nat /\ s.count \in Nat
    BY <1>1
  <2> HIDE DEF t, ws
  <2> DEFINE r == [ start |-> s.start, count |-> s.count, windows |-> ws ]
  <2>5. Scanned(r, a, from, d + 1)
    BY <1>3, <1>11, <1>12, <2>2, <2>4, ScannedOn
  <2> QED
    BY <2>1, <2>3, <2>5 DEF t
<1> QED
  BY <1>2, <1>8, <1>9, <1>10, <1>11

\* scan, up to day n.
NoScan == [ start |-> NoDay, count |-> 0, windows |-> << >> ]
Scans(f, a, from, n) ==
    f = [ d \in from .. n |->
            IF d = from THEN NoScan ELSE NextScan(f[d - 1], a[d - 1], d - 1) ]

\* Recursion over days is well defined.
LEMMA ScanExists ==
    ASSUME NEW a, NEW from \in Nat, NEW to \in Nat, from <= to
    PROVE  \E f : Scans(f, a, from, to)
<1> DEFINE Wrong == { n \in from .. to : ~ \E f : Scans(f, a, from, n) }
<1>1. SUFFICES ASSUME Wrong # {} PROVE FALSE
  OBVIOUS
<1>2. PICK n \in Wrong : \A m \in Wrong : n <= m
  <2>1. Wrong \subseteq Nat
    OBVIOUS
  <2> HIDE DEF Wrong
  <2> QED
    BY <1>1, <2>1, LeastNat
<1>3. CASE n = from
  <2>1. Scans([ d \in from .. from |-> NoScan ], a, from, from)
    BY DEF Scans
  <2> QED
    BY <1>3, <2>1
<1>4. CASE n # from
  <2>1. n - 1 \in from .. to /\ n - 1 \notin Wrong
    BY <1>2, <1>4
  <2>2. PICK f : Scans(f, a, from, n - 1)
    BY <2>1
  <2> DEFINE g == [ d \in from .. n |->
                      IF d < n THEN f[d] ELSE NextScan(f[n - 1], a[n - 1], n - 1) ]
  <2>3. ASSUME NEW d \in from .. n
        PROVE  g[d] = IF d = from THEN NoScan
                      ELSE NextScan(g[d - 1], a[d - 1], d - 1)
    <3>1. CASE d = n
      <4>1. g[d] = NextScan(f[n - 1], a[n - 1], n - 1) /\ d # from
        BY <3>1, <1>4
      <4>2. g[n - 1] = f[n - 1]
        BY <2>1
      <4> QED
        BY <3>1, <4>1, <4>2
    <3>2. CASE d < n
      <4>1. g[d] = f[d] /\ d \in from .. n - 1
        BY <3>2
      <4>2. f[d] = IF d = from THEN NoScan ELSE NextScan(f[d - 1], a[d - 1], d - 1)
        BY <2>2, <4>1 DEF Scans
      <4>3. d # from => g[d - 1] = f[d - 1]
        BY <4>1
      <4> HIDE DEF g
      <4> QED
        BY <4>1, <4>2, <4>3
    <3> QED
      BY <3>1, <3>2
  <2>4. g = [ d \in from .. n |-> g[d] ]
    OBVIOUS
  <2> HIDE DEF g
  <2>5. Scans(g, a, from, n)
    BY <2>3, <2>4 DEF Scans
  <2> QED
    BY <2>5, <1>2
<1> QED
  BY <1>3, <1>4

LEMMA ScanFound ==
    ASSUME NEW a, NEW from \in Nat, NEW to \in Nat, from <= to
    PROVE  \E f : Scans(f, a, from, to) /\ Scan(a, from, to) = f[to]
<1> DEFINE Runs(f) ==
             f = [ d \in from .. to |->
                     IF d = from THEN NoScan ELSE NextScan(f[d - 1], a[d - 1], d - 1) ]
<1>1. Scan(a, from, to) = (CHOOSE f : Runs(f))[to]
  BY DEF Scan, NextScan, NoScan
<1>2. \E f : Runs(f)
  <2>1. \E f : Scans(f, a, from, to)
    BY ScanExists
  <2>2. PICK f : Scans(f, a, from, to)
    BY <2>1
  <2>3. Runs(f)
    BY <2>2 DEF Scans
  <2> HIDE DEF Runs
  <2> QED
    BY <2>3
<1> HIDE DEF Runs
<1>3. Runs(CHOOSE f : Runs(f))
  BY <1>2
<1>4. Scans(CHOOSE f : Runs(f), a, from, to)
  BY <1>3 DEF Runs, Scans
<1> QED
  BY <1>1, <1>4

LEMMA ScanIs ==
    ASSUME NEW a, NEW from \in Nat \ {0}, NEW to \in Nat, from <= to,
           \A e \in from .. to - 1 : a[e] \in Nat
    PROVE  Scanned(Scan(a, from, to), a, from, to)
<1>1. PICK f : Scans(f, a, from, to) /\ Scan(a, from, to) = f[to]
  BY ScanFound
<1> DEFINE Wrong == { d \in from .. to : ~Scanned(f[d], a, from, d) }
<1>2. SUFFICES ASSUME Wrong # {} PROVE FALSE
  BY <1>1
<1>3. PICK n \in Wrong : \A m \in Wrong : n <= m
  <2>1. Wrong \subseteq Nat
    OBVIOUS
  <2> HIDE DEF Wrong
  <2> QED
    BY <1>2, <2>1, LeastNat
<1>4. CASE n = from
  <2>1. f[n] = NoScan
    BY <1>1, <1>4 DEF Scans
  <2>2. /\ NoScan \in [ start : Nat, count : Nat, windows : Seq(WindowRow) ]
        /\ DOMAIN NoScan.windows = {}
        /\ NoScan.start = NoDay
    BY DEF NoScan, NoDay
  <2>3. from .. n - 1 = {}
    BY <1>4
  <2>4. Scanned(NoScan, a, from, n)
    <3>1. InOrder(NoScan.windows)
      BY <2>2 DEF InOrder
    <3> QED
      BY <2>2, <2>3, <3>1 DEF Scanned
  <2> QED
    BY <2>1, <2>4
<1>5. CASE n # from
  <2> DEFINE d == n - 1
  <2>1. d \in from .. to - 1 /\ d \notin Wrong /\ n = d + 1
    BY <1>3, <1>5
  <2>2. Scanned(f[d], a, from, d)
    BY <2>1
  <2>3. f[n] = NextScan(f[d], a[d], d)
    BY <1>1, <1>5 DEF Scans
  <2> HIDE DEF d
  <2>4. Scanned(NextScan(f[d], a[d], d), a, from, d + 1)
    <3>1. d \in Nat /\ from <= d /\ \A e \in from .. d : a[e] \in Nat
      BY <2>1
    <3> QED
      BY <2>2, <3>1, ScanStep
  <2> QED
    BY <2>1, <2>3, <2>4
<1> QED
  BY <1>4, <1>5

\* The windows of a range are its runs of free days, in order, and all of them.
THEOREM WindowsAre ==
    ASSUME NEW a, NEW from \in Nat \ {0}, NEW to \in Nat, from <= to,
           \A e \in from .. to - 1 : a[e] \in Nat
    PROVE  LET ws == Windows(a, from, to)
           IN  /\ ws \in Seq(WindowRow)
               /\ \A i \in DOMAIN ws : IsRun(ws[i], a, from, to)
               /\ InOrder(ws)
               /\ \A e \in from .. to - 1 :
                    a[e] > 0 <=> \E i \in DOMAIN ws : Covers(ws[i], e)
<1> DEFINE s == Scan(a, from, to)
           ws == Windows(a, from, to)
<1>1. Scanned(s, a, from, to)
  BY ScanIs
<1>2. CASE s.start = NoDay
  <2>1. ws = s.windows
    BY <1>2 DEF Windows
  <2> HIDE DEF s, ws
  <2>2. /\ ws \in Seq(WindowRow)
        /\ \A i \in DOMAIN ws : IsRun(ws[i], a, from, to)
        /\ InOrder(ws)
        /\ \A e \in from .. to - 1 :
             a[e] > 0 <=> \E i \in DOMAIN ws : Covers(ws[i], e)
    BY <1>1, <1>2, <2>1 DEF Scanned
  <2> QED
    BY <2>2 DEF ws
<1>3. CASE s.start # NoDay
  <2> DEFINE vs == s.windows
             w == Window(s.start, to, s.count)
  <2>1. ws = Append(vs, w)
    BY <1>3 DEF Windows
  <2> HIDE DEF s, ws
  <2>2. vs \in Seq(WindowRow) /\ w \in WindowRow
    BY <1>1 DEF Scanned, Window, WindowRow
  <2>3. /\ ws \in Seq(WindowRow)
        /\ DOMAIN ws = DOMAIN vs \cup {Len(vs) + 1}
        /\ \A i \in DOMAIN vs : ws[i] = vs[i]
        /\ ws[Len(vs) + 1] = w
        /\ DOMAIN vs = 1 .. Len(vs) /\ Len(vs) \in Nat
    <3> HIDE DEF vs, w
    <3> QED
      BY <2>1, <2>2
  <2>4. /\ \A i \in DOMAIN vs : IsRun(vs[i], a, from, to) /\ vs[i].to < w.from
        /\ IsRun(w, a, from, to)
        /\ InOrder(vs)
        /\ w.from = s.start /\ w.to = to
    BY <1>1, <1>3 DEF Scanned, Window
  <2>5. ASSUME NEW e \in from .. to - 1
        PROVE  a[e] > 0 <=> \E i \in DOMAIN ws : Covers(ws[i], e)
    <3>1. a[e] > 0 <=> (\E i \in DOMAIN vs : Covers(vs[i], e)) \/ s.start <= e
      BY <1>1, <1>3 DEF Scanned
    <3>2. Covers(w, e) <=> s.start <= e
      BY <2>4 DEF Covers
    <3> HIDE DEF vs, w
    <3> QED
      BY <2>3, <3>1, <3>2
  <2> HIDE DEF vs, w
  <2>6. InOrder(ws)
    BY <2>3, <2>4 DEF InOrder
  <2>7. \A i \in DOMAIN ws : IsRun(ws[i], a, from, to)
    BY <2>3, <2>4
  <2> QED
    BY <2>3, <2>5, <2>6, <2>7 DEF ws
<1> QED
  BY <1>2, <1>3

\* The count of a stay is that of its fullest day: no day has fewer rooms, and
\* one has no more.
THEOREM CountIs ==
    ASSUME NEW a, NEW from \in Nat \ {0}, NEW to \in Nat, from < to,
           \A e \in from .. to - 1 : a[e] \in Nat
    PROVE  LET n == AvailableCount(Windows(a, from, to), from, to)
           IN  /\ n \in Nat
               /\ \A e \in from .. to - 1 : n <= a[e]
               /\ \E e \in from .. to - 1 : a[e] <= n
<1> DEFINE ws == Windows(a, from, to)
           n == AvailableCount(ws, from, to)
<1>1. /\ ws \in Seq(WindowRow)
      /\ \A i \in DOMAIN ws : IsRun(ws[i], a, from, to)
      /\ InOrder(ws)
      /\ \A e \in from .. to - 1 :
           a[e] > 0 <=> \E i \in DOMAIN ws : Covers(ws[i], e)
  BY WindowsAre
<1>2. DOMAIN ws = 1 .. Len(ws) /\ Len(ws) \in Nat /\ \A i \in DOMAIN ws : ws[i] \in WindowRow
  <2> HIDE DEF ws
  <2> QED
    BY <1>1
<1> HIDE DEF ws
<1>3. CASE ws # << >> /\ ws[1].from = from /\ ws[1].to = to
  <2>1. n = ws[1].count /\ 1 \in DOMAIN ws
    BY <1>1, <1>2, <1>3 DEF AvailableCount
  <2>2. IsRun(ws[1], a, from, to) /\ ws[1].count \in Nat
    BY <1>1, <1>2, <2>1 DEF WindowRow
  <2> HIDE DEF n
  <2>3. n \in Nat /\ (\A e \in from .. to - 1 : n <= a[e]) /\ \E e \in from .. to - 1 : n = a[e]
    BY <1>3, <2>1, <2>2 DEF IsRun
  <2>4. \E e \in from .. to - 1 : a[e] <= n
    BY <2>3
  <2> QED
    BY <2>3, <2>4 DEF n, ws
<1>4. CASE ~(ws # << >> /\ ws[1].from = from /\ ws[1].to = to)
  <2>1. n = 0
    BY <1>4 DEF AvailableCount
  <2>2. \E e \in from .. to - 1 : a[e] = 0
    <3>1. SUFFICES ASSUME \A e \in from .. to - 1 : a[e] > 0 PROVE FALSE
      OBVIOUS
    <3>2. PICK i \in DOMAIN ws : Covers(ws[i], from)
      BY <1>1, <3>1
    <3>3. ws[i].from = from
      BY <1>1, <1>2, <3>2 DEF IsRun, Covers, WindowRow
    <3>4. i = 1
      <4>1. CASE i > 1
        <5>1. i - 1 \in DOMAIN ws /\ ws[i - 1].to < from
          BY <1>1, <1>2, <3>3, <4>1 DEF InOrder
        <5>2. ws[i - 1].from \in from .. to - 1 /\ ws[i - 1].to \in ws[i - 1].from + 1 .. to
          BY <1>1, <5>1 DEF IsRun
        <5> QED
          BY <5>1, <5>2
      <4> QED
        BY <4>1, <1>2
    <3>5. ws[1].to = to
      <4>1. ws[1].to \in from + 1 .. to /\ (ws[1].to < to => a[ws[1].to] = 0)
        BY <1>1, <3>3, <3>4 DEF IsRun
      <4>2. ws[1].to < to => ws[1].to \in from .. to - 1
        BY <4>1
      <4> QED
        BY <3>1, <4>1, <4>2
    <3>6. ws # << >>
      BY <3>4, <1>2
    <3> QED
      BY <1>4, <3>3, <3>4, <3>5, <3>6
  <2> HIDE DEF n
  <2> QED
    BY <2>1, <2>2 DEF n, ws
<1> QED
  BY <1>3, <1>4

=============================================================================
