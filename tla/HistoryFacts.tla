---------------------------- MODULE HistoryFacts ----------------------------
(***************************************************************************)
(* What the operators on the two histories of a farm return, for every     *)
(* length of ring and of array: its snapshots (SnapshotBuffer) and its     *)
(* harvest periods (HarvestPeriods), with the ranges of tps_history that   *)
(* tell the same.  Those are joined by a fold over a sequence, which picks *)
(* the last index that is left.                                            *)
(***************************************************************************)
EXTENDS SnapshotBuffer, HarvestPeriods, FoldFacts, SequenceTheorems

USE RingLenAssumption, DefaultWindowAssumption, PeriodsLenAssumption, LimitUpdatesAssumption

-----------------------------------------------------------------------------
(* The ring of snapshots.                                                  *)

\* Going back k entries from a tip stays inside the ring.
LEMMA BackType ==
  ASSUME NEW b \in Buffer, NEW k \in Index
  PROVE  Back(b, k) \in Index
BY DEF Back, Buffer, Index

\* Different ages are different entries: the reverse scan visits every entry
\* of the ring exactly once.
LEMMA BackInjective ==
  ASSUME NEW b \in Buffer, NEW j \in Index, NEW k \in Index, j # k
  PROVE  Back(b, j) # Back(b, k)
BY DEF Back, Buffer, Index

\* take_snapshot yields a well-formed buffer.
LEMMA PushType ==
  ASSUME NEW b \in Buffer, NEW amount \in Nat, NEW clock \in Nat
  PROVE  Push(b, amount, clock) \in Buffer
<1>1. NextIndex(b.tip) \in Index
  BY DEF NextIndex, Buffer, Index
<1>2. [staked |-> amount, startedAt |-> clock] \in Snapshot
  BY DEF Snapshot, Slot
<1>3. QED
  BY <1>1, <1>2 DEF Push, Buffer

\* What a buffer holds after a snapshot, by age: the new snapshot is the
\* youngest and everything else is one older.
LEMMA PushAges ==
  ASSUME NEW b \in Buffer, NEW amount \in Nat, NEW clock \in Nat, NEW k \in Index
  PROVE  Nth(Push(b, amount, clock), k)
           = IF k = 0 THEN [staked |-> amount, startedAt |-> clock] ELSE Nth(b, k - 1)
<1> DEFINE new == Push(b, amount, clock)
           tip == NextIndex(b.tip)
<1>1. /\ tip \in Index /\ b.tip \in Index
      /\ b.ring \in [Index -> Snapshot]
  BY DEF NextIndex, Buffer, Index
<1>2. new.tip = tip /\ Back(new, k) \in Index
  BY PushType, BackType DEF Push
<1>3. CASE k = 0
  <2>1. Back(new, k) = tip
    BY <1>1, <1>2, <1>3 DEF Back, Index
  <2>2. QED
    BY <1>1, <1>3, <2>1 DEF Nth, Push
<1>4. CASE k # 0
  <2>1. k - 1 \in Index /\ Back(new, k) = Back(b, k - 1) /\ Back(new, k) # tip
    <3> HIDE DEF new
    <3>1. k \in Nat /\ k > 0 /\ k < RingLen /\ b.tip \in Nat /\ b.tip < RingLen
      BY <1>1, <1>4 DEF Index
    <3>2. Back(new, k) = IF k <= tip THEN tip - k ELSE tip - k + RingLen
      BY <1>2 DEF Back
    <3> HIDE DEF tip
    <3>3. CASE b.tip = RingLen - 1
      <4>1. tip = 0
        BY <3>3 DEF tip, NextIndex
      <4>2. QED
        BY <3>1, <3>2, <3>3, <4>1 DEF Back, Index
    <3>4. CASE b.tip # RingLen - 1
      <4>1. tip = b.tip + 1
        BY <3>4 DEF tip, NextIndex
      <4>2. QED
        BY <3>1, <3>2, <3>4, <4>1 DEF Back, Index
    <3>5. QED
      BY <3>3, <3>4
  <2>2. new.ring[Back(new, k)] = b.ring[Back(new, k)]
    BY <1>1, <1>2, <2>1 DEF Push
  <2>3. QED
    BY <1>4, <2>1, <2>2 DEF Nth
<1>5. QED
  BY <1>3, <1>4

\* The ages of the tip and of the entry that is overwritten next.
LEMMA EndsOfRing ==
  ASSUME NEW b \in Buffer
  PROVE  /\ 0 \in Index /\ Nth(b, 0) = Latest(b) /\ Latest(b) \in Snapshot
         /\ RingLen - 1 \in Index /\ Nth(b, RingLen - 1) = Oldest(b) /\ Oldest(b) \in Snapshot
<1>1. b.tip \in Index /\ b.ring \in [Index -> Snapshot] /\ NextIndex(b.tip) \in Index
  BY DEF Buffer, NextIndex, Index
<1>2. 0 \in Index /\ RingLen - 1 \in Index
  BY DEF Index
<1>3. Back(b, 0) = b.tip /\ Back(b, RingLen - 1) = NextIndex(b.tip)
  BY <1>1, <1>2 DEF Back, NextIndex, Index
<1>4. QED
  BY <1>1, <1>2, <1>3 DEF Nth, Latest, Oldest

\* Every entry is a snapshot.
LEMMA NthType ==
  ASSUME NEW b \in Buffer, NEW k \in Index
  PROVE  Nth(b, k) \in Snapshot
BY BackType DEF Nth, Buffer

\* The youngest age is one of the ages, and none is younger.
LEMMA YoungestIsLeast ==
  ASSUME NEW ages, ages \subseteq Index, ages # {}
  PROVE  Youngest(ages) \in ages /\ \A j \in ages : Youngest(ages) <= j
<1>1. ages \subseteq Nat
  BY DEF Index
<1>2. \E k \in ages : \A j \in ages : k <= j
  BY <1>1, LeastElement
<1>3. QED
  BY <1>2 DEF Youngest

-----------------------------------------------------------------------------
(* Reading.                                                                *)

\* Where first_snapshot_after finds its answer: at the age before the youngest
\* entry that did not start after the slot.
LEMMA FirstAfterIsNeighbour ==
  ASSUME NEW b \in Buffer, NEW at \in Nat, FirstSnapshotAfter(b, at) # {}
  PROVE  LET y == Youngest(AgesUpTo(b, at))
         IN  /\ Latest(b).startedAt > at
             /\ y \in AgesUpTo(b, at) /\ y \in Index /\ y > 0 /\ y - 1 \in Index
             /\ \A j \in AgesUpTo(b, at) : y <= j
             /\ FirstSnapshotAfter(b, at) = {Nth(b, y - 1)}
<1> DEFINE y == Youngest(AgesUpTo(b, at))
<1>1. AgesUpTo(b, at) # {} /\ AgesUpTo(b, at) \subseteq Index /\ ~(Latest(b).startedAt <= at)
  BY DEF FirstSnapshotAfter, AgesUpTo
<1>2. y \in AgesUpTo(b, at) /\ y \in Index /\ \A j \in AgesUpTo(b, at) : y <= j
  BY <1>1, YoungestIsLeast
<1>3. Latest(b).startedAt \in Nat
  BY EndsOfRing DEF Snapshot, Slot
<1>4. y # 0
  BY <1>1, <1>2, EndsOfRing DEF AgesUpTo
<1>5. FirstSnapshotAfter(b, at) = {b.ring[NextIndex(Back(b, y))]}
  BY <1>1 DEF FirstSnapshotAfter
<1> HIDE DEF y
<1>6. y > 0 /\ y - 1 \in Index
  BY <1>2, <1>4 DEF Index
<1>7. b.tip \in Index
  BY DEF Buffer
<1>8. NextIndex(Back(b, y)) = Back(b, y - 1)
  BY <1>2, <1>6, <1>7 DEF NextIndex, Back, Index
<1>9. QED
  BY <1>1, <1>2, <1>3, <1>5, <1>6, <1>8 DEF Nth, y

\* first_snapshot_after returns at most one snapshot, which did start after
\* the slot.
LEMMA FirstAfterType ==
  ASSUME NEW b \in Buffer, NEW at \in Nat, NEW s \in FirstSnapshotAfter(b, at)
  PROVE  /\ s \in Snapshot /\ s.startedAt > at
         /\ FirstSnapshotAfter(b, at) = {s}
<1> DEFINE y == Youngest(AgesUpTo(b, at))
<1>1. /\ y \in AgesUpTo(b, at) /\ y \in Index /\ y - 1 \in Index
      /\ \A j \in AgesUpTo(b, at) : y <= j
      /\ FirstSnapshotAfter(b, at) = {Nth(b, y - 1)}
  BY FirstAfterIsNeighbour
<1> HIDE DEF y
<1>2. s = Nth(b, y - 1) /\ s \in Snapshot /\ FirstSnapshotAfter(b, at) = {s}
  BY <1>1, NthType
<1>3. y \in Int /\ ~(y <= y - 1)
  BY <1>1 DEF Index
<1>4. y - 1 \notin AgesUpTo(b, at)
  BY <1>1, <1>3
<1>5. ~(s.startedAt <= at)
  BY <1>1, <1>2, <1>4 DEF AgesUpTo
<1>6. s.startedAt \in Nat
  BY <1>2 DEF Snapshot, Slot
<1>7. QED
  BY <1>2, <1>5, <1>6

\* Nothing is found after a slot that is not before the latest snapshot.
LEMMA NothingAfterLatest ==
  ASSUME NEW b, NEW at, Latest(b).startedAt <= at
  PROVE  FirstSnapshotAfter(b, at) = {}
BY DEF FirstSnapshotAfter

\* A snapshot that is taken becomes the answer or leaves the answer as it was,
\* unless the ring forgets where the answer lies.
LEMMA FirstAfterPush ==
  ASSUME NEW b \in Buffer, NEW amount \in Nat, NEW clock \in Nat, NEW at \in Nat,
         NEW s \in FirstSnapshotAfter(Push(b, amount, clock), at)
  PROVE  s = [staked |-> amount, startedAt |-> clock] \/ s \in FirstSnapshotAfter(b, at)
<1> DEFINE new == Push(b, amount, clock)
           y == Youngest(AgesUpTo(new, at))
<1>1. new \in Buffer
  BY PushType
<1>2. \A k \in Index : Nth(new, k) = IF k = 0 THEN [staked |-> amount, startedAt |-> clock]
                                             ELSE Nth(b, k - 1)
  BY PushAges
<1> HIDE DEF new
<1>3. /\ y \in AgesUpTo(new, at) /\ y \in Index /\ y > 0 /\ y - 1 \in Index
      /\ \A j \in AgesUpTo(new, at) : y <= j
      /\ s = Nth(new, y - 1)
  BY <1>1, FirstAfterIsNeighbour DEF new
<1> HIDE DEF y
<1>4. CASE y = 1
  BY <1>2, <1>3, <1>4
<1>5. CASE y # 1
  <2>1. y - 1 # 0 /\ y - 2 \in Index /\ y - 1 \in Int
    BY <1>3, <1>5 DEF Index
  <2>2. s = Nth(b, y - 2)
    <3>1. (y - 1) - 1 = y - 2
      BY <1>3 DEF Index
    <3>2. QED
      BY <1>2, <1>3, <2>1, <3>1
  <2>3. y - 1 \in AgesUpTo(b, at)
    BY <1>2, <1>3 DEF AgesUpTo
  <2>4. ASSUME NEW j \in AgesUpTo(b, at) PROVE y - 1 <= j
    <3>1. j \in Index /\ Nth(b, j).startedAt <= at
      BY DEF AgesUpTo
    <3>2. CASE j + 1 \in Index
      <4>1. j + 1 # 0 /\ (j + 1) - 1 = j /\ j \in Int /\ y \in Int
        BY <1>3, <3>1 DEF Index
      <4>2. j + 1 \in AgesUpTo(new, at)
        BY <1>2, <3>1, <3>2, <4>1 DEF AgesUpTo
      <4>3. QED
        BY <1>3, <4>1, <4>2
    <3>3. CASE j + 1 \notin Index
      BY <1>3, <3>1, <3>3 DEF Index
    <3>4. QED
      BY <3>2, <3>3
  <2> DEFINE x == Youngest(AgesUpTo(b, at))
  <2>5. x \in AgesUpTo(b, at) /\ (\A j \in AgesUpTo(b, at) : x <= j) /\ x \in Index
    <3>1. AgesUpTo(b, at) \subseteq Index
      BY DEF AgesUpTo
    <3>2. QED
      BY <2>3, <3>1, YoungestIsLeast
  <2>6. x = y - 1
    <3> HIDE DEF x
    <3>1. QED
      BY <1>3, <2>3, <2>4, <2>5 DEF Index
  <2>7. 0 \notin AgesUpTo(b, at)
    BY <2>1, <2>4, <1>3 DEF Index
  <2>8. ~(Latest(b).startedAt <= at)
    BY <2>7, EndsOfRing DEF AgesUpTo
  <2>9. FirstSnapshotAfter(b, at) # {}
    BY <2>3, <2>8 DEF FirstSnapshotAfter
  <2>10. FirstSnapshotAfter(b, at) = {Nth(b, x - 1)}
    BY <2>9, FirstAfterIsNeighbour
  <2>11. x - 1 = y - 2
    BY <1>3, <2>6 DEF Index
  <2>12. QED
    BY <2>2, <2>10, <2>11
<1>6. QED
  BY <1>4, <1>5

\* get_window_snapshots_eligible_to_harvest returns snapshots.
LEMMA EligibleSnapshotsType ==
  ASSUME NEW b \in Buffer, NEW since \in Nat
  PROVE  EligibleSnapshots(b, since) \in Seq(Snapshot)
<1> DEFINE ages == AgesUpTo(b, since)
           count == IF ages = {} THEN RingLen ELSE Youngest(ages) + 1
<1>1. count \in 0 .. RingLen
  <2>1. ages \subseteq Index
    BY DEF AgesUpTo
  <2>2. ages # {} => Youngest(ages) \in Index
    BY <2>1, YoungestIsLeast
  <2>3. QED
    BY <2>2 DEF Index
<1>2. EligibleSnapshots(b, since) = [k \in 1 .. count |-> Nth(b, k - 1)]
  BY DEF EligibleSnapshots
<1> HIDE DEF count
<1>3. \A k \in 1 .. count : Nth(b, k - 1) \in Snapshot
  <2>1. \A k \in 1 .. count : k - 1 \in Index
    BY <1>1 DEF Index
  <2>2. QED
    BY <2>1, NthType
<1>4. QED
  BY <1>1, <1>2, <1>3
-----------------------------------------------------------------------------
(* The order of the ring.                                                  *)

\* HistoryInOrder of a buffer at a slot: nothing starts later, and by age the
\* starts descend until the entries that were never written.
RingInOrder(b, current) ==
  /\ Latest(b).startedAt <= current
  /\ \A j, k \in Index :
       j < k => Nth(b, j).startedAt > Nth(b, k).startedAt \/ Nth(b, k).startedAt = 0

LEMMA EmptyRingInOrder ==
  ASSUME NEW current \in Nat
  PROVE  EmptyBuffer \in Buffer /\ RingInOrder(EmptyBuffer, current)
<1> DEFINE b == EmptyBuffer
<1>1. b \in Buffer /\ \A i \in Index : b.ring[i].startedAt = 0
  BY DEF EmptyBuffer, Unwritten, Buffer, Snapshot, Slot, Index
<1> HIDE DEF b
<1>2. \A k \in Index : Nth(b, k).startedAt = 0
  BY <1>1, BackType DEF Nth
<1>3. Latest(b).startedAt = 0
  BY <1>1 DEF Latest, Buffer
<1>4. RingInOrder(b, current)
  BY <1>2, <1>3 DEF RingInOrder
<1>5. QED
  BY <1>1, <1>4 DEF b

\* The order does not depend on how late it is.
LEMMA RingStaysInOrder ==
  ASSUME NEW b \in Buffer, NEW current \in Nat, NEW later \in Nat, current <= later,
         RingInOrder(b, current)
  PROVE  RingInOrder(b, later)
<1>1. Latest(b).startedAt \in Nat
  BY EndsOfRing DEF Snapshot, Slot
<1>2. QED
  BY <1>1 DEF RingInOrder

\* A snapshot that starts after everything remembered keeps the order.
LEMMA PushKeepsRingOrder ==
  ASSUME NEW b \in Buffer, NEW amount \in Nat, NEW minWindow \in Nat, NEW current \in Nat,
         RingInOrder(b, current), SufficientTimePassed(b, minWindow, current)
  PROVE  RingInOrder(Push(b, amount, current), current)
<1> DEFINE new == Push(b, amount, current)
<1>1. /\ 0 \in Index /\ Nth(b, 0) = Latest(b)
      /\ \A k \in Index : Nth(b, k).startedAt \in Nat
  BY EndsOfRing, NthType DEF Snapshot, Slot
<1>2. ASSUME NEW k \in Index PROVE Nth(b, k).startedAt < current
  <2>1. EffectiveWindow(minWindow) \in Nat \ {0}
    BY DEF EffectiveWindow
  <2>2. Nth(b, 0).startedAt < current
    BY <1>1, <2>1 DEF SufficientTimePassed
  <2>3. CASE k = 0
    BY <2>2, <2>3
  <2>4. CASE k # 0
    <3>1. 0 < k
      BY <2>4 DEF Index
    <3>2. Nth(b, 0).startedAt > Nth(b, k).startedAt \/ Nth(b, k).startedAt = 0
      BY <1>1, <3>1 DEF RingInOrder
    <3>3. QED
      BY <1>1, <2>2, <3>2
  <2>5. QED
    BY <2>3, <2>4
<1>3. \A k \in Index : Nth(new, k) = IF k = 0 THEN [staked |-> amount, startedAt |-> current]
                                             ELSE Nth(b, k - 1)
  BY PushAges
<1>4. new \in Buffer /\ Latest(new) = Nth(new, 0)
  BY PushType, EndsOfRing
<1> HIDE DEF new
<1>5. Latest(new).startedAt = current
  BY <1>1, <1>3, <1>4
<1>6. ASSUME NEW j \in Index, NEW k \in Index, j < k
      PROVE  Nth(new, j).startedAt > Nth(new, k).startedAt \/ Nth(new, k).startedAt = 0
  <2>1. k - 1 \in Index /\ k # 0
    BY <1>6 DEF Index
  <2>2. Nth(new, k) = Nth(b, k - 1)
    BY <1>3, <2>1
  <2>3. CASE j = 0
    BY <1>1, <1>2, <1>3, <2>1, <2>2, <2>3
  <2>4. CASE j # 0
    <3>1. j - 1 \in Index /\ j - 1 < k - 1
      BY <1>6, <2>4 DEF Index
    <3>2. Nth(new, j) = Nth(b, j - 1)
      BY <1>3, <2>4
    <3>3. QED
      BY <2>1, <2>2, <3>1, <3>2 DEF RingInOrder
  <2>5. QED
    BY <2>3, <2>4
<1>7. RingInOrder(new, current)
  BY <1>5, <1>6 DEF RingInOrder
<1>8. QED
  BY <1>7 DEF new

\* The eligible snapshots by age: all that started after the slot and, unless
\* it is forgotten, the one before them.
LEMMA EligibleByAge ==
  ASSUME NEW b \in Buffer, NEW since \in Nat
  PROVE  \E n \in 1 .. RingLen :
           /\ Len(EligibleSnapshots(b, since)) = n
           /\ \A k \in 1 .. n : EligibleSnapshots(b, since)[k] = Nth(b, k - 1)
           /\ \A a \in Index : a < n - 1 => Nth(b, a).startedAt > since
           /\ n = RingLen \/ Nth(b, n - 1).startedAt <= since
<1> DEFINE ages == AgesUpTo(b, since)
           n == IF ages = {} THEN RingLen ELSE Youngest(ages) + 1
<1>1. ages \subseteq Index
  BY DEF AgesUpTo
<1>2. ages # {} => /\ Youngest(ages) \in ages /\ Youngest(ages) \in Index
                  /\ \A j \in ages : Youngest(ages) <= j
  BY <1>1, YoungestIsLeast
<1>3. n \in 1 .. RingLen
  BY <1>2 DEF Index
<1>4. EligibleSnapshots(b, since) = [k \in 1 .. n |-> Nth(b, k - 1)]
  BY DEF EligibleSnapshots
<1>5. \A k \in Index : Nth(b, k).startedAt \in Nat
  BY NthType DEF Snapshot, Slot
<1>6. ASSUME NEW a \in Index, a < n - 1 PROVE Nth(b, a).startedAt > since
  <2>1. a \notin ages
    BY <1>2, <1>6 DEF Index
  <2>2. ~(Nth(b, a).startedAt <= since)
    BY <2>1 DEF AgesUpTo
  <2>3. QED
    BY <1>5, <2>2
<1>7. n = RingLen \/ Nth(b, n - 1).startedAt <= since
  <2>1. CASE ages # {}
    <3>1. n - 1 = Youngest(ages)
      BY <1>2, <2>1 DEF Index
    <3> HIDE DEF n
    <3>2. QED
      BY <1>2, <2>1, <3>1 DEF AgesUpTo
  <2>2. QED
    BY <2>1
<1> HIDE DEF n
<1>8. Len(EligibleSnapshots(b, since)) = n
  BY <1>3, <1>4
<1>9. QED
  BY <1>3, <1>4, <1>6, <1>7, <1>8

-----------------------------------------------------------------------------
(* Folds over sequences.                                                   *)

\* FoldLeft picks the last index that is left.
LastIndex(n) == [s \in SUBSET (1 .. n) |-> Max(s)]

\* The index is one of those that are left.
LEMMA LastIndexIsLeft ==
  ASSUME NEW n \in Nat, NEW s \in SUBSET (1 .. n), s # {}
  PROVE  Max(s) \in s
<1>1. \E x \in s : \A y \in s : x >= y
  BY GreatestElement
<1>2. QED
  BY <1>1 DEF Max

\* What a fold over a sequence computes, for each set of indices that are left.
IsSequenceFold(op, base, seq, g) ==
  \A s \in SUBSET (1 .. Len(seq)) :
    g[s] = IF s = {} THEN base ELSE op[<<seq[Max(s)], g[s \ {Max(s)}]>>]

\* A fold over a sequence with an operation given as a function exists.
LEMMA SequenceFoldExists ==
  ASSUME NEW X, NEW Y, NEW op \in StepsOf(X, Y), NEW base \in Y, NEW seq \in Seq(X)
  PROVE  \E g \in [SUBSET (1 .. Len(seq)) -> Y] : IsSequenceFold(op, base, seq, g)
<1> DEFINE S == 1 .. Len(seq)
           c == LastIndex(Len(seq))
<1>1. Len(seq) \in Nat /\ IsFiniteSet(S)
  BY FS_Interval, LenProperties
<1>2. \A s \in SUBSET S : s # {} => c[s] \in s
  BY <1>1, LastIndexIsLeft DEF LastIndex
<1>3. Choosing(seq, c, S, X)
  BY <1>2 DEF Choosing
<1>4. PICK g \in [SUBSET S -> Y] : IsFoldBy(op, base, seq, c, S, g)
  <2> HIDE DEF c, S
  <2>1. QED
    BY <1>1, <1>3, FoldByExists
<1>5. \A s \in SUBSET S : c[s] = Max(s)
  BY DEF LastIndex
<1>6. IsSequenceFold(op, base, seq, g)
  BY <1>4, <1>5 DEF IsFoldBy, IsSequenceFold
<1>7. QED
  BY <1>4, <1>6

\* What holds of a recursive function on the sets of indices: if it is in Y
\* for the empty set, and for a set when it is for the set without its last
\* index, then it is for all indices.
LEMMA SequenceFoldType ==
  ASSUME NEW n \in Nat, NEW g, NEW Y, g[{}] \in Y,
         \A s \in SUBSET (1 .. n) : s # {} /\ g[s \ {Max(s)}] \in Y => g[s] \in Y
  PROVE  g[1 .. n] \in Y
<1> DEFINE S == 1 .. n
           T == {s \in SUBSET S : g[s] \in Y}
<1>1. IsFiniteSet(S)
  BY FS_Interval
<1>2. {} \in T /\ T \subseteq SUBSET S
  OBVIOUS
<1>3. \A s \in SUBSET S : s # {} /\ (\A x \in s : s \ {x} \in T) => s \in T
  BY LastIndexIsLeft
<1>4. \A s \in SUBSET S : s \in T
  <2> HIDE DEF S, T
  <2>1. QED
    BY <1>1, <1>2, <1>3, SubsetInduction
<1>5. QED
  BY <1>4

\* The first k indices of n.
LEMMA FirstIndices ==
  ASSUME NEW n \in Nat, NEW k \in 1 .. n
  PROVE  /\ 1 .. k \in SUBSET (1 .. n) /\ 1 .. k # {} /\ (1 .. k) \ {k} = 1 .. (k - 1)
         /\ k \in 0 .. n /\ k - 1 \in 0 .. n /\ Max(1 .. k) = k
<1>1. k \in Int /\ 1 <= k /\ k <= n
  OBVIOUS
<1>2. k \in 1 .. k
  BY <1>1
<1>3. \A x \in 1 .. k : x \in 1 .. n /\ x <= k
  BY <1>1
<1>4. \A x : x \in (1 .. k) \ {k} <=> x \in 1 .. (k - 1)
  BY <1>1
<1>5. Max(1 .. k) = k
  <2>1. \A y \in 1 .. k : k >= y
    BY <1>1, <1>3
  <2>2. \A x \in 1 .. k : (\A y \in 1 .. k : x >= y) => x = k
    BY <1>1, <1>2, <1>3
  <2>3. QED
    BY <1>2, <2>1, <2>2 DEF Max
<1>6. QED
  BY <1>1, <1>2, <1>3, <1>4, <1>5

\* The sequences of a sequence joined end to end, as tps_history joins the
\* ranges of all periods.
Joined(seqs) == FoldLeft(LAMBDA older, ranges : older \o ranges, <<>>, seqs)

\* What has been joined after each of them.
JoinsByParts(h, seqs, X) ==
  /\ h[0] = <<>> /\ h[Len(seqs)] = Joined(seqs)
  /\ \A k \in 0 .. Len(seqs) : h[k] \in Seq(X)
  /\ \A k \in 1 .. Len(seqs) : h[k] = h[k - 1] \o seqs[k]

LEMMA JoinedByParts ==
  ASSUME NEW X, NEW seqs \in Seq(Seq(X))
  PROVE  \E h : JoinsByParts(h, seqs, X)
<1> DEFINE n == Len(seqs)
           Y == Seq(X)
           op == [p \in Y \X Y |-> p[2] \o p[1]]
           Rule(g) == g = [s \in SUBSET DOMAIN seqs |->
                             IF s = {} THEN <<>> ELSE g[s \ {Max(s)}] \o seqs[Max(s)]]
           all == CHOOSE g : Rule(g)
           h == [k \in 0 .. n |-> all[1 .. k]]
<1>1. n \in Nat /\ DOMAIN seqs = 1 .. n /\ \A k \in 1 .. n : seqs[k] \in Y
  BY LenProperties, ElementOfSeq
<1>2. Joined(seqs) = all[DOMAIN seqs]
  BY DEF Joined, FoldLeft, MapThenFoldSet
<1>3. \A a, b \in Y : a \o b \in Y
  BY ConcatProperties
<1>4. /\ op \in StepsOf(Y, Y) /\ <<>> \in Y
      /\ \A a, b \in Y : op[<<a, b>>] = b \o a
  <2>1. <<>> \in Y
    BY EmptySeq
  <2> HIDE DEF Y
  <2>2. \A p \in Y \X Y : p[2] \o p[1] \in Y
    BY <1>3
  <2>3. QED
    BY <2>1, <2>2 DEF StepsOf
<1>5. \A s \in SUBSET (1 .. n) : s # {} => Max(s) \in s
  BY <1>1, LastIndexIsLeft
<1>6. \E g : Rule(g)
  <2>1. PICK g \in [SUBSET (1 .. n) -> Y] : IsSequenceFold(op, <<>>, seqs, g)
    <3> HIDE DEF Y, op
    <3>1. QED
      BY <1>4, SequenceFoldExists DEF Y
  <2>2. ASSUME NEW s \in SUBSET (1 .. n)
        PROVE  g[s] = IF s = {} THEN <<>> ELSE g[s \ {Max(s)}] \o seqs[Max(s)]
    <3>1. s # {} => g[s \ {Max(s)}] \in Y /\ seqs[Max(s)] \in Y
      BY <1>1, <1>5, <2>1
    <3>2. s # {} => g[s] = op[<<seqs[Max(s)], g[s \ {Max(s)}]>>]
      BY <2>1 DEF IsSequenceFold
    <3>3. s = {} => g[s] = <<>>
      BY <2>1 DEF IsSequenceFold
    <3> HIDE DEF op, Y, n
    <3>4. QED
      BY <1>4, <3>1, <3>2, <3>3
  <2>3. Rule(g)
    BY <1>1, <2>1, <2>2
  <2>4. QED
    BY <2>3
<1>7. Rule(all)
  BY <1>6
<1> HIDE DEF all, Y, op
<1>8. \A s \in SUBSET (1 .. n) :
        all[s] = IF s = {} THEN <<>> ELSE all[s \ {Max(s)}] \o seqs[Max(s)]
  BY <1>1, <1>7
<1>9. h[0] = <<>>
  <2>1. 1 .. 0 = {} /\ 0 \in 0 .. n
    BY <1>1
  <2>2. all[{}] = <<>>
    BY <1>8
  <2>3. QED
    BY <2>1, <2>2
<1>10. \A k \in 1 .. n : h[k] = h[k - 1] \o seqs[k]
  <2>1. TAKE k \in 1 .. n
  <2>2. /\ 1 .. k \in SUBSET (1 .. n) /\ 1 .. k # {} /\ (1 .. k) \ {k} = 1 .. (k - 1)
        /\ k \in 0 .. n /\ k - 1 \in 0 .. n /\ Max(1 .. k) = k
    BY <1>1, FirstIndices
  <2> HIDE DEF n
  <2>4. all[1 .. k] = all[1 .. (k - 1)] \o seqs[k]
    BY <1>8, <2>2
  <2>5. QED
    BY <2>2, <2>4
<1>11. h[n] = Joined(seqs)
  BY <1>1, <1>2
<1> HIDE DEF h
<1>12. \A k \in 0 .. n : h[k] \in Y
  <2> DEFINE T == {k \in Nat : k \in 0 .. n => h[k] \in Y}
  <2>1. 0 \in T
    BY <1>4, <1>9
  <2>2. ASSUME NEW k \in T PROVE k + 1 \in T
    <3>1. SUFFICES ASSUME k + 1 \in 0 .. n PROVE h[k + 1] \in Y
      OBVIOUS
    <3>2. k \in 0 .. n /\ k + 1 \in 1 .. n /\ (k + 1) - 1 = k
      BY <1>1, <3>1
    <3>3. h[k] \in Y /\ h[k + 1] = h[k] \o seqs[k + 1] /\ seqs[k + 1] \in Y
      BY <1>1, <1>10, <3>2
    <3>4. QED
      BY <1>3, <3>3
  <2>3. T = Nat
    <3> HIDE DEF T
    <3>1. T \subseteq Nat
      BY DEF T
    <3>2. QED
      BY <2>1, <2>2, <3>1, SetInduction
  <2>4. QED
    BY <1>1, <2>3
<1>13. QED
  BY <1>9, <1>10, <1>11, <1>12 DEF Y, JoinsByParts
-----------------------------------------------------------------------------
(* Setting a period.                                                       *)

\* The deposit for a period is a number of tokens.
LEMMA TotalEmittedType ==
  ASSUME NEW p \in Period
  PROVE  TotalEmitted(p) \in Int
<1>1. p.tps \in Int /\ p.endsAt - p.startsAt + 1 \in Int
  BY DEF Period
<1>2. \A x, y \in Int : x * y \in Int
  OBVIOUS
<1>3. QED
  BY <1>1, <1>2 DEF TotalEmitted

\* Setting a period yields a well-formed array.
LEMMA SetPeriodType ==
  ASSUME NEW ps \in Periods, NEW current, NEW p \in Period
  PROVE  SetPeriod(ps, current, p) \in Periods
<1>1. CASE IsScheduled(ps, current)
  BY <1>1 DEF SetPeriod, Periods
<1>2. CASE ~IsScheduled(ps, current)
  <2>1. \A i \in 1 .. PeriodsLen : i # 1 => i - 1 \in 1 .. PeriodsLen
    OBVIOUS
  <2>2. QED
    BY <1>2, <2>1 DEF SetPeriod, Periods
<1>3. QED
  BY <1>1, <1>2

\* The search for the latest started period finds the first one of the array.
LEMMA LatestStartedIsFirst ==
  ASSUME NEW ps \in Periods, NEW current \in Nat, Started(ps, current) # {}
  PROVE  /\ LatestStarted(ps, current) \in Started(ps, current)
         /\ \A j \in Started(ps, current) : LatestStarted(ps, current) <= j
<1>1. Started(ps, current) \subseteq Nat
  BY DEF Started
<1>2. \E i \in Started(ps, current) : \A j \in Started(ps, current) : i <= j
  BY <1>1, LeastElement
<1>3. QED
  BY <1>2 DEF LatestStarted

-----------------------------------------------------------------------------
(* The order of the periods.                                               *)

\* PeriodsInOrder of an array at a slot.
OrderAt(ps, current) ==
  /\ \A i \in 1 .. PeriodsLen :
       \/ ps[i] = NoPeriod
       \/ 0 < ps[i].startsAt /\ ps[i].startsAt < ps[i].endsAt
  /\ \A i, j \in 1 .. PeriodsLen :
       i < j => \/ ps[j] = NoPeriod
                \/ ps[j].endsAt < ps[i].startsAt /\ ps[j].startsAt <= current

\* Nor does the order of the periods depend on how late it is.
LEMMA PeriodsStillInOrder ==
  ASSUME NEW ps \in Periods, NEW current \in Nat, NEW later \in Nat, current <= later,
         OrderAt(ps, current)
  PROVE  OrderAt(ps, later)
<1>1. \A j \in 1 .. PeriodsLen : ps[j].startsAt <= current => ps[j].startsAt <= later
  <2>1. \A j \in 1 .. PeriodsLen : ps[j].startsAt \in Nat
    BY DEF Periods, Period
  <2>2. QED
    BY <2>1
<1>2. QED
  BY <1>1 DEF OrderAt

\* A harvest without periods is in order.
LEMMA NoPeriodsInOrder ==
  ASSUME NEW current
  PROVE  NoPeriods \in Periods /\ OrderAt(NoPeriods, current)
BY DEF NoPeriods, NoPeriod, Periods, Period, OrderAt

\* An accepted period starts after every period that it does not replace has
\* ended.  The code compares it with one period only, the latest started.
LEMMA AcceptedIsLast ==
  ASSUME NEW ps \in Periods, NEW current \in Nat, OrderAt(ps, current),
         NEW p \in Period, NEW oldest, AcceptsPeriod(ps, current, p, oldest),
         NEW j \in 1 .. PeriodsLen, ~(j = 1 /\ IsScheduled(ps, current))
  PROVE  ps[j] = NoPeriod \/ ps[j].endsAt < p.startsAt
<1> DEFINE L == LatestStarted(ps, current)
<1>1. Started(ps, current) # {} /\ ps[L].endsAt < p.startsAt
  BY DEF AcceptsPeriod, IsAfterRunningPeriod
<1>2. L \in Started(ps, current) /\ \A i \in Started(ps, current) : L <= i
  BY <1>1, LatestStartedIsFirst
<1>3. L \in 1 .. PeriodsLen /\ ps[L].startsAt <= current
  BY <1>2 DEF Started
<1>4. \A i \in 1 .. PeriodsLen : ps[i] \in Period
  BY DEF Periods
<1>5. j \in Started(ps, current)
  <2>1. CASE j = 1
    BY <1>4, <2>1 DEF Started, IsScheduled, Period
  <2>2. CASE j # 1
    <3>1. 1 \in 1 .. PeriodsLen /\ 1 < j
      BY <2>2
    <3>2. ps[j].startsAt <= current
      BY <3>1 DEF OrderAt, NoPeriod
    <3>3. QED
      BY <3>2 DEF Started
  <2>3. QED
    BY <2>1, <2>2
<1>6. CASE j = L
  BY <1>1, <1>6
<1>7. CASE j # L
  <2>1. L < j
    <3> HIDE DEF L
    <3>1. QED
      BY <1>2, <1>3, <1>5, <1>7
  <2>2. ps[j] = NoPeriod \/ ps[j].endsAt < ps[L].startsAt
    BY <1>3, <2>1 DEF OrderAt
  <2>3. ps[L] = NoPeriod \/ ps[L].startsAt < ps[L].endsAt
    BY <1>3 DEF OrderAt
  <2>4. CASE ps[L] = NoPeriod
    BY <1>4, <2>2, <2>4 DEF NoPeriod, Period
  <2>5. CASE ps[L].startsAt < ps[L].endsAt
    <3> HIDE DEF L
    <3>1. QED
      BY <1>1, <1>3, <1>4, <2>2, <2>5 DEF Period
  <2>6. QED
    BY <2>3, <2>4, <2>5
<1>8. QED
  BY <1>6, <1>7

\* Setting an accepted period keeps the array in order.
LEMMA SetPeriodKeepsOrder ==
  ASSUME NEW ps \in Periods, NEW current \in Nat, OrderAt(ps, current),
         NEW p \in Period, NEW oldest, AcceptsPeriod(ps, current, p, oldest),
         p.startsAt >= current, current > 0
  PROVE  OrderAt(SetPeriod(ps, current, p), current)
<1> DEFINE new == SetPeriod(ps, current, p)
<1>1. 0 < p.startsAt /\ p.startsAt < p.endsAt
  BY DEF AcceptsPeriod, Period
<1>2. \A j \in 1 .. PeriodsLen :
        ~(j = 1 /\ IsScheduled(ps, current)) => ps[j] = NoPeriod \/ ps[j].endsAt < p.startsAt
  BY AcceptedIsLast
<1>3. \A i \in 1 .. PeriodsLen : ps[i] \in Period
  BY DEF Periods
<1>4. CASE IsScheduled(ps, current)
  <2>1. new[1] = p /\ \A j \in 1 .. PeriodsLen : j # 1 => new[j] = ps[j]
    BY <1>4 DEF SetPeriod, Periods
  <2>2. ASSUME NEW i \in 1 .. PeriodsLen
        PROVE  new[i] = NoPeriod \/ (0 < new[i].startsAt /\ new[i].startsAt < new[i].endsAt)
    BY <1>1, <2>1 DEF OrderAt
  <2>3. ASSUME NEW i \in 1 .. PeriodsLen, NEW j \in 1 .. PeriodsLen, i < j
        PROVE  new[j] = NoPeriod \/ (new[j].endsAt < new[i].startsAt /\ new[j].startsAt <= current)
    <3>1. j # 1 /\ new[j] = ps[j]
      BY <2>1, <2>3
    <3>2. ps[j] = NoPeriod \/ (ps[j].endsAt < ps[i].startsAt /\ ps[j].startsAt <= current)
      BY <2>3 DEF OrderAt
    <3>3. CASE i = 1
      BY <1>2, <2>1, <3>1, <3>2, <3>3
    <3>4. CASE i # 1
      BY <2>1, <3>1, <3>2, <3>4
    <3>5. QED
      BY <3>3, <3>4
  <2>4. QED
    BY <2>2, <2>3 DEF OrderAt
<1>5. CASE ~IsScheduled(ps, current)
  <2>1. new[1] = p /\ \A j \in 1 .. PeriodsLen : j # 1 => new[j] = ps[j - 1]
    BY <1>5 DEF SetPeriod, Periods
  <2>2. \A j \in 1 .. PeriodsLen : j # 1 => j - 1 \in 1 .. PeriodsLen
    OBVIOUS
  <2>3. ASSUME NEW i \in 1 .. PeriodsLen
        PROVE  new[i] = NoPeriod \/ (0 < new[i].startsAt /\ new[i].startsAt < new[i].endsAt)
    BY <1>1, <2>1, <2>2 DEF OrderAt
  <2>4. ASSUME NEW i \in 1 .. PeriodsLen, NEW j \in 1 .. PeriodsLen, i < j
        PROVE  new[j] = NoPeriod \/ (new[j].endsAt < new[i].startsAt /\ new[j].startsAt <= current)
    <3>1. j # 1 /\ j - 1 \in 1 .. PeriodsLen /\ new[j] = ps[j - 1]
      BY <2>1, <2>2, <2>4
    <3>2. ps[1].startsAt <= current
      BY <1>3, <1>5 DEF IsScheduled, Period
    <3>3. ps[j - 1] = NoPeriod \/ ps[j - 1].startsAt <= current
      <4>1. CASE j - 1 = 1
        BY <3>2, <4>1
      <4>2. CASE j - 1 # 1
        BY <3>1, <4>2 DEF OrderAt
      <4>3. QED
        BY <4>1, <4>2
    <3>4. CASE i = 1
      BY <1>2, <1>5, <2>1, <3>1, <3>3, <3>4
    <3>5. CASE i # 1
      <4>1. i - 1 \in 1 .. PeriodsLen /\ i - 1 < j - 1 /\ new[i] = ps[i - 1]
        BY <2>1, <2>2, <2>4, <3>5
      <4>2. QED
        BY <3>1, <4>1 DEF OrderAt
    <3>6. QED
      BY <3>4, <3>5
  <2>5. QED
    BY <2>3, <2>4 DEF OrderAt
<1>6. QED
  BY <1>4, <1>5

-----------------------------------------------------------------------------
(* The history of rates.                                                   *)

Ranges == [from : Int, to : Int, tps : Nat]

\* The ranges of one period and of the gap before it.
LEMMA RangesOfType ==
  ASSUME NEW ps \in Periods, NEW i \in 1 .. PeriodsLen
  PROVE  RangesOf(ps, i) \in Seq(Ranges)
<1>1. ps[i] \in Period
  BY DEF Periods
<1>2. Before(ps, i) \in Period
  BY DEF Periods, Period, Before, NoPeriod
<1>3. /\ ps[i].startsAt \in Int /\ ps[i].endsAt \in Int /\ ps[i].tps \in Nat
      /\ Before(ps, i).endsAt \in Int
  BY <1>1, <1>2 DEF Period
<1>4. GapBefore(ps, i) \in Seq(Ranges)
  <2>1. TpsRange(Before(ps, i).endsAt + 1, ps[i].startsAt - 1, 0) \in Ranges
    BY <1>3 DEF TpsRange, Ranges
  <2>2. QED
    BY <2>1 DEF GapBefore
<1>5. TpsRange(ps[i].startsAt, ps[i].endsAt, ps[i].tps) \in Ranges
  BY <1>3 DEF TpsRange, Ranges
<1>6. GapBefore(ps, i) \o <<TpsRange(ps[i].startsAt, ps[i].endsAt, ps[i].tps)>> \in Seq(Ranges)
  BY <1>4, <1>5, ConcatProperties
<1>7. QED
  BY <1>6 DEF RangesOf

\* tps_history is a sequence of ranges.
LEMMA HistoryType ==
  ASSUME NEW ps \in Periods, NEW until \in Int
  PROVE  TpsHistory(ps, until) \in Seq(Ranges)
<1> DEFINE seqs == [k \in 1 .. PeriodsLen |-> RangesOf(ps, PeriodsLen + 1 - k)]
<1>1. seqs \in Seq(Seq(Ranges))
  <2>1. \A k \in 1 .. PeriodsLen : PeriodsLen + 1 - k \in 1 .. PeriodsLen
    OBVIOUS
  <2>2. \A k \in 1 .. PeriodsLen : RangesOf(ps, PeriodsLen + 1 - k) \in Seq(Ranges)
    BY <2>1, RangesOfType
  <2>3. QED
    BY <2>2
<1>2. Joined(seqs) \in Seq(Ranges)
  <2> HIDE DEF seqs
  <2>1. Len(seqs) \in 0 .. Len(seqs)
    BY <1>1, LenProperties
  <2>2. PICK h : JoinsByParts(h, seqs, Ranges)
    BY ONLY <1>1, JoinedByParts
  <2>3. QED
    BY <2>1, <2>2 DEF JoinsByParts
<1>3. Trailing(ps, until) \in Seq(Ranges)
  <2>1. ps[1].endsAt \in Int
    BY DEF Periods, Period
  <2>2. TpsRange(ps[1].endsAt + 1, until, 0) \in Ranges
    BY <2>1 DEF TpsRange, Ranges
  <2>3. QED
    BY <2>2 DEF Trailing
<1>4. TpsHistory(ps, until) = Joined(seqs) \o Trailing(ps, until)
  BY DEF TpsHistory, Joined
<1>5. QED
  BY <1>2, <1>3, <1>4, ConcatProperties

\* A sequence of ranges tells the rates from slot 1 up to a last slot: the
\* ranges meet end to end and each has the rate that the array has there.
Tells(h, ps, last) ==
  /\ h \in Seq(Ranges)
  /\ \A k \in 1 .. Len(h) :
       /\ h[k].from = IF k = 1 THEN 1 ELSE h[k - 1].to + 1
       /\ h[k].from <= h[k].to
       /\ \A s \in h[k].from .. h[k].to : h[k].tps = TpsAt(ps, s)
  /\ last = IF Len(h) = 0 THEN 0 ELSE h[Len(h)].to

\* It is extended by the range that follows.
LEMMA TellsOneMore ==
  ASSUME NEW h, NEW ps, NEW last, Tells(h, ps, last), NEW r \in Ranges,
         r.from = last + 1, r.from <= r.to,
         \A s \in r.from .. r.to : r.tps = TpsAt(ps, s)
  PROVE  Tells(h \o <<r>>, ps, r.to)
<1> DEFINE n == Len(h)
           new == h \o <<r>>
<1>1. h \in Seq(Ranges) /\ n \in Nat /\ <<r>> \in Seq(Ranges) /\ Len(<<r>>) = 1
  BY LenProperties DEF Tells
<1>2. /\ new \in Seq(Ranges) /\ Len(new) = n + 1
      /\ \A k \in 1 .. n + 1 : new[k] = IF k <= n THEN h[k] ELSE <<r>>[k - n]
  BY <1>1, ConcatProperties
<1>3. new[n + 1] = r /\ \A k \in 1 .. n : new[k] = h[k]
  <2> HIDE DEF n, new
  <2>1. n + 1 \in 1 .. n + 1 /\ ~(n + 1 <= n) /\ (n + 1) - n = 1 /\ <<r>>[1] = r
    BY <1>1
  <2>2. QED
    BY <1>1, <1>2, <2>1
<1>4. last = IF n = 0 THEN 0 ELSE new[n].to
  BY <1>1, <1>3 DEF Tells
<1>5. \A k \in 1 .. n : /\ new[k].from = IF k = 1 THEN 1 ELSE new[k - 1].to + 1
                        /\ new[k].from <= new[k].to
                        /\ \A s \in new[k].from .. new[k].to : new[k].tps = TpsAt(ps, s)
  <2>1. TAKE k \in 1 .. n
  <2>2. k # 1 => k - 1 \in 1 .. n
    BY <1>1
  <2>3. QED
    BY <1>3, <2>2 DEF Tells
<1> HIDE DEF n, new
<1>6. ASSUME NEW k \in 1 .. n + 1
      PROVE  /\ new[k].from = IF k = 1 THEN 1 ELSE new[k - 1].to + 1
             /\ new[k].from <= new[k].to
             /\ \A s \in new[k].from .. new[k].to : new[k].tps = TpsAt(ps, s)
  <2>1. CASE k \in 1 .. n
    BY <1>5, <2>1
  <2>2. CASE k = n + 1
    <3>1. new[k] = r
      BY <1>3, <2>2
    <3>2. (k = 1 <=> n = 0) /\ (k # 1 => k - 1 = n)
      BY <1>1, <2>2
    <3>3. r.from = IF k = 1 THEN 1 ELSE new[k - 1].to + 1
      BY <1>4, <3>2
    <3>4. QED
      BY <3>1, <3>3
  <2>3. QED
    BY <1>1, <2>1, <2>2
<1>7. Tells(new, ps, r.to)
  BY <1>1, <1>2, <1>3, <1>6 DEF Tells
<1>8. QED
  BY <1>7 DEF new

\* The rate of a slot that one period covers is that period's.
LEMMA RateInPeriod ==
  ASSUME NEW ps \in Periods, NEW current, OrderAt(ps, current),
         NEW i \in 1 .. PeriodsLen, ps[i] # NoPeriod,
         NEW s \in ps[i].startsAt .. ps[i].endsAt
  PROVE  TpsAt(ps, s) = ps[i].tps
<1>1. \A j \in 1 .. PeriodsLen : /\ ps[j].startsAt \in Nat /\ ps[j].endsAt \in Nat
                                 /\ Covers(ps[j], s) => ps[j] # NoPeriod
  BY DEF Periods, Period, Covers, Used, NoPeriod
<1>2. s \in Int /\ ps[i].startsAt <= s /\ s <= ps[i].endsAt
  BY <1>1
<1>3. Covers(ps[i], s)
  BY <1>1, <1>2 DEF Covers, Used, OrderAt
<1>4. ASSUME NEW j \in 1 .. PeriodsLen, Covers(ps[j], s)
      PROVE  j = i
  <2>1. ps[j] # NoPeriod /\ ps[j].startsAt <= s /\ s <= ps[j].endsAt
    BY <1>1, <1>4 DEF Covers
  <2>2. ~(i < j)
    BY <1>1, <1>2, <2>1 DEF OrderAt
  <2>3. ~(j < i)
    BY <1>1, <1>2, <2>1 DEF OrderAt
  <2>4. QED
    BY <2>2, <2>3
<1>5. (CHOOSE j \in 1 .. PeriodsLen : Covers(ps[j], s)) = i
  BY <1>3, <1>4
<1>6. QED
  BY <1>3, <1>5 DEF TpsAt

\* Nothing is released between a period and the one before it.
LEMMA RateInGap ==
  ASSUME NEW ps \in Periods, NEW current, OrderAt(ps, current),
         NEW i \in 1 .. PeriodsLen, ps[i] # NoPeriod,
         NEW s \in Before(ps, i).endsAt + 1 .. ps[i].startsAt - 1
  PROVE  TpsAt(ps, s) = 0
<1>1. ASSUME NEW j \in 1 .. PeriodsLen
      PROVE  /\ ps[j].startsAt \in Nat /\ ps[j].endsAt \in Nat
             /\ Covers(ps[j], s) => ps[j] # NoPeriod
  <2>1. ps[j] \in Period
    BY DEF Periods
  <2>2. ps[j].startsAt \in Nat /\ ps[j].endsAt \in Nat
    BY <2>1 DEF Period
  <2>3. Covers(ps[j], s) => ps[j] # NoPeriod
    BY DEF Covers, Used, NoPeriod
  <2>4. QED
    BY <2>2, <2>3
<1>2. Before(ps, i).endsAt \in Nat
  BY <1>1 DEF Before, NoPeriod
<1>3. s \in Int /\ Before(ps, i).endsAt < s /\ s < ps[i].startsAt
  BY <1>1, <1>2
<1>4. ASSUME NEW j \in 1 .. PeriodsLen, Covers(ps[j], s)
      PROVE  FALSE
  <2>1. ps[j] # NoPeriod /\ ps[j].startsAt <= s /\ s <= ps[j].endsAt
    BY <1>1, <1>4 DEF Covers
  <2>2. ~(j <= i)
    <3>1. CASE j = i
      BY <1>1, <1>3, <2>1, <3>1
    <3>2. CASE j < i
      <4>1. ps[i].endsAt < ps[j].startsAt /\ ps[i].startsAt < ps[i].endsAt
        BY <3>2 DEF OrderAt
      <4>2. QED
        BY <1>1, <1>3, <2>1, <4>1
    <3>3. QED
      BY <3>1, <3>2
  <2>3. i < PeriodsLen /\ i + 1 \in 1 .. PeriodsLen /\ Before(ps, i) = ps[i + 1]
    BY <2>2 DEF Before
  <2>4. CASE j = i + 1
    BY <1>1, <1>3, <2>1, <2>3, <2>4
  <2>5. CASE i + 1 < j
    <3>1. ps[j].endsAt < ps[i + 1].startsAt
      BY <2>1, <2>3, <2>5 DEF OrderAt
    <3>2. ps[i + 1] # NoPeriod => ps[i + 1].startsAt < ps[i + 1].endsAt
      BY <2>3 DEF OrderAt
    <3>3. ps[i + 1] = NoPeriod => ps[i + 1].startsAt = 0
      BY DEF NoPeriod
    <3>4. QED
      BY <1>1, <1>3, <2>1, <2>3, <3>1, <3>2, <3>3
  <2>6. QED
    BY <2>2, <2>3, <2>4, <2>5
<1>5. QED
  BY <1>4 DEF TpsAt

\* Nor after the newest period.
LEMMA RateAfterAll ==
  ASSUME NEW ps \in Periods, NEW current, OrderAt(ps, current),
         NEW s \in Int, ps[1].endsAt < s
  PROVE  TpsAt(ps, s) = 0
<1>1. \A j \in 1 .. PeriodsLen : /\ ps[j].startsAt \in Nat /\ ps[j].endsAt \in Nat
                                 /\ Covers(ps[j], s) => ps[j] # NoPeriod
  BY DEF Periods, Period, Covers, Used, NoPeriod
<1>2. ASSUME NEW j \in 1 .. PeriodsLen, Covers(ps[j], s)
      PROVE  FALSE
  <2>1. ps[j] # NoPeriod /\ s <= ps[j].endsAt /\ 1 \in 1 .. PeriodsLen
    BY <1>1, <1>2 DEF Covers
  <2>2. j # 1 => ps[j].endsAt < ps[1].startsAt
    BY <2>1 DEF OrderAt
  <2>3. ps[1].startsAt <= ps[1].endsAt
    BY <1>1, <2>1 DEF OrderAt, NoPeriod
  <2>4. QED
    BY <1>1, <2>1, <2>2, <2>3
<1>3. QED
  BY <1>2 DEF TpsAt

\* The ranges of one period extend what was told up to the period before it.
LEMMA TellsOnePeriodMore ==
  ASSUME NEW ps \in Periods, NEW current, OrderAt(ps, current),
         NEW i \in 1 .. PeriodsLen, NEW h, Tells(h, ps, Before(ps, i).endsAt)
  PROVE  /\ RangesOf(ps, i) \in Seq(Ranges)
         /\ Tells(h \o RangesOf(ps, i), ps, ps[i].endsAt)
<1> DEFINE b == Before(ps, i)
           told == TpsRange(ps[i].startsAt, ps[i].endsAt, ps[i].tps)
           gap == TpsRange(b.endsAt + 1, ps[i].startsAt - 1, 0)
<1>1. /\ ps[i].startsAt \in Nat /\ ps[i].endsAt \in Nat /\ ps[i].tps \in Nat
      /\ b.startsAt \in Nat /\ b.endsAt \in Nat
  BY DEF Periods, Period, Before, NoPeriod
<1>2. h \in Seq(Ranges)
  BY DEF Tells
<1>3. CASE ps[i] = NoPeriod
  <2>1. b = NoPeriod
    <3>1. CASE i < PeriodsLen
      <4>1. i + 1 \in 1 .. PeriodsLen /\ i < i + 1
        BY <3>1
      <4>2. ps[i + 1] \in Period
        BY <4>1 DEF Periods
      <4>3. ps[i].startsAt = 0 /\ ~(ps[i + 1].endsAt < 0)
        BY <1>3, <4>2 DEF NoPeriod, Period
      <4>4. ps[i + 1] = NoPeriod
        BY <4>1, <4>3 DEF OrderAt
      <4>5. QED
        BY <3>1, <4>4 DEF Before
    <3>2. CASE ~(i < PeriodsLen)
      BY <3>2 DEF Before
    <3>3. QED
      BY <3>1, <3>2
  <2>2. RangesOf(ps, i) = <<>>
    BY <1>3, <2>1 DEF RangesOf, NoPeriod
  <2>3. h \o <<>> = h /\ <<>> \in Seq(Ranges)
    BY <1>2, ConcatEmptySeq, EmptySeq
  <2>4. QED
    BY <1>3, <2>1, <2>2, <2>3
<1>4. CASE ps[i] # NoPeriod
  <2>1. 0 < ps[i].startsAt /\ ps[i].startsAt < ps[i].endsAt
    BY <1>4 DEF OrderAt
  <2>2. b.endsAt < ps[i].startsAt
    <3>1. CASE i < PeriodsLen
      <4>1. i + 1 \in 1 .. PeriodsLen /\ i < i + 1 /\ b = ps[i + 1]
        BY <3>1 DEF Before
      <4>2. ps[i + 1] = NoPeriod \/ ps[i + 1].endsAt < ps[i].startsAt
        BY <4>1 DEF OrderAt
      <4>3. QED
        BY <2>1, <4>1, <4>2 DEF NoPeriod
    <3>2. CASE ~(i < PeriodsLen)
      BY <2>1, <3>2 DEF Before, NoPeriod
    <3>3. QED
      BY <3>1, <3>2
  <2>3. /\ told \in Ranges /\ told.from = ps[i].startsAt /\ told.to = ps[i].endsAt
        /\ told.tps = ps[i].tps
    BY <1>1 DEF TpsRange, Ranges
  <2>4. /\ gap \in Ranges /\ gap.from = b.endsAt + 1 /\ gap.to = ps[i].startsAt - 1
        /\ gap.tps = 0
    BY <1>1 DEF TpsRange, Ranges
  <2>5. \A s \in told.from .. told.to : told.tps = TpsAt(ps, s)
    BY <1>4, <2>3, RateInPeriod
  <2>6. \A s \in gap.from .. gap.to : gap.tps = TpsAt(ps, s)
    BY <1>4, <2>4, RateInGap
  <2>7. RangesOf(ps, i) = GapBefore(ps, i) \o <<told>>
    BY <2>1 DEF RangesOf
  <2>8. <<told>> \in Seq(Ranges) /\ <<gap>> \in Seq(Ranges) /\ <<>> \in Seq(Ranges)
    BY <2>3, <2>4, EmptySeq
  <2> HIDE DEF told, gap
  <2>9. CASE b.endsAt + 1 # ps[i].startsAt
    <3>1. GapBefore(ps, i) = <<gap>>
      BY <2>1, <2>9 DEF GapBefore, gap
    <3>2. gap.from <= gap.to
      BY <1>1, <2>2, <2>4, <2>9
    <3>3. Tells(h \o <<gap>>, ps, gap.to)
      BY <2>4, <2>6, <3>2, TellsOneMore
    <3>4. told.from = gap.to + 1 /\ told.from <= told.to
      BY <1>1, <2>1, <2>3, <2>4
    <3>5. Tells((h \o <<gap>>) \o <<told>>, ps, told.to)
      BY ONLY <2>3, <2>5, <3>3, <3>4, TellsOneMore
    <3>6. (h \o <<gap>>) \o <<told>> = h \o (<<gap>> \o <<told>>)
      BY <1>2, <2>8, ConcatAssociative
    <3>7. <<gap>> \o <<told>> \in Seq(Ranges)
      BY <2>8, ConcatProperties
    <3>8. QED
      BY <2>3, <2>7, <3>1, <3>5, <3>6, <3>7
  <2>10. CASE b.endsAt + 1 = ps[i].startsAt
    <3>1. GapBefore(ps, i) = <<>>
      BY <2>10 DEF GapBefore
    <3>2. <<>> \o <<told>> = <<told>>
      BY <2>8, ConcatEmptySeq
    <3>3. told.from = b.endsAt + 1 /\ told.from <= told.to
      BY <1>1, <2>1, <2>3, <2>10
    <3>4. Tells(h \o <<told>>, ps, told.to)
      BY <2>3, <2>5, <3>3, TellsOneMore
    <3>5. QED
      BY <2>3, <2>7, <2>8, <3>1, <3>2, <3>4
  <2>11. QED
    BY <2>9, <2>10
<1>5. QED
  BY <1>3, <1>4

\* All periods together tell the rates up to the end of the newest one, and
\* the trailing range goes on from there.
LEMMA HistoryTells ==
  ASSUME NEW ps \in Periods, NEW current, OrderAt(ps, current), NEW until \in Nat
  PROVE  \E last \in Nat : last >= until /\ Tells(TpsHistory(ps, until), ps, last)
<1> DEFINE seqs == [k \in 1 .. PeriodsLen |-> RangesOf(ps, PeriodsLen + 1 - k)]
           End(k) == IF k = 0 THEN 0 ELSE ps[PeriodsLen + 1 - k].endsAt
<1>1. \A k \in 1 .. PeriodsLen : /\ PeriodsLen + 1 - k \in 1 .. PeriodsLen
                                 /\ Before(ps, PeriodsLen + 1 - k).endsAt = End(k - 1)
  <2>1. TAKE k \in 1 .. PeriodsLen
  <2>2. PeriodsLen + 1 - k \in 1 .. PeriodsLen
    OBVIOUS
  <2>3. (PeriodsLen + 1 - k) + 1 = PeriodsLen + 1 - (k - 1)
    OBVIOUS
  <2>4. k = 1 <=> ~(PeriodsLen + 1 - k < PeriodsLen)
    OBVIOUS
  <2>5. k - 1 = 0 <=> k = 1
    OBVIOUS
  <2>6. QED
    BY <2>2, <2>3, <2>4, <2>5 DEF Before, NoPeriod
<1>2. seqs \in Seq(Seq(Ranges)) /\ Len(seqs) = PeriodsLen
  <2>2. \A k \in 1 .. PeriodsLen : RangesOf(ps, PeriodsLen + 1 - k) \in Seq(Ranges)
    BY <1>1, RangesOfType
  <2>3. QED
    BY <2>2
<1>3. PICK h : /\ h[0] = <<>> /\ h[PeriodsLen] = Joined(seqs)
               /\ \A k \in 1 .. PeriodsLen : h[k] = h[k - 1] \o RangesOf(ps, PeriodsLen + 1 - k)
  <2>1. PICK h : JoinsByParts(h, seqs, Ranges)
    <3> HIDE DEF seqs
    <3>1. QED
      BY ONLY <1>2, JoinedByParts
  <2>2. \A k \in 1 .. PeriodsLen : seqs[k] = RangesOf(ps, PeriodsLen + 1 - k)
    OBVIOUS
  <2>3. QED
    BY <1>2, <2>1, <2>2 DEF JoinsByParts
<1>4. \A k \in 0 .. PeriodsLen : Tells(h[k], ps, End(k))
  <2> DEFINE T == {k \in Nat : k \in 0 .. PeriodsLen => Tells(h[k], ps, End(k))}
  <2>1. 0 \in T
    <3>1. <<>> \in Seq(Ranges) /\ Len(<<>>) = 0
      BY EmptySeq
    <3>2. Tells(<<>>, ps, 0)
      BY <3>1 DEF Tells
    <3>3. QED
      BY <1>3, <3>2
  <2>2. ASSUME NEW k \in T PROVE k + 1 \in T
    <3>1. SUFFICES ASSUME k + 1 \in 0 .. PeriodsLen PROVE Tells(h[k + 1], ps, End(k + 1))
      OBVIOUS
    <3>2. k \in Nat /\ k \in 0 .. PeriodsLen /\ k + 1 \in 1 .. PeriodsLen /\ (k + 1) - 1 = k
      BY <3>1
    <3>3. Tells(h[k], ps, End(k))
      BY <3>2
    <3> DEFINE i == PeriodsLen + 1 - (k + 1)
    <3>4. i \in 1 .. PeriodsLen /\ Before(ps, i).endsAt = End(k) /\ ps[i].endsAt = End(k + 1)
      BY <1>1, <3>2
    <3>5. h[k + 1] = h[k] \o RangesOf(ps, i)
      BY <1>3, <3>2
    <3> HIDE DEF i, End
    <3>6. QED
      BY <3>3, <3>4, <3>5, TellsOnePeriodMore
  <2>3. T = Nat
    <3> HIDE DEF T
    <3>1. T \subseteq Nat
      BY DEF T
    <3>2. QED
      BY <2>1, <2>2, <3>1, SetInduction
  <2>4. QED
    BY <2>3
<1>5. Tells(Joined(seqs), ps, ps[1].endsAt)
  <2>1. PeriodsLen \in 0 .. PeriodsLen /\ PeriodsLen # 0 /\ PeriodsLen + 1 - PeriodsLen = 1
    OBVIOUS
  <2> HIDE DEF seqs
  <2>2. QED
    BY <1>3, <1>4, <2>1
<1>6. TpsHistory(ps, until) = Joined(seqs) \o Trailing(ps, until)
  BY DEF TpsHistory, Joined
<1>7. ps[1].endsAt \in Nat
  BY DEF Periods, Period
<1> HIDE DEF seqs
<1>8. CASE ps[1].endsAt < until
  <2> DEFINE r == TpsRange(ps[1].endsAt + 1, until, 0)
  <2>1. r \in Ranges /\ r.from = ps[1].endsAt + 1 /\ r.to = until /\ r.tps = 0
    BY <1>7 DEF TpsRange, Ranges
  <2>2. r.from <= r.to
    BY <1>7, <1>8, <2>1
  <2>3. \A s \in r.from .. r.to : r.tps = TpsAt(ps, s)
    <3>1. \A s \in r.from .. r.to : s \in Int /\ ps[1].endsAt < s
      BY <1>7, <2>1
    <3>2. QED
      BY <2>1, <3>1, RateAfterAll
  <2>4. Trailing(ps, until) = <<r>>
    BY <1>8 DEF Trailing
  <2> HIDE DEF r
  <2>5. Tells(Joined(seqs) \o <<r>>, ps, until)
    BY <1>5, <2>1, <2>2, <2>3, TellsOneMore
  <2>6. QED
    BY <1>6, <2>4, <2>5
<1>9. CASE ~(ps[1].endsAt < until)
  <2>1. Trailing(ps, until) = <<>>
    BY <1>9 DEF Trailing
  <2>2. Joined(seqs) \o <<>> = Joined(seqs)
    BY <1>5, ConcatEmptySeq DEF Tells
  <2>3. QED
    BY <1>5, <1>6, <1>7, <1>9, <2>1, <2>2
<1>10. QED
  BY <1>8, <1>9
-----------------------------------------------------------------------------
(* What is released in an interval of slots.                               *)

RatesBySlot(ps) == [s \in Int |-> TpsAt(ps, s)]

\* Tokens released in the slots a .. c.
Emitted(ps, a, c) == SumFunctionOnSet(RatesBySlot(ps), a .. c)

\* A rate is a number of tokens.
LEMMA RateType ==
  ASSUME NEW ps \in Periods, NEW s
  PROVE  TpsAt(ps, s) \in Nat
<1>1. \A i \in 1 .. PeriodsLen : ps[i].tps \in Nat
  BY DEF Periods, Period
<1>2. (\E i \in 1 .. PeriodsLen : Covers(ps[i], s))
        => (CHOOSE i \in 1 .. PeriodsLen : Covers(ps[i], s)) \in 1 .. PeriodsLen
  OBVIOUS
<1>3. QED
  BY <1>1, <1>2 DEF TpsAt

\* Nothing is released in no slot.
LEMMA EmittedType ==
  ASSUME NEW ps \in Periods, NEW a \in Int, NEW c \in Int
  PROVE  Emitted(ps, a, c) \in Nat /\ (c < a => Emitted(ps, a, c) = 0)
<1>1. IsFiniteSet(a .. c)
  BY FS_Interval
<1>2. \A s \in a .. c : RatesBySlot(ps)[s] \in Nat
  BY RateType DEF RatesBySlot
<1>3. c < a => a .. c = {}
  OBVIOUS
<1>4. QED
  BY <1>1, <1>2, <1>3, SumUnfolds DEF Emitted

\* An interval may be cut anywhere.
LEMMA EmittedJoins ==
  ASSUME NEW ps \in Periods, NEW a \in Int, NEW m \in Int, NEW c \in Int, a <= m, m <= c + 1
  PROVE  Emitted(ps, a, c) = Emitted(ps, a, m - 1) + Emitted(ps, m, c)
<1>1. IsFiniteSet(a .. c) /\ a .. (m - 1) \subseteq a .. c
  BY FS_Interval
<1>2. (a .. c) \ (a .. (m - 1)) = m .. c
  OBVIOUS
<1>3. \A s \in a .. c : RatesBySlot(ps)[s] \in Nat
  BY RateType DEF RatesBySlot
<1>4. QED
  BY <1>1, <1>2, <1>3, SumOfParts DEF Emitted

\* Where the rate does not change, it is released in each slot.
LEMMA EmittedAtRate ==
  ASSUME NEW ps \in Periods, NEW a \in Int, NEW c \in Int, a <= c + 1,
         NEW rate \in Nat, \A s \in a .. c : TpsAt(ps, s) = rate
  PROVE  Emitted(ps, a, c) = (c - a + 1) * rate
<1> DEFINE T == {k \in Nat : a + k - 1 <= c => Emitted(ps, a, a + k - 1) = k * rate}
<1>1. 0 \in T
  <2>1. a + 0 - 1 < a /\ a + 0 - 1 \in Int /\ 0 * rate = 0
    OBVIOUS
  <2>2. Emitted(ps, a, a + 0 - 1) = 0
    BY <2>1, EmittedType
  <2>3. QED
    BY <2>1, <2>2
<1>2. ASSUME NEW k \in T PROVE k + 1 \in T
  <2>1. SUFFICES ASSUME a + (k + 1) - 1 <= c
                 PROVE  Emitted(ps, a, a + (k + 1) - 1) = (k + 1) * rate
    OBVIOUS
  <2>2. k \in Nat
    OBVIOUS
  <2> DEFINE x == a + k
  <2>3. /\ x \in Int /\ x \in a .. c /\ a + (k + 1) - 1 = x /\ a + k - 1 = x - 1 /\ x - 1 <= c
        /\ a <= x /\ x <= x + 1
    BY <2>1, <2>2
  <2>4. Emitted(ps, a, x - 1) = k * rate
    BY <2>3
  <2> HIDE DEF x
  <2>5. Emitted(ps, a, x) = Emitted(ps, a, x - 1) + Emitted(ps, x, x)
    BY <2>3, EmittedJoins
  <2>6. Emitted(ps, x, x) = rate
    <3>1. x .. x = {x} /\ RatesBySlot(ps)[x] = rate
      BY <2>3 DEF RatesBySlot
    <3>2. QED
      BY <3>1, SumOfOne DEF Emitted
  <2>7. (k + 1) * rate = k * rate + rate
    BY <2>2
  <2>8. QED
    BY <2>3, <2>4, <2>5, <2>6, <2>7
<1>3. T = Nat
  <2> HIDE DEF T
  <2>1. T \subseteq Nat
    BY DEF T
  <2>2. QED
    BY <1>1, <1>2, <2>1, SetInduction
<1>4. c - a + 1 \in Nat /\ a + (c - a + 1) - 1 = c
  OBVIOUS
<1> DEFINE k == c - a + 1
<1>5. k \in T /\ a + k - 1 = c
  BY <1>3, <1>4
<1>6. QED
  BY <1>5
=============================================================================
