------------------------- MODULE SnapshotRingProofs -------------------------
(***************************************************************************)
(* Proofs about SnapshotRing for every ring length, window and amount.     *)
(***************************************************************************)
EXTENDS SnapshotRing, HistoryFacts

USE RingLenAssumption, DefaultWindowAssumption, AmountsAssumption,
    WindowsAssumption, MaxSlotAssumption

-----------------------------------------------------------------------------
(* Type correctness.                                                       *)

\* Every field stays in its type: in particular the tip stays in the ring.
THEOREM TypeCorrect == Spec => []TypeOK
<1>1. Init => TypeOK
  BY DEF Init, TypeOK, EmptyBuffer, Unwritten, Buffer, Snapshot, Slot, Index
<1>2. TypeOK /\ [Next]_vars => TypeOK'
  <2> SUFFICES ASSUME TypeOK, [Next]_vars PROVE TypeOK'
    OBVIOUS
  <2>1. CASE TakeSnapshot
    BY <2>1, PushType DEF TypeOK, TakeSnapshot, Slot
  <2>2. ASSUME NEW w \in Windows, SetMinSnapshotWindow(w) PROVE TypeOK'
    BY <2>2 DEF TypeOK, SetMinSnapshotWindow
  <2>3. ASSUME NEW a \in Amounts, MoveStake(a) PROVE TypeOK'
    BY <2>3 DEF TypeOK, MoveStake
  <2>4. CASE Tick \/ UNCHANGED vars
    BY <2>4 DEF TypeOK, Tick, Slot, vars
  <2>5. QED
    BY <2>1, <2>2, <2>3, <2>4 DEF Next
<1>3. QED
  BY <1>1, <1>2, PTL DEF Spec

-----------------------------------------------------------------------------
(* The order of the ring.                                                  *)

\* The ring is always in order, for every length of ring and whatever windows
\* the admin sets.
THEOREM HistoryStaysInOrder == Spec => []HistoryInOrder
<1>1. HistoryInOrder <=> RingInOrder(buffer, slot)
  BY DEF HistoryInOrder, RingInOrder
<1>2. HistoryInOrder' <=> RingInOrder(buffer', slot')
  BY DEF HistoryInOrder, RingInOrder
<1>3. Init => HistoryInOrder
  <2> SUFFICES ASSUME Init PROVE RingInOrder(buffer, slot)
    BY <1>1
  <2>1. buffer = EmptyBuffer /\ slot \in Nat
    BY DEF Init
  <2>2. QED
    BY <2>1, EmptyRingInOrder
<1>4. TypeOK /\ HistoryInOrder /\ [Next]_vars => HistoryInOrder'
  <2> SUFFICES ASSUME TypeOK, RingInOrder(buffer, slot), [Next]_vars
               PROVE  RingInOrder(buffer', slot')
    BY <1>1, <1>2
  <2>1. buffer \in Buffer /\ slot \in Nat /\ minWindow \in Nat /\ stakeVault \in Nat
    BY DEF TypeOK, Slot
  <2>2. CASE TakeSnapshot
    BY <2>1, <2>2, PushKeepsRingOrder DEF TakeSnapshot
  <2>3. ASSUME slot' >= slot, buffer' = buffer, slot' \in Nat PROVE RingInOrder(buffer', slot')
    BY <2>1, <2>3, RingStaysInOrder
  <2>4. ASSUME NEW w \in Windows, SetMinSnapshotWindow(w) PROVE RingInOrder(buffer', slot')
    BY <2>1, <2>3, <2>4 DEF SetMinSnapshotWindow
  <2>5. ASSUME NEW a \in Amounts, MoveStake(a) PROVE RingInOrder(buffer', slot')
    BY <2>1, <2>3, <2>5 DEF MoveStake
  <2>6. CASE Tick
    BY <2>1, <2>3, <2>6 DEF Tick
  <2>7. CASE UNCHANGED vars
    BY <2>1, <2>3, <2>7 DEF vars
  <2>8. QED
    BY <2>2, <2>4, <2>5, <2>6, <2>7 DEF Next
<1>5. QED
  BY <1>3, <1>4, TypeCorrect, PTL DEF Spec

-----------------------------------------------------------------------------
(* How far back the ring reaches.                                          *)

\* Every snapshot opens at least a window after the one before it, and the
\* ring forgets only its oldest entry.
THEOREM WindowsStaySpaced == Spec => WindowsAreSpaced
<1>1. ASSUME TypeOK, HistoryInOrder, TakeSnapshot
      PROVE  /\ Latest(buffer').startedAt
                  >= Latest(buffer).startedAt + EffectiveWindow(minWindow)
             /\ Oldest(buffer').startedAt >= Oldest(buffer).startedAt
  <2> DEFINE last == RingLen - 1
  <2>1. /\ buffer \in Buffer /\ slot \in Nat /\ stakeVault \in Nat
        /\ buffer' = Push(buffer, stakeVault, slot)
    BY <1>1 DEF TypeOK, TakeSnapshot, Slot
  <2>2. buffer' \in Buffer
    BY <2>1, PushType
  <2>3. /\ 0 \in Index /\ last \in Index /\ last # 0
        /\ last - 1 \in Index /\ last - 1 < last
    BY DEF Index
  <2>4. /\ Nth(buffer', 0) = [staked |-> stakeVault, startedAt |-> slot]
        /\ Nth(buffer', last) = Nth(buffer, last - 1)
    BY <2>1, <2>3, PushAges
  <2>5. Latest(buffer') = [staked |-> stakeVault, startedAt |-> slot]
    BY <2>2, <2>4, EndsOfRing
  <2>6. slot >= Latest(buffer).startedAt + EffectiveWindow(minWindow)
    BY <1>1 DEF TakeSnapshot, SufficientTimePassed
  <2>7. /\ Oldest(buffer') = Nth(buffer, last - 1)
        /\ Oldest(buffer) = Nth(buffer, last)
    BY <2>1, <2>2, <2>4, EndsOfRing
  <2>8. /\ Nth(buffer, last - 1).startedAt \in Nat /\ Nth(buffer, last).startedAt \in Nat
    BY <2>1, <2>3, NthType DEF Snapshot, Slot
  <2>9. \/ Nth(buffer, last - 1).startedAt > Nth(buffer, last).startedAt
        \/ Nth(buffer, last).startedAt = 0
    BY <1>1, <2>3 DEF HistoryInOrder
  <2> HIDE DEF last
  <2>10. Oldest(buffer').startedAt >= Oldest(buffer).startedAt
    BY <2>7, <2>8, <2>9
  <2>11. QED
    BY <2>5, <2>6, <2>10
<1>2. TypeOK /\ HistoryInOrder /\ [Next]_vars =>
        [buffer' # buffer =>
           /\ Latest(buffer').startedAt
                >= Latest(buffer).startedAt + EffectiveWindow(minWindow)
           /\ Oldest(buffer').startedAt >= Oldest(buffer).startedAt]_vars
  BY <1>1 DEF Next, SetMinSnapshotWindow, MoveStake, Tick
<1>3. QED
  BY <1>2, TypeCorrect, HistoryStaysInOrder, PTL DEF Spec, WindowsAreSpaced

-----------------------------------------------------------------------------
(* The ring read as a queue.                                               *)

\* In a ring that is in order, what started at or before a slot are the oldest
\* entries.
LEMMA AgesAreOldest ==
  ASSUME TypeOK, HistoryInOrder, NEW at \in Nat,
         NEW j \in Index, NEW k \in Index, j < k, j \in AgesUpTo(buffer, at)
  PROVE  k \in AgesUpTo(buffer, at)
<1>1. Nth(buffer, j).startedAt <= at
  BY DEF AgesUpTo
<1>2. Nth(buffer, j).startedAt \in Nat /\ Nth(buffer, k).startedAt \in Nat
  BY NthType DEF TypeOK, Snapshot, Slot
<1>3. \/ Nth(buffer, j).startedAt > Nth(buffer, k).startedAt
      \/ Nth(buffer, k).startedAt = 0
  BY DEF HistoryInOrder
<1>4. Nth(buffer, k).startedAt <= at
  BY <1>1, <1>2, <1>3
<1>5. QED
  BY <1>4 DEF AgesUpTo

\* The entries that hold a snapshot are the youngest ones.
LEMMA WrittenAreYoungest ==
  ASSUME TypeOK, HistoryInOrder
  PROVE  /\ Written \in 0 .. RingLen
         /\ \A k \in Index : Nth(buffer, k).startedAt \in Nat
         /\ \A k \in Index : k < Written <=> Nth(buffer, k).startedAt > 0
         /\ \A i \in 1 .. Written : Written - i \in Index
<1> DEFINE ages == AgesUpTo(buffer, 0)
<1>1. ages \subseteq Index
  BY DEF AgesUpTo
<1>2. \A k \in Index : Nth(buffer, k).startedAt \in Nat
  BY NthType DEF TypeOK, Snapshot, Slot
<1>3. \A k \in Index : k \in ages <=> Nth(buffer, k).startedAt = 0
  BY <1>2 DEF AgesUpTo
<1>4. CASE ages = {}
  <2>1. Written = RingLen
    BY <1>4 DEF Written
  <2>2. QED
    BY <1>2, <1>3, <1>4, <2>1 DEF Index
<1>5. CASE ages # {}
  <2> DEFINE y == Youngest(ages)
  <2>1. Written = y
    BY <1>5 DEF Written
  <2>2. y \in ages /\ \A j \in ages : y <= j
    BY <1>1, <1>5, YoungestIsLeast
  <2>3. \A k \in Index : y < k => k \in ages
    BY <1>1, <2>2, AgesAreOldest
  <2> HIDE DEF y, ages
  <2>4. y \in Index
    BY <1>1, <2>2
  <2>5. \A k \in Index : k < y <=> Nth(buffer, k).startedAt > 0
    <3>1. \A k \in Index : k < y <=> k \notin ages
      BY <2>2, <2>3, <2>4 DEF Index
    <3>2. QED
      BY <1>2, <1>3, <3>1
  <2>6. QED
    BY <1>2, <2>1, <2>4, <2>5 DEF Index
<1>6. QED
  BY <1>4, <1>5

\* The queue's entries, by age.
LEMMA RecentIsByAge ==
  ASSUME TypeOK, HistoryInOrder
  PROVE  /\ Recent \in Seq(Snapshot) /\ Len(Recent) = Written
         /\ \A i \in 1 .. Written : Recent[i] = Nth(buffer, Written - i)
<1>1. Written \in 0 .. RingLen /\ \A i \in 1 .. Written : Written - i \in Index
  BY WrittenAreYoungest
<1>2. \A i \in 1 .. Written : Nth(buffer, Written - i) \in Snapshot
  BY <1>1, NthType DEF TypeOK
<1>3. Recent = [i \in 1 .. Written |-> Nth(buffer, Written - i)]
  BY DEF Recent
<1>4. Written \in Nat
  BY <1>1
<1>5. QED
  BY ONLY <1>2, <1>3, <1>4

\* The ring has forgotten the window of a slot just when every entry started
\* after it.
LEMMA ForgottenIsNoAge ==
  ASSUME TypeOK, HistoryInOrder, NEW at \in Nat
  PROVE  Queue!Forgotten(at) <=> AgesUpTo(buffer, at) = {}
<1>1. /\ Len(Recent) = Written
      /\ \A i \in 1 .. Written : Recent[i] = Nth(buffer, Written - i)
  BY RecentIsByAge
<1>2. /\ Written \in 0 .. RingLen
      /\ \A k \in Index : Nth(buffer, k).startedAt \in Nat
      /\ \A k \in Index : k < Written <=> Nth(buffer, k).startedAt > 0
  BY WrittenAreYoungest
<1>3. RingLen - 1 \in Index
  BY DEF Index
<1>4. Queue!Forgotten(at) <=> Len(Recent) = RingLen /\ at < Recent[1].startedAt
  BY DEF Queue!Forgotten
<1>5. CASE Written = RingLen
  <2>1. Recent[1] = Nth(buffer, RingLen - 1)
    BY <1>1, <1>5
  <2>2. Queue!Forgotten(at) <=> RingLen - 1 \notin AgesUpTo(buffer, at)
    BY <1>1, <1>2, <1>3, <1>4, <1>5, <2>1 DEF AgesUpTo
  <2>3. \A k \in Index : k < RingLen - 1 \/ k = RingLen - 1
    BY DEF Index
  <2>4. \A k \in Index : k \in AgesUpTo(buffer, at) => RingLen - 1 \in AgesUpTo(buffer, at)
    BY <1>3, <2>3, AgesAreOldest
  <2>5. AgesUpTo(buffer, at) \subseteq Index
    BY DEF AgesUpTo
  <2>6. QED
    BY <2>2, <2>4, <2>5
<1>6. CASE Written # RingLen
  <2>1. ~(RingLen - 1 < Written)
    BY <1>2, <1>6
  <2>2. Nth(buffer, RingLen - 1).startedAt = 0
    BY <1>2, <1>3, <2>1
  <2>3. RingLen - 1 \in AgesUpTo(buffer, at)
    BY <1>3, <2>2 DEF AgesUpTo
  <2>4. ~Queue!Forgotten(at)
    BY <1>1, <1>4, <1>6
  <2>5. QED
    BY <2>3, <2>4
<1>7. QED
  BY <1>5, <1>6

\* first_snapshot_after on a ring in order.
LEMMA FirstAfterInOrder ==
  ASSUME TypeOK, HistoryInOrder, NEW at \in Nat
  PROVE  FirstSnapshotAfter(buffer, at) = Queue!FirstAfter(at)
<1> DEFINE ages == AgesUpTo(buffer, at)
           y == Youngest(ages)
           first == {j \in 1 .. Written : /\ ~Queue!Forgotten(at)
                                          /\ Recent[j].startedAt > at
                                          /\ \A k \in 1 .. j - 1 : Recent[k].startedAt <= at}
<1>1. /\ Len(Recent) = Written
      /\ \A i \in 1 .. Written : Recent[i] = Nth(buffer, Written - i)
  BY RecentIsByAge
<1>2. /\ Written \in 0 .. RingLen
      /\ \A k \in Index : Nth(buffer, k).startedAt \in Nat
      /\ \A k \in Index : k < Written <=> Nth(buffer, k).startedAt > 0
      /\ \A i \in 1 .. Written : Written - i \in Index
  BY WrittenAreYoungest
<1>3. Queue!FirstAfter(at) = {Recent[i] : i \in first}
  BY <1>1 DEF Queue!FirstAfter
<1>4. ages \subseteq Index
  BY DEF AgesUpTo
<1>5. Queue!Forgotten(at) <=> ages = {}
  BY ForgottenIsNoAge
<1>6. CASE ages = {}
  <2>1. first = {}
    BY <1>5, <1>6
  <2>2. FirstSnapshotAfter(buffer, at) = {}
    BY <1>6 DEF FirstSnapshotAfter
  <2> HIDE DEF first
  <2>3. QED
    BY <1>3, <2>1, <2>2
<1>7. CASE ages # {}
  <2>1. y \in ages /\ y \in Index
    BY <1>4, <1>7, YoungestIsLeast
  <2>2. \A k \in Index : y < k => k \in ages
    BY <2>1, AgesAreOldest
  <2>3. \A j \in ages : y <= j
    BY <1>4, <1>7, YoungestIsLeast
  <2> HIDE DEF y
  <2>4. \A k \in Index : k \in ages <=> y <= k
    BY <2>1, <2>2, <2>3 DEF Index
  <2>5. \A k \in Index : Nth(buffer, k).startedAt <= at <=> y <= k
    BY <2>4 DEF AgesUpTo
  <2>6. \A i \in 1 .. Written : Recent[i].startedAt <= at <=> y <= Written - i
    BY <1>1, <1>2, <2>5
  <2>7. \A i \in 1 .. Written : Recent[i].startedAt \in Nat
    BY <1>1, <1>2
  <2>8. y \in Nat /\ Written \in Nat
    BY <1>2, <2>1 DEF Index
  <2>9. \A j \in 1 .. Written :
          j \in first <=> y > Written - j /\ \A k \in 1 .. j - 1 : y <= Written - k
    <3>1. ASSUME NEW j \in 1 .. Written
          PROVE  j \in first <=> y > Written - j /\ \A k \in 1 .. j - 1 : y <= Written - k
      <4>1. Recent[j].startedAt > at <=> y > Written - j
        BY <2>6, <2>7, <2>8
      <4>2. \A k \in 1 .. j - 1 : k \in 1 .. Written
        BY <2>8
      <4>3. \A k \in 1 .. j - 1 : Recent[k].startedAt <= at <=> y <= Written - k
        BY <2>6, <4>2
      <4>4. QED
        BY <1>5, <1>7, <4>1, <4>3
    <3>2. QED
      BY <3>1
  <2>10. first \subseteq 1 .. Written
    OBVIOUS
  <2> HIDE DEF first, ages
  <2>11. CASE y = 0
    <3>1. first = {}
      BY <2>8, <2>9, <2>10, <2>11
    <3>2. Latest(buffer).startedAt <= at
      BY <2>5, <2>11, EndsOfRing DEF TypeOK
    <3>3. FirstSnapshotAfter(buffer, at) = {}
      BY <3>2, NothingAfterLatest
    <3>4. QED
      BY <1>3, <3>1, <3>3
  <2>12. CASE y # 0
    <3>1. y - 1 \in Index /\ y - 1 < y
      BY <2>1, <2>12 DEF Index
    <3>2. y <= Written
      <4>1. Nth(buffer, y - 1).startedAt > 0
        BY <1>2, <2>5, <2>8, <3>1
      <4>2. y - 1 < Written
        BY <1>2, <3>1, <4>1
      <4>3. QED
        BY <2>8, <4>2
    <3> DEFINE n == Written - y + 1
    <3>3. n \in 1 .. Written /\ Written - n = y - 1
      BY <2>8, <2>12, <3>2
    <3>4. ASSUME NEW j \in 1 .. Written PROVE j \in first <=> j = n
      <4>1. CASE j < n
        BY <2>8, <2>9, <4>1
      <4>2. CASE j = n
        <5>1. y > Written - j /\ \A k \in 1 .. j - 1 : y <= Written - k
          BY <2>8, <4>2
        <5>2. QED
          BY <2>9, <4>2, <5>1
      <4>3. CASE j > n
        <5>1. n \in 1 .. j - 1 /\ ~(y <= Written - n)
          BY <2>8, <3>3, <4>3
        <5>2. QED
          BY <2>9, <4>3, <5>1
      <4>4. QED
        BY <2>8, <4>1, <4>2, <4>3
    <3> HIDE DEF n
    <3>5. first = {n}
      BY <2>10, <3>3, <3>4
    <3>6. Queue!FirstAfter(at) = {Nth(buffer, y - 1)}
      BY <1>1, <1>3, <3>3, <3>5
    <3>7. ~(Latest(buffer).startedAt <= at)
      BY <2>5, <2>8, <2>12, EndsOfRing DEF TypeOK
    <3>8. FirstSnapshotAfter(buffer, at) # {}
      BY <1>7, <3>7 DEF FirstSnapshotAfter, ages
    <3>9. FirstSnapshotAfter(buffer, at) = {Nth(buffer, y - 1)}
      BY <3>8, FirstAfterIsNeighbour DEF TypeOK, y, ages
    <3>10. QED
      BY <3>6, <3>9
  <2>13. QED
    BY <2>11, <2>12
<1>8. QED
  BY <1>6, <1>7

\* first_snapshot_after answers from the ring what the queue of snapshots
\* knows, for every length of ring and wherever the tip is.
THEOREM FirstSnapshotAfterStaysExact == Spec => []FirstSnapshotAfterIsExact
<1>1. TypeOK /\ HistoryInOrder => FirstSnapshotAfterIsExact
  <2>1. SUFFICES ASSUME TypeOK, HistoryInOrder, NEW at \in 0 .. slot
                 PROVE  FirstSnapshotAfter(buffer, at) = Queue!FirstAfter(at)
    BY DEF FirstSnapshotAfterIsExact
  <2>2. at \in Nat
    BY <2>1 DEF TypeOK, Slot
  <2>3. QED
    BY <2>1, <2>2, FirstAfterInOrder
<1>2. QED
  BY <1>1, TypeCorrect, HistoryStaysInOrder, PTL

\* The queue counts as everybody does.
LEMMA QueueCardinality == \A S : Queue!Cardinality(S) = Cardinality(S)
BY DEF Queue!Cardinality, Cardinality

\* get_window_snapshots_eligible_to_harvest on a ring in order.
LEMMA EligibleInOrder ==
  ASSUME TypeOK, HistoryInOrder, NEW at \in Nat
  PROVE  LET eligible == EligibleSnapshots(buffer, at)
             covering == Queue!Covering(at)
         IN  /\ Len(covering) <= Len(eligible)
             /\ \A k \in 1 .. Len(eligible) :
                  IF k <= Len(covering) THEN eligible[k] = covering[k]
                                        ELSE eligible[k].startedAt = 0
<1> DEFINE ages == AgesUpTo(buffer, at)
           y == Youngest(ages)
           W == Written
           count == IF ages = {} THEN RingLen ELSE y + 1
           reach == IF count <= W THEN count ELSE W
           live == {i \in 1 .. W : ~(i < W /\ Recent[i + 1].startedAt <= at)}
<1>1. /\ Len(Recent) = W
      /\ \A i \in 1 .. W : Recent[i] = Nth(buffer, W - i)
  BY RecentIsByAge
<1>2. /\ W \in 0 .. RingLen
      /\ \A k \in Index : Nth(buffer, k).startedAt \in Nat
      /\ \A k \in Index : k < W <=> Nth(buffer, k).startedAt > 0
      /\ \A i \in 1 .. W : W - i \in Index
  BY WrittenAreYoungest
<1>3. EligibleSnapshots(buffer, at) = [k \in 1 .. count |-> Nth(buffer, k - 1)]
  BY DEF EligibleSnapshots
<1>4. Queue!Covering(at) = [k \in 1 .. Cardinality(live) |-> Recent[W + 1 - k]]
  <2>1. Queue!Covering(at)
          = [k \in 1 .. Cardinality({i \in 1 .. Len(Recent) : ~Queue!EndsBefore(i, at)}) |->
               Recent[Len(Recent) + 1 - k]]
    BY QueueCardinality DEF Queue!Covering
  <2>2. \A i : Queue!EndsBefore(i, at) <=> i < W /\ Recent[i + 1].startedAt <= at
    BY <1>1 DEF Queue!EndsBefore
  <2>3. {i \in 1 .. Len(Recent) : ~Queue!EndsBefore(i, at)} = live
    BY <1>1, <2>2
  <2> HIDE DEF live
  <2>4. QED
    BY <1>1, <2>1, <2>3
<1>5. ages \subseteq Index
  BY DEF AgesUpTo
<1>6. \A i \in 1 .. W : i \in live <=> i = W \/ W - (i + 1) \notin ages
  <2>1. ASSUME NEW i \in 1 .. W PROVE i \in live <=> i = W \/ W - (i + 1) \notin ages
    <3>1. CASE i = W
      BY <1>2, <3>1
    <3>2. CASE i # W
      <4>1. i < W /\ i + 1 \in 1 .. W
        BY <1>2, <3>2
      <4>2. Recent[i + 1] = Nth(buffer, W - (i + 1)) /\ W - (i + 1) \in Index
        BY <1>1, <1>2, <4>1
      <4>3. QED
        BY <3>2, <4>1, <4>2 DEF AgesUpTo
    <3>3. QED
      BY <3>1, <3>2
  <2>2. QED
    BY <2>1
<1>7. live \subseteq 1 .. W
  OBVIOUS
<1> HIDE DEF live, W
<1>8. /\ count \in 1 .. RingLen
      /\ live = W - reach + 1 .. W
      /\ \A k \in Index : k >= reach /\ k < count => Nth(buffer, k).startedAt = 0
  <2>1. CASE ages = {}
    <3>1. count = RingLen
      BY <2>1
    <3>2. \A k \in Index : Nth(buffer, k).startedAt > at
      BY <1>2, <2>1 DEF AgesUpTo
    <3>3. W = RingLen
      <4>1. RingLen - 1 \in Index
        BY DEF Index
      <4>2. Nth(buffer, RingLen - 1).startedAt > 0
        BY <1>2, <3>2, <4>1
      <4>3. RingLen - 1 < W
        BY <1>2, <4>1, <4>2
      <4>4. QED
        BY <1>2, <4>3
    <3>4. \A i \in 1 .. W : i \in live
      BY <1>6, <2>1
    <3>5. live = 1 .. W
      BY <1>7, <3>4
    <3>6. reach = W
      BY <3>1, <3>3
    <3>7. QED
      BY <3>1, <3>3, <3>5, <3>6 DEF Index
  <2>2. CASE ages # {}
    <3>1. y \in ages /\ y \in Index /\ \A j \in ages : y <= j
      BY <1>5, <2>2, YoungestIsLeast
    <3>2. \A k \in Index : y < k => k \in ages
      BY <3>1, AgesAreOldest
    <3>3. count = y + 1
      BY <2>2
    <3> HIDE DEF y
    <3>4. \A k \in Index : k \in ages <=> y <= k
      BY <3>1, <3>2 DEF Index
    <3>5. y <= W
      <4>1. CASE y = 0
        BY <1>2, <4>1
      <4>2. CASE y # 0
        <5>1. y - 1 \in Index /\ ~(y <= y - 1)
          BY <3>1, <4>2 DEF Index
        <5>2. ~(Nth(buffer, y - 1).startedAt <= at)
          BY <3>4, <5>1 DEF AgesUpTo
        <5>3. Nth(buffer, y - 1).startedAt > 0
          BY <1>2, <5>1, <5>2
        <5>4. y - 1 < W
          BY <1>2, <5>1, <5>3
        <5>5. QED
          BY <1>2, <3>1, <5>4 DEF Index
      <4>3. QED
        BY <4>1, <4>2
    <3>6. y \in Nat /\ W \in Nat /\ y < RingLen /\ W <= RingLen
      BY <1>2, <3>1 DEF Index
    <3>7. \A i \in 1 .. W : i \in live <=> i >= W - y
      <4>1. ASSUME NEW i \in 1 .. W PROVE i \in live <=> i >= W - y
        <5>1. CASE i = W
          BY <1>6, <3>6, <5>1
        <5>2. CASE i # W
          <6>1. W - (i + 1) \in Index
            BY <3>6, <5>2 DEF Index
          <6>2. i \in live <=> ~(y <= W - (i + 1))
            BY <1>6, <3>4, <5>2, <6>1
          <6>3. QED
            BY <3>6, <6>2
        <5>3. QED
          BY <5>1, <5>2
      <4>2. QED
        BY <4>1
    <3> HIDE DEF ages
    <3>8. CASE y < W
      <4>1. reach = y + 1 /\ W - reach + 1 = W - y /\ W - y >= 1
        BY <3>3, <3>6, <3>8
      <4>2. live = W - y .. W
        <5>1. \A i \in live : i \in 1 .. W /\ i >= W - y
          BY ONLY <1>7, <3>7
        <5>2. \A i \in W - y .. W : i \in 1 .. W /\ i >= W - y
          BY ONLY <3>6, <3>8
        <5>3. \A i \in 1 .. W : i >= W - y => i \in W - y .. W
          BY ONLY <3>6
        <5>4. QED
          BY ONLY <3>7, <5>1, <5>2, <5>3
      <4>3. QED
        BY <3>3, <3>6, <4>1, <4>2 DEF Index
    <3>9. CASE y = W
      <4>1. reach = W /\ W - reach + 1 = 1 /\ W - y = 0
        BY <3>3, <3>6, <3>9
      <4>2. live = 1 .. W
        <5>1. \A i \in 1 .. W : i >= W - y
          BY ONLY <3>6, <4>1
        <5>2. QED
          BY ONLY <1>7, <3>7, <5>1
      <4>3. \A k \in Index : k >= W /\ k < count => Nth(buffer, k).startedAt = 0
        <5>1. \A k \in Index : k >= W => ~(k < W)
          BY <3>6 DEF Index
        <5>2. QED
          BY <1>2, <5>1
      <4> HIDE DEF reach
      <4>4. QED
        BY <3>3, <3>6, <4>1, <4>2, <4>3
    <3>10. QED
      BY <3>5, <3>6, <3>8, <3>9
  <2>3. QED
    BY <2>1, <2>2
<1>9. reach \in Nat /\ reach <= count /\ reach <= W /\ W \in Nat /\ count \in Nat
  BY <1>2, <1>8
<1> HIDE DEF count, reach
<1>10. Cardinality(live) = reach
  <2>1. W - reach + 1 \in Int /\ W \in Int
    BY <1>9
  <2>2. Cardinality(W - reach + 1 .. W)
          = IF W - reach + 1 > W THEN 0 ELSE W - (W - reach + 1) + 1
    BY <2>1, FS_Interval
  <2>3. QED
    BY <1>8, <1>9, <2>2
<1>11. /\ Queue!Covering(at) = [k \in 1 .. reach |-> Recent[W + 1 - k]]
       /\ Len(Queue!Covering(at)) = reach /\ Len(EligibleSnapshots(buffer, at)) = count
  BY <1>3, <1>4, <1>9, <1>10
<1>12. ASSUME NEW k \in 1 .. count
       PROVE  IF k <= reach THEN EligibleSnapshots(buffer, at)[k] = Queue!Covering(at)[k]
                            ELSE EligibleSnapshots(buffer, at)[k].startedAt = 0
  <2>1. EligibleSnapshots(buffer, at)[k] = Nth(buffer, k - 1) /\ k - 1 \in Index
    BY <1>3, <1>8 DEF Index
  <2>2. CASE k <= reach
    <3>1. k \in 1 .. reach /\ W + 1 - k \in 1 .. W /\ W - (W + 1 - k) = k - 1
      BY <1>9, <2>2
    <3>2. Queue!Covering(at)[k] = Recent[W + 1 - k]
      BY <1>11, <3>1
    <3>3. Recent[W + 1 - k] = Nth(buffer, k - 1)
      BY <1>1, <3>1
    <3>4. QED
      BY <2>1, <2>2, <3>2, <3>3
  <2>3. CASE ~(k <= reach)
    <3>1. k - 1 >= reach /\ k - 1 < count
      BY <1>9, <2>3
    <3>2. QED
      BY <1>8, <2>1, <2>3, <3>1
  <2>4. QED
    BY <2>2, <2>3
<1>13. QED
  BY <1>9, <1>11, <1>12

\* get_window_snapshots_eligible_to_harvest yields the windows of the queue
\* that reach the slot, newest first, and nothing else that was written, for
\* every length of ring and wherever the tip is.
THEOREM EligibleSnapshotsStayExact == Spec => []EligibleSnapshotsAreExact
<1>1. TypeOK /\ HistoryInOrder => EligibleSnapshotsAreExact
  <2>1. SUFFICES ASSUME TypeOK, HistoryInOrder PROVE EligibleSnapshotsAreExact
    OBVIOUS
  <2>2. \A at \in 0 .. slot : at \in Nat
    BY <2>1 DEF TypeOK, Slot
  <2>3. QED
    BY <2>1, <2>2, EligibleInOrder DEF EligibleSnapshotsAreExact
<1>2. QED
  BY <1>1, TypeCorrect, HistoryStaysInOrder, PTL

-----------------------------------------------------------------------------
(* The ring implements the queue.                                          *)

\* What the queue is, by age.
ByAge ==
  /\ Recent \in Seq(Snapshot) /\ Len(Recent) = Written
  /\ \A i \in 1 .. Written : Recent[i] = Nth(buffer, Written - i)
  /\ Written \in 0 .. RingLen
  /\ \A k \in Index : k < Written <=> Nth(buffer, k).startedAt > 0

\* In a ring in order the queue is read off by age, before and after a step.
LEMMA QueueByAge == TypeOK /\ HistoryInOrder => ByAge
BY RecentIsByAge, WrittenAreYoungest DEF ByAge

LEMMA QueueByAgeNext == TypeOK' /\ HistoryInOrder' => ByAge'
<1>1. TypeOK /\ HistoryInOrder => ByAge
  BY QueueByAge
<1>2. QED
  BY <1>1, PTL

\* A step that does not write the ring leaves the queue alone.
LEMMA QueueStill == buffer' = buffer => Recent' = Recent
BY DEF Recent, Written

\* take_snapshot is the queue's step: the new snapshot is appended, and the
\* oldest one is forgotten when the ring is full.
LEMMA SnapshotOpensWindow ==
  ASSUME TypeOK, HistoryInOrder, ByAge, ByAge', TakeSnapshot
  PROVE  Queue!OpenWindow
<1> DEFINE e == [staked |-> stakeVault, startedAt |-> slot]
           W == Written
           V == Written'
           kept == IF Len(Recent) < RingLen THEN Recent ELSE Tail(Recent)
<1>1. /\ buffer \in Buffer /\ slot \in Nat /\ stakeVault \in Nat
      /\ buffer' = Push(buffer, stakeVault, slot)
      /\ UNCHANGED <<slot, minWindow, stakeVault>>
      /\ slot >= Latest(buffer).startedAt + EffectiveWindow(minWindow)
  BY DEF TypeOK, TakeSnapshot, Slot, SufficientTimePassed
<1>2. e \in Snapshot
  BY <1>1 DEF Snapshot, Slot
<1>3. slot > 0 /\ slot > Latest(buffer).startedAt
  <2>1. EffectiveWindow(minWindow) \in Nat \ {0}
    BY DEF EffectiveWindow, TypeOK
  <2>2. Latest(buffer).startedAt \in Nat
    BY <1>1, EndsOfRing DEF Snapshot, Slot
  <2>3. QED
    BY <1>1, <2>1, <2>2
<1>4. \A k \in Index : Nth(buffer', k) = IF k = 0 THEN e ELSE Nth(buffer, k - 1)
  BY <1>1, PushAges
<1>5. /\ Recent \in Seq(Snapshot) /\ Len(Recent) = W /\ W \in 0 .. RingLen
      /\ \A i \in 1 .. W : Recent[i] = Nth(buffer, W - i)
      /\ \A k \in Index : k < W <=> Nth(buffer, k).startedAt > 0
  BY DEF ByAge
<1>6. /\ Recent' \in Seq(Snapshot) /\ Len(Recent') = V /\ V \in 0 .. RingLen
      /\ \A i \in 1 .. V : Recent'[i] = Nth(buffer', V - i)
      /\ \A k \in Index : k < V <=> Nth(buffer', k).startedAt > 0
  BY DEF ByAge
<1> HIDE DEF W, V
<1>7. V = IF W < RingLen THEN W + 1 ELSE RingLen
  <2>1. ASSUME NEW k \in Index PROVE k < V <=> k < W + 1
    <3>1. CASE k = 0
      <4>1. Nth(buffer', k).startedAt > 0
        BY <1>3, <1>4, <3>1
      <4>2. QED
        BY <1>5, <1>6, <3>1, <4>1
    <3>2. CASE k # 0
      <4>1. k - 1 \in Index
        BY <3>2 DEF Index
      <4>2. k < V <=> k - 1 < W
        BY <1>4, <1>5, <1>6, <3>2, <4>1
      <4>3. QED
        BY <1>5, <4>2 DEF Index
    <3>3. QED
      BY <3>1, <3>2
  <2>2. W \in Nat /\ V \in Nat /\ W <= RingLen /\ V <= RingLen
    BY <1>5, <1>6
  <2>3. RingLen - 1 \in Index /\ (W < RingLen => W \in Index)
        /\ (W + 1 < RingLen => W + 1 \in Index)
    BY <2>2 DEF Index
  <2>4. QED
    BY <2>1, <2>2, <2>3
<1>8. Recent' = Append(kept, e)
  <2>1. CASE W < RingLen
    <3>1. kept = Recent /\ V = W + 1
      BY <1>5, <1>7, <2>1
    <3>2. /\ Append(Recent, e) \in Seq(Snapshot)
          /\ Len(Append(Recent, e)) = V
          /\ \A i \in 1 .. V : Append(Recent, e)[i] = IF i = V THEN e ELSE Recent[i]
      BY <1>2, <1>5, <3>1, AppendProperties
    <3>3. ASSUME NEW i \in 1 .. V PROVE Recent'[i] = Append(Recent, e)[i]
      <4>1. V - i \in Index /\ (V - i = 0 <=> i = V)
        BY <1>6 DEF Index
      <4>2. i # V => i \in 1 .. W /\ V - i - 1 = W - i
        BY <1>5, <3>1
      <4>3. Recent'[i] = Nth(buffer', V - i)
        BY <1>6
      <4>4. CASE i = V
        BY <1>4, <3>2, <4>1, <4>3, <4>4
      <4>5. CASE i # V
        <5>1. Recent'[i] = Nth(buffer, W - i)
          BY <1>4, <4>1, <4>2, <4>3, <4>5
        <5>2. Recent[i] = Nth(buffer, W - i)
          BY <1>5, <4>2, <4>5
        <5>3. QED
          BY <3>2, <4>5, <5>1, <5>2
      <4>6. QED
        BY <4>4, <4>5
    <3> HIDE DEF e
    <3>4. Recent' = Append(Recent, e)
      BY <1>6, <3>2, <3>3, SeqEqual
    <3>5. QED
      BY <3>1, <3>4
  <2>2. CASE ~(W < RingLen)
    <3>1. kept = Tail(Recent) /\ W = RingLen /\ V = RingLen
      BY <1>5, <1>7, <2>2
    <3>2. Recent # <<>>
      BY <1>5, <3>1
    <3>3. /\ Tail(Recent) \in Seq(Snapshot) /\ Len(Tail(Recent)) = RingLen - 1
          /\ \A i \in 1 .. RingLen - 1 : Tail(Recent)[i] = Recent[i + 1]
      BY <1>5, <3>1, <3>2, HeadTailProperties
    <3>4. /\ Append(Tail(Recent), e) \in Seq(Snapshot)
          /\ Len(Append(Tail(Recent), e)) = V
          /\ \A i \in 1 .. V : Append(Tail(Recent), e)[i] = IF i = V THEN e ELSE Tail(Recent)[i]
      BY <1>2, <3>1, <3>3, AppendProperties
    <3>5. ASSUME NEW i \in 1 .. V PROVE Recent'[i] = Append(Tail(Recent), e)[i]
      <4>1. V - i \in Index /\ (V - i = 0 <=> i = V)
        BY <1>6 DEF Index
      <4>2. i # V => /\ i \in 1 .. RingLen - 1 /\ i + 1 \in 1 .. W
                     /\ V - i - 1 = W - (i + 1)
        BY <1>5, <3>1
      <4>3. Recent'[i] = Nth(buffer', V - i)
        BY <1>6
      <4>4. CASE i = V
        BY <1>4, <3>4, <4>1, <4>3, <4>4
      <4>5. CASE i # V
        <5>1. Recent'[i] = Nth(buffer, W - (i + 1))
          BY <1>4, <4>1, <4>2, <4>3, <4>5
        <5>2. Tail(Recent)[i] = Nth(buffer, W - (i + 1))
          BY <1>5, <3>3, <4>2, <4>5
        <5>3. QED
          BY <3>4, <4>5, <5>1, <5>2
      <4>6. QED
        BY <4>4, <4>5
    <3> HIDE DEF e
    <3>6. Recent' = Append(Tail(Recent), e)
      BY <1>6, <3>4, <3>5, SeqEqual
    <3>7. QED
      BY <3>1, <3>6
  <2>3. QED
    BY <2>1, <2>2
<1>9. slot > Queue!LastStart
  <2>1. CASE Recent = <<>>
    BY <1>3, <2>1 DEF Queue!LastStart
  <2>2. CASE Recent # <<>>
    <3>1. W \in 1 .. W /\ W - W = 0
      BY <1>5, <2>2
    <3>2. Recent[Len(Recent)] = Latest(buffer)
      BY <1>1, <1>5, <3>1, EndsOfRing
    <3>3. QED
      BY <1>3, <2>2, <3>2 DEF Queue!LastStart
  <2>3. QED
    BY <2>1, <2>2
<1>10. QED
  BY <1>1, <1>8, <1>9 DEF Queue!OpenWindow

\* The ring with its tip implements the queue that remembers the last RingLen
\* snapshots, for every length of ring: every step of the ring is a step of
\* the queue, and neither the window's length nor stake rewrites history.
THEOREM RingImplementsQueue == Spec => ImplementsQueue
<1>1. Init /\ TypeOK /\ ByAge => Queue!Init
  <2>1. SUFFICES ASSUME Init, TypeOK, ByAge PROVE Queue!Init
    OBVIOUS
  <2>2. 0 \in Index /\ Nth(buffer, 0) = Unwritten
    <3>1. Latest(buffer) = Unwritten /\ 0 \in Index
      BY <2>1 DEF Init, EmptyBuffer, Latest, Index
    <3>2. QED
      BY <2>1, <3>1, EndsOfRing DEF TypeOK
  <2>3. Written = 0
    BY <2>1, <2>2 DEF ByAge, Unwritten
  <2>4. Recent = <<>>
    BY <2>1, <2>3 DEF ByAge
  <2>5. QED
    BY <2>1, <2>4 DEF Init, Queue!Init
<1>2. TypeOK /\ HistoryInOrder /\ TypeOK' /\ HistoryInOrder' /\ [Next]_vars
        => [Queue!Next]_Queue!vars
  <2>1. SUFFICES ASSUME TypeOK, HistoryInOrder, TypeOK', HistoryInOrder', [Next]_vars
                 PROVE  [Queue!Next]_Queue!vars
    OBVIOUS
  <2>2. CASE TakeSnapshot
    <3>1. ByAge /\ ByAge'
      BY <2>1, QueueByAge, QueueByAgeNext
    <3>2. QED
      BY <2>1, <2>2, <3>1, SnapshotOpensWindow DEF Queue!Next
  <2>3. CASE \E w \in Windows : SetMinSnapshotWindow(w)
    BY <2>3, QueueStill DEF SetMinSnapshotWindow, Queue!vars
  <2>4. CASE \E a \in Amounts : MoveStake(a)
    BY <2>1, <2>4, QueueStill DEF MoveStake, Queue!Next, Queue!Stake, TypeOK
  <2>5. CASE Tick
    BY <2>1, <2>5, QueueStill DEF Tick, Queue!Next, Queue!Elapse, TypeOK, Slot
  <2>6. CASE UNCHANGED vars
    BY <2>6, QueueStill DEF vars, Queue!vars
  <2>7. QED
    BY <2>1, <2>2, <2>3, <2>4, <2>5, <2>6 DEF Next
<1>3. QED
  BY <1>1, <1>2, QueueByAge, TypeCorrect, HistoryStaysInOrder, PTL
     DEF Spec, ImplementsQueue, Queue!Spec
=============================================================================
