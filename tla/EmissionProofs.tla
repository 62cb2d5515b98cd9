--------------------------- MODULE EmissionProofs ---------------------------
(***************************************************************************)
(* Proofs about Emission for every array length, wallet, bound and choice  *)
(* of rates, lengths and delays.                                           *)
(***************************************************************************)
EXTENDS Emission, HistoryFacts

USE PeriodsLenAssumption, LimitUpdatesAssumption, RatesAssumption, LengthsAssumption,
    DelaysAssumption, InitialWalletAssumption, MaxSlotAssumption

-----------------------------------------------------------------------------
(* Type correctness.                                                       *)

\* What the endpoint is called with, once its checks passed.
LEMMA PeriodArgument ==
  ASSUME TypeOK, NEW at \in Starts, NEW n \in Lengths, NEW tps \in Rates,
         NewHarvestPeriod(at, n, tps)
  PROVE  \E p \in Period :
           /\ p = [tps      |-> tps,
                   startsAt |-> IF at = 0 THEN slot ELSE at,
                   endsAt   |-> (IF at = 0 THEN slot ELSE at) + n - 1]
           /\ p.startsAt >= slot
           /\ AcceptsPeriod(periods, slot, p, oldestSnapshot)
           /\ periods' = SetPeriod(periods, slot, p)
           /\ promised' = {p} \cup (IF IsScheduled(periods, slot) THEN promised \ {periods[1]}
                                                                  ELSE promised)
<1> DEFINE startsAt == IF at = 0 THEN slot ELSE at
           p == [tps |-> tps, startsAt |-> startsAt, endsAt |-> startsAt + n - 1]
<1>1. startsAt \in Int /\ startsAt >= slot /\ slot \in Nat
  BY DEF NewHarvestPeriod, Starts, TypeOK
<1>2. startsAt \in Nat /\ n \in Nat /\ n # 0 /\ tps \in Nat
  BY <1>1 DEF NewHarvestPeriod
<1>3. startsAt + n - 1 \in Nat
  <2> HIDE DEF startsAt
  <2>1. QED
    BY <1>2
<1>4. p \in Period
  BY <1>2, <1>3 DEF Period
<1>5. QED
  BY <1>1, <1>4 DEF NewHarvestPeriod

\* A call of new_harvest_period keeps every account well formed.
LEMMA NewHarvestPeriodType ==
  ASSUME TypeOK, NEW at \in Starts, NEW n \in Lengths, NEW tps \in Rates,
         NewHarvestPeriod(at, n, tps)
  PROVE  TypeOK'
<1>1. PICK p \in Period :
        /\ p = [tps      |-> tps,
                startsAt |-> IF at = 0 THEN slot ELSE at,
                endsAt   |-> (IF at = 0 THEN slot ELSE at) + n - 1]
        /\ periods' = SetPeriod(periods, slot, p)
        /\ promised' = {p} \cup (IF IsScheduled(periods, slot) THEN promised \ {periods[1]}
                                                               ELSE promised)
  BY PeriodArgument
<1> DEFINE charge == TotalEmitted(p) - DepositedFor(periods, slot)
<1>2. periods[1] \in Period
  BY DEF TypeOK, Periods
<1>3. DepositedFor(periods, slot) \in Int
  BY <1>2, TotalEmittedType DEF DepositedFor
<1>4. charge \in Int
  BY <1>3, TotalEmittedType
<1>5. /\ charge <= wallet /\ -charge <= vault
      /\ wallet' = wallet - charge /\ vault' = vault + charge
      /\ UNCHANGED <<slot, oldestSnapshot>>
  BY <1>1 DEF NewHarvestPeriod
<1>6. wallet' \in Nat /\ vault' \in Nat
  <2> HIDE DEF charge
  <2>1. QED
    BY <1>4, <1>5 DEF TypeOK
<1>7. periods' \in Periods
  BY <1>1, SetPeriodType DEF TypeOK
<1>8. promised' \subseteq Period
  BY <1>1 DEF TypeOK
<1>9. QED
  BY <1>5, <1>6, <1>7, <1>8 DEF TypeOK

\* The clock, the periods and both token balances stay well formed: neither
\* wallet nor vault is ever overdrawn, and the array never changes its length.
THEOREM TypeCorrect == Spec => []TypeOK
<1>1. Init => TypeOK
  BY DEF Init, TypeOK, NoPeriods, NoPeriod, Periods, Period
<1>2. TypeOK /\ [Next]_vars => TypeOK'
  <2>1. SUFFICES ASSUME TypeOK, [Next]_vars PROVE TypeOK'
    OBVIOUS
  <2>2. CASE \E at \in Starts, n \in Lengths, tps \in Rates : NewHarvestPeriod(at, n, tps)
    BY <2>1, <2>2, NewHarvestPeriodType
  <2>3. CASE \E s \in 1 .. MaxSlot : ForgetSnapshots(s)
    BY <2>1, <2>3 DEF ForgetSnapshots, TypeOK
  <2>4. CASE Tick \/ UNCHANGED vars
    BY <2>1, <2>4 DEF Tick, vars, TypeOK
  <2>5. QED
    BY <2>1, <2>2, <2>3, <2>4 DEF Next
<1>3. QED
  BY <1>1, <1>2, PTL DEF Spec

-----------------------------------------------------------------------------
(* The order of the periods.                                               *)

\* The periods never overlap, stay sorted, and at most the newest one is still
\* to start, however the admin opens, schedules and edits them.
THEOREM PeriodsStayInOrder == Spec => []PeriodsInOrder
<1> DEFINE IInv == TypeOK /\ PeriodsInOrder
<1>1. PeriodsInOrder <=> OrderAt(periods, slot)
  BY DEF PeriodsInOrder, OrderAt
<1>2. Init => IInv
  BY DEF Init, TypeOK, NoPeriods, NoPeriod, Periods, Period, PeriodsInOrder
<1>3. IInv /\ TypeOK' /\ [Next]_vars => IInv'
  <2>1. SUFFICES ASSUME TypeOK, PeriodsInOrder, TypeOK', [Next]_vars PROVE PeriodsInOrder'
    OBVIOUS
  <2>2. ASSUME NEW at \in Starts, NEW n \in Lengths, NEW tps \in Rates,
               NewHarvestPeriod(at, n, tps)
        PROVE  PeriodsInOrder'
    <3>1. PICK p \in Period : /\ p.startsAt >= slot
                              /\ AcceptsPeriod(periods, slot, p, oldestSnapshot)
                              /\ periods' = SetPeriod(periods, slot, p)
      BY <2>1, <2>2, PeriodArgument
    <3>2. slot' = slot
      BY <2>2 DEF NewHarvestPeriod
    <3>3. OrderAt(periods', slot)
      BY <1>1, <2>1, <3>1, SetPeriodKeepsOrder DEF TypeOK
    <3>4. QED
      BY <3>2, <3>3 DEF PeriodsInOrder, OrderAt
  <2>3. CASE UNCHANGED <<slot, periods>>
    BY <2>1, <2>3 DEF PeriodsInOrder
  <2>4. CASE Tick
    <3>1. slot' = slot + 1 /\ periods' = periods
      BY <2>4 DEF Tick
    <3>2. \A i \in 1 .. PeriodsLen : periods[i].startsAt <= slot => periods[i].startsAt <= slot'
      <4>1. slot \in Nat /\ \A i \in 1 .. PeriodsLen : periods[i] \in Period
        BY <2>1 DEF TypeOK, Periods
      <4>2. \A i \in 1 .. PeriodsLen : periods[i].startsAt \in Nat
        BY <4>1 DEF Period
      <4>3. QED
        BY <3>1, <4>1, <4>2
    <3>3. QED
      BY <2>1, <3>1, <3>2 DEF PeriodsInOrder
  <2>5. QED
    BY <2>1, <2>2, <2>3, <2>4 DEF Next, ForgetSnapshots, vars
<1>4. QED
  BY <1>2, <1>3, TypeCorrect, PTL DEF Spec

\* The same, as the invariant that later proofs start from.
IInv == TypeOK /\ PeriodsInOrder

LEMMA IInvHolds == Spec => []IInv
BY TypeCorrect, PeriodsStayInOrder, PTL DEF IInv

-----------------------------------------------------------------------------
(* What the array forgets, and what it does not.                           *)

\* Where the entries of an array are after a period was set: the edited launch
\* is gone, and so is the oldest period of a shifted array.
LEMMA SetPeriodKeeps ==
  ASSUME NEW ps \in Periods, NEW current, NEW p \in Period, NEW i \in 1 .. PeriodsLen
  PROVE  LET new == SetPeriod(ps, current, p)
         IN  /\ new[1] = p
             /\ IsScheduled(ps, current) /\ i # 1 => new[i] = ps[i]
             /\ ~IsScheduled(ps, current) /\ i < PeriodsLen =>
                  i + 1 \in 1 .. PeriodsLen /\ new[i + 1] = ps[i]
             /\ ~IsScheduled(ps, current) /\ i # 1 =>
                  i - 1 \in 1 .. PeriodsLen /\ new[i] = ps[i - 1]
<1>1. CASE IsScheduled(ps, current)
  BY <1>1 DEF SetPeriod, Periods
<1>2. CASE ~IsScheduled(ps, current)
  <2> DEFINE new == SetPeriod(ps, current, p)
  <2>1. new = [k \in 1 .. PeriodsLen |-> IF k = 1 THEN p ELSE ps[k - 1]]
    BY <1>2 DEF SetPeriod
  <2>2. i < PeriodsLen => i + 1 \in 1 .. PeriodsLen /\ i + 1 # 1 /\ (i + 1) - 1 = i
    OBVIOUS
  <2>3. i # 1 => i - 1 \in 1 .. PeriodsLen
    OBVIOUS
  <2> HIDE DEF new
  <2>4. new[1] = p
    BY <2>1
  <2>5. i < PeriodsLen => new[i + 1] = ps[i]
    BY <2>1, <2>2
  <2>6. i # 1 => new[i] = ps[i - 1]
    BY <2>1
  <2>7. QED
    BY <1>2, <2>2, <2>3, <2>4, <2>5, <2>6 DEF new
<1>3. QED
  BY <1>1, <1>2

\* A period that has started stays in the array as it is, until it is dropped
\* from the last place for a period that starts after it.
THEOREM StartedPeriodsAreKept == Spec => StartedPeriodIsKept
<1> DEFINE Kept(i) == \/ \E j \in 1 .. PeriodsLen : periods'[j] = periods[i]
                      \/ i = PeriodsLen /\ periods[i].endsAt < periods'[1].startsAt
<1>1. IInv /\ [Next]_vars =>
        \A i \in 1 .. PeriodsLen : Used(periods[i]) /\ periods[i].startsAt <= slot => Kept(i)
  <2>1. SUFFICES ASSUME IInv, [Next]_vars,
                        NEW i \in 1 .. PeriodsLen, Used(periods[i]), periods[i].startsAt <= slot
                 PROVE  Kept(i)
    OBVIOUS
  <2>2. ASSUME NEW at \in Starts, NEW n \in Lengths, NEW tps \in Rates,
               NewHarvestPeriod(at, n, tps)
        PROVE  Kept(i)
    <3>1. PICK p \in Period : /\ AcceptsPeriod(periods, slot, p, oldestSnapshot)
                              /\ periods' = SetPeriod(periods, slot, p)
      BY <2>1, <2>2, PeriodArgument DEF IInv
    <3>2. periods \in Periods /\ periods[i] \in Period /\ slot \in Nat
      BY <2>1 DEF IInv, TypeOK, Periods
    <3>3. CASE IsScheduled(periods, slot)
      <4>1. i # 1
        BY <2>1, <3>2, <3>3 DEF IsScheduled, Period
      <4>2. periods'[i] = periods[i]
        BY <3>1, <3>2, <3>3, <4>1, SetPeriodKeeps
      <4>3. QED
        BY <4>2
    <3>4. CASE ~IsScheduled(periods, slot) /\ i < PeriodsLen
      <4>1. i + 1 \in 1 .. PeriodsLen /\ periods'[i + 1] = periods[i]
        BY <3>1, <3>2, <3>4, SetPeriodKeeps
      <4>2. QED
        BY <4>1
    <3>5. CASE ~IsScheduled(periods, slot) /\ i = PeriodsLen
      <4>1. periods[i] # NoPeriod
        BY <2>1 DEF Used, NoPeriod
      <4>2. periods[i].endsAt < p.startsAt
        BY <2>1, <3>1, <3>2, <3>5, <4>1, AcceptedIsLast DEF IInv, PeriodsInOrder, OrderAt
      <4>3. periods'[1] = p
        <5>1. periods' = [k \in 1 .. PeriodsLen |-> IF k = 1 THEN p ELSE periods[k - 1]]
          BY <3>1, <3>5 DEF SetPeriod
        <5>2. QED
          BY <5>1
      <4>4. QED
        BY <3>5, <4>2, <4>3
    <3>6. QED
      BY <3>3, <3>4, <3>5
  <2>3. CASE UNCHANGED periods
    BY <2>3
  <2>4. QED
    BY <2>1, <2>2, <2>3 DEF Next, ForgetSnapshots, Tick, vars
<1>2. QED
  BY <1>1, IInvHolds, PTL DEF Spec, StartedPeriodIsKept

\* How the array and the announcements correspond: every entry was announced,
\* every announcement is an entry or was over before the last entry began, and
\* announcements do not overlap.
IsBeforeLast(q) == Used(periods[PeriodsLen]) /\ q.endsAt < periods[PeriodsLen].startsAt

Remembered ==
  /\ \A i \in 1 .. PeriodsLen : periods[i] = NoPeriod \/ periods[i] \in promised
  /\ \A q \in promised :
       /\ 0 < q.startsAt /\ q.startsAt < q.endsAt
       /\ (\E i \in 1 .. PeriodsLen : periods[i] = q) \/ IsBeforeLast(q)
  /\ \A q, r \in promised : q # r => q.endsAt < r.startsAt \/ r.endsAt < q.startsAt

\* A new announcement starts after every other that is still in force, and
\* after every one that is forgotten.
LEMMA AnnouncementIsLast ==
  ASSUME IInv, Remembered, NEW p \in Period, p.startsAt >= slot,
         AcceptsPeriod(periods, slot, p, oldestSnapshot),
         NEW q \in promised, ~(IsScheduled(periods, slot) /\ q = periods[1])
  PROVE  q.endsAt < p.startsAt
<1>1. /\ periods \in Periods /\ slot \in Nat /\ oldestSnapshot \in Nat
      /\ q \in Period /\ OrderAt(periods, slot)
  BY DEF IInv, TypeOK, PeriodsInOrder, OrderAt
<1>2. CASE IsBeforeLast(q)
  <2> DEFINE r == periods[PeriodsLen]
  <2>1. r # NoPeriod /\ r \in Period /\ PeriodsLen \in 1 .. PeriodsLen
    BY <1>1, <1>2 DEF IsBeforeLast, Used, NoPeriod, Periods
  <2>2. r.startsAt < r.endsAt
    BY <1>1, <2>1 DEF OrderAt
  <2>3. ~(PeriodsLen = 1 /\ IsScheduled(periods, slot))
    BY <1>1, <2>1 DEF AcceptsPeriod, Started, IsScheduled, Period
  <2>4. r.endsAt < p.startsAt
    BY <1>1, <2>1, <2>3, AcceptedIsLast
  <2>5. QED
    BY <1>1, <1>2, <2>1, <2>2, <2>4 DEF IsBeforeLast, Period
<1>3. ASSUME NEW i \in 1 .. PeriodsLen, periods[i] = q
      PROVE  q.endsAt < p.startsAt
  <2>1. q # NoPeriod
    BY <1>1 DEF Remembered, NoPeriod
  <2>2. ~(i = 1 /\ IsScheduled(periods, slot))
    BY <1>3
  <2>3. QED
    BY <1>1, <1>3, <2>1, <2>2, AcceptedIsLast
<1>4. QED
  BY <1>2, <1>3 DEF Remembered

\* A call of new_harvest_period keeps the correspondence.
LEMMA AnnouncementIsRemembered ==
  ASSUME IInv, Remembered,
         NEW at \in Starts, NEW n \in Lengths, NEW tps \in Rates,
         NewHarvestPeriod(at, n, tps)
  PROVE  Remembered'
<1>1. PICK p \in Period :
        /\ p.startsAt >= slot
        /\ AcceptsPeriod(periods, slot, p, oldestSnapshot)
        /\ periods' = SetPeriod(periods, slot, p)
        /\ promised' = {p} \cup (IF IsScheduled(periods, slot) THEN promised \ {periods[1]}
                                                               ELSE promised)
  BY PeriodArgument DEF IInv
<1>2. /\ periods \in Periods /\ slot \in Nat /\ slot > 0 /\ oldestSnapshot \in Nat
      /\ promised \subseteq Period
      /\ slot' = slot /\ oldestSnapshot' = oldestSnapshot
  BY DEF IInv, TypeOK, NewHarvestPeriod
<1>3. 0 < p.startsAt /\ p.startsAt < p.endsAt
  BY <1>1, <1>2 DEF AcceptsPeriod, Period
<1>4. 1 \in 1 .. PeriodsLen /\ \A i \in 1 .. PeriodsLen : periods[i] \in Period
  BY <1>2 DEF Periods
<1>5. \A q \in promised' : q = p \/ (q \in promised /\ q.endsAt < p.startsAt)
  BY <1>1, AnnouncementIsLast
<1>6. ASSUME NEW q \in promised, q.startsAt < q.endsAt,
             ~(IsScheduled(periods, slot) /\ q = periods[1]),
             Used(periods[PeriodsLen]), q.endsAt <= periods[PeriodsLen].endsAt,
             ~IsScheduled(periods, slot) \/ IsBeforeLast(q)
      PROVE  IsBeforeLast(q)'
  <2> DEFINE r == periods[PeriodsLen]
  <2>1. r # NoPeriod /\ r \in Period /\ q \in Period /\ PeriodsLen \in 1 .. PeriodsLen
    BY <1>2, <1>4, <1>6 DEF Used, NoPeriod
  <2>2. q.endsAt < p.startsAt
    BY <1>1, <1>6, AnnouncementIsLast
  <2>3. CASE IsScheduled(periods, slot) /\ PeriodsLen # 1
    <3>1. periods'[PeriodsLen] = r
      BY <1>1, <1>2, <2>1, <2>3, SetPeriodKeeps
    <3>2. QED
      BY <1>6, <2>3, <3>1 DEF IsBeforeLast
  <2>4. CASE IsScheduled(periods, slot) /\ PeriodsLen = 1
    BY <1>1, <1>2, <1>4, <2>4 DEF AcceptsPeriod, Started, IsScheduled, Period
  <2>5. CASE ~IsScheduled(periods, slot) /\ PeriodsLen = 1
    <3>1. periods'[PeriodsLen] = p
      BY <1>1, <1>2, <1>4, <2>5, SetPeriodKeeps
    <3>2. QED
      BY <1>2, <1>3, <2>2, <3>1 DEF IsBeforeLast, Used, Period
  <2>6. CASE ~IsScheduled(periods, slot) /\ PeriodsLen # 1
    <3> DEFINE o == periods[PeriodsLen - 1]
    <3>1. PeriodsLen - 1 \in 1 .. PeriodsLen /\ periods'[PeriodsLen] = o
      BY <1>1, <1>2, <2>1, <2>6, SetPeriodKeeps
    <3>2. r.endsAt < o.startsAt
      BY <2>1, <3>1 DEF IInv, PeriodsInOrder
    <3>3. o \in Period /\ o # NoPeriod
      BY <1>4, <2>1, <3>1, <3>2 DEF NoPeriod, Period
    <3>4. o.startsAt < o.endsAt
      BY <3>1, <3>3 DEF IInv, PeriodsInOrder
    <3>5. q.endsAt < o.startsAt /\ Used(o)
      BY <1>6, <2>1, <3>2, <3>3, <3>4 DEF Used, Period
    <3>6. QED
      BY <3>1, <3>5 DEF IsBeforeLast
  <2>7. QED
    BY <2>3, <2>4, <2>5, <2>6
<1>7. ASSUME NEW i \in 1 .. PeriodsLen
      PROVE  periods'[i] = NoPeriod \/ periods'[i] \in promised'
  <2>1. CASE i = 1
    <3>1. periods'[1] = p
      BY <1>1, <1>2, <1>4, SetPeriodKeeps
    <3>2. QED
      BY <1>1, <2>1, <3>1
  <2>2. CASE i # 1 /\ IsScheduled(periods, slot)
    <3>1. periods'[i] = periods[i]
      BY <1>1, <1>2, <2>2, SetPeriodKeeps
    <3>2. periods[i] = NoPeriod \/ periods[i].endsAt < periods[1].startsAt
      BY <1>4, <2>2 DEF IInv, PeriodsInOrder
    <3>3. periods[i] # NoPeriod => periods[i] \in promised /\ periods[i].startsAt < periods[i].endsAt
      BY DEF Remembered
    <3>4. periods[i] # NoPeriod => periods[i] # periods[1]
      BY <1>4, <3>2, <3>3 DEF Period
    <3>5. QED
      BY <1>1, <3>1, <3>3, <3>4
  <2>3. CASE i # 1 /\ ~IsScheduled(periods, slot)
    <3>1. i - 1 \in 1 .. PeriodsLen /\ periods'[i] = periods[i - 1]
      BY <1>1, <1>2, <2>3, SetPeriodKeeps
    <3>2. QED
      BY <1>1, <2>3, <3>1 DEF Remembered
  <2>4. QED
    BY <2>1, <2>2, <2>3
<1>8. ASSUME NEW q \in promised'
      PROVE  /\ 0 < q.startsAt /\ q.startsAt < q.endsAt
             /\ (\E i \in 1 .. PeriodsLen : periods'[i] = q) \/ IsBeforeLast(q)'
  <2>1. CASE q = p
    <3>1. periods'[1] = p
      BY <1>1, <1>2, <1>4, SetPeriodKeeps
    <3>2. QED
      BY <1>3, <1>4, <2>1, <3>1
  <2>2. CASE q # p
    <3>1. q \in promised /\ (IsScheduled(periods, slot) => q # periods[1])
      BY <1>1, <2>2
    <3>2. 0 < q.startsAt /\ q.startsAt < q.endsAt
      BY <3>1 DEF Remembered
    <3>3. CASE IsBeforeLast(q)
      <4>1. periods[PeriodsLen] # NoPeriod /\ periods[PeriodsLen] \in Period /\ q \in Period
        BY <1>2, <1>4, <3>1, <3>3 DEF IsBeforeLast, Used, NoPeriod
      <4>2. q.endsAt <= periods[PeriodsLen].endsAt
        BY <3>3, <4>1 DEF IsBeforeLast, IInv, PeriodsInOrder, Period
      <4>3. QED
        BY <1>6, <3>1, <3>2, <3>3, <4>2 DEF IsBeforeLast
    <3>4. ASSUME NEW i \in 1 .. PeriodsLen, periods[i] = q
          PROVE  (\E k \in 1 .. PeriodsLen : periods'[k] = q) \/ IsBeforeLast(q)'
      <4>1. CASE IsScheduled(periods, slot)
        <5>1. i # 1
          BY <3>1, <3>4, <4>1
        <5>2. periods'[i] = q
          BY <1>1, <1>2, <3>4, <4>1, <5>1, SetPeriodKeeps
        <5>3. QED
          BY <5>2
      <4>2. CASE ~IsScheduled(periods, slot) /\ i < PeriodsLen
        <5>1. i + 1 \in 1 .. PeriodsLen /\ periods'[i + 1] = q
          BY <1>1, <1>2, <3>4, <4>2, SetPeriodKeeps
        <5>2. QED
          BY <5>1
      <4>3. CASE ~IsScheduled(periods, slot) /\ i = PeriodsLen
        <5>1. Used(q)
          BY <1>2, <3>1, <3>2 DEF Used, Period
        <5>2. q.endsAt <= periods[PeriodsLen].endsAt
          BY <1>2, <3>1, <3>4, <4>3 DEF Period
        <5>3. QED
          BY <1>6, <3>1, <3>2, <3>4, <4>3, <5>1, <5>2
      <4>4. QED
        BY <4>1, <4>2, <4>3
    <3>5. QED
      BY <3>1, <3>2, <3>3, <3>4 DEF Remembered
  <2>3. QED
    BY <2>1, <2>2
<1>9. ASSUME NEW q \in promised', NEW r \in promised', q # r
      PROVE  q.endsAt < r.startsAt \/ r.endsAt < q.startsAt
  BY <1>5, <1>9 DEF Remembered
<1>10. QED
  BY <1>7, <1>8, <1>9 DEF Remembered

\* The correspondence gives LatestPromisesKept: both sides choose the only
\* period that covers the slot.
LEMMA RememberedIsKept ==
  ASSUME IInv, Remembered
  PROVE  LatestPromisesKept
<1>1. SUFFICES ASSUME NEW s \in 1 .. slot,
                      ~Used(periods[PeriodsLen]) \/ periods[PeriodsLen].startsAt <= s
               PROVE  TpsAt(periods, s) = PromisedAt(s)
  BY DEF LatestPromisesKept
<1>2. /\ periods \in Periods /\ promised \subseteq Period
      /\ slot \in Nat /\ s \in Nat /\ periods[PeriodsLen] \in Period
  BY DEF IInv, TypeOK, Periods
<1>3. \A q, r \in promised : Covers(q, s) /\ Covers(r, s) => q = r
  BY <1>2 DEF Remembered, Covers, Period
<1>4. \A i \in 1 .. PeriodsLen : Covers(periods[i], s) => periods[i] \in promised
  BY DEF Remembered, Covers, Used, NoPeriod
<1>5. \A q \in promised : Covers(q, s) => \E i \in 1 .. PeriodsLen : periods[i] = q
  BY <1>1, <1>2 DEF Remembered, IsBeforeLast, Covers, Period
<1>6. CASE \E q \in promised : Covers(q, s)
  <2> DEFINE q == CHOOSE x \in promised : Covers(x, s)
             i == CHOOSE k \in 1 .. PeriodsLen : Covers(periods[k], s)
  <2>1. q \in promised /\ Covers(q, s)
    BY <1>6
  <2>2. \E k \in 1 .. PeriodsLen : Covers(periods[k], s)
    BY <1>5, <2>1
  <2>3. i \in 1 .. PeriodsLen /\ Covers(periods[i], s)
    BY <2>2
  <2>4. periods[i] = q
    <3> HIDE DEF q, i
    <3>1. QED
      BY <1>3, <1>4, <2>1, <2>3
  <2>5. TpsAt(periods, s) = periods[i].tps
    BY <2>2 DEF TpsAt
  <2>6. PromisedAt(s) = q.tps
    BY <1>6 DEF PromisedAt
  <2>7. QED
    BY <2>4, <2>5, <2>6
<1>7. CASE ~ \E q \in promised : Covers(q, s)
  BY <1>4, <1>7 DEF TpsAt, PromisedAt
<1>8. QED
  BY <1>6, <1>7

\* The array has the rate that was announced for every slot since the start of
\* its last entry, whatever was launched, edited or cancelled; what it dropped
\* was over before that.
THEOREM PromisesAreKept == Spec => []LatestPromisesKept
<1>1. Init => Remembered
  BY DEF Init, Remembered, NoPeriods
<1>2. IInv /\ Remembered /\ [Next]_vars => Remembered'
  <2>1. SUFFICES ASSUME IInv, Remembered, [Next]_vars PROVE Remembered'
    OBVIOUS
  <2>2. CASE \E at \in Starts, n \in Lengths, tps \in Rates : NewHarvestPeriod(at, n, tps)
    BY <2>1, <2>2, AnnouncementIsRemembered
  <2>3. CASE UNCHANGED <<periods, promised>>
    BY <2>1, <2>3 DEF Remembered, IsBeforeLast
  <2>4. QED
    BY <2>1, <2>2, <2>3 DEF Next, ForgetSnapshots, Tick, vars
<1>3. IInv /\ Remembered => LatestPromisesKept
  BY RememberedIsKept
<1>4. QED
  BY <1>1, <1>2, <1>3, IInvHolds, PTL DEF Spec

-----------------------------------------------------------------------------
(* The history of rates.                                                   *)

\* For every length of the array and every schedule, the ranges that
\* tps_history makes of the periods tell each slot's rate: no gap, overlap or
\* padding entry is left in them.
THEOREM HistoryStaysExact == Spec => []HistoryIsExact
<1>1. IInv => HistoryIsExact
  <2>1. SUFFICES ASSUME IInv, NEW until \in 1 .. slot
                 PROVE  LET h == TpsHistory(periods, until)
                        IN  /\ \A k \in 1 .. Len(h) :
                                 /\ h[k].from = IF k = 1 THEN 1 ELSE h[k - 1].to + 1
                                 /\ h[k].from <= h[k].to
                                 /\ \A s \in h[k].from .. h[k].to : h[k].tps = TpsAt(periods, s)
                            /\ h[Len(h)].to >= until
    BY DEF HistoryIsExact
  <2>2. periods \in Periods /\ OrderAt(periods, slot) /\ until \in Nat /\ until >= 1
    BY <2>1 DEF IInv, TypeOK, PeriodsInOrder, OrderAt
  <2>3. PICK last \in Nat : last >= until /\ Tells(TpsHistory(periods, until), periods, last)
    BY <2>2, HistoryTells
  <2> DEFINE h == TpsHistory(periods, until)
  <2>4. Tells(h, periods, last) /\ last # 0
    BY <2>2, <2>3
  <2> HIDE DEF h
  <2>5. h[Len(h)].to >= until
    BY <2>3, <2>4 DEF Tells
  <2>6. QED
    BY <2>4, <2>5 DEF Tells, h
<1>2. QED
  BY <1>1, IInvHolds, PTL

-----------------------------------------------------------------------------
(* The promise to farmers.                                                 *)

\* PromisedAt for any set of announcements, and as a table of all slots.
RateIn(P, s) ==
  IF \E p \in P : Covers(p, s) THEN (CHOOSE p \in P : Covers(p, s)).tps ELSE 0

RateTable(P) == [s \in 1 .. Horizon |-> RateIn(P, s)]

Apart(P) == \A q, r \in P : q # r => q.endsAt < r.startsAt \/ r.endsAt < q.startsAt

\* Announcements take turns: each has its own slots, all within the horizon.
Scheduled(P) ==
  /\ P \subseteq Period
  /\ Apart(P)
  /\ \A q \in P : 0 < q.startsAt /\ q.startsAt < q.endsAt /\ q.endsAt <= Horizon

\* One announcement more sets the rate of its slots, where it was zero.
LEMMA OneMoreAnnouncement ==
  ASSUME NEW P, NEW p, p \notin P, Scheduled(P \cup {p}), NEW s \in Int
  PROVE  /\ RateIn(P, s) \in Nat
         /\ p.startsAt <= s /\ s <= p.endsAt => RateIn(P, s) = 0 /\ RateIn(P \cup {p}, s) = p.tps
         /\ ~(p.startsAt <= s /\ s <= p.endsAt) => RateIn(P \cup {p}, s) = RateIn(P, s)
<1>1. /\ p \in Period /\ P \subseteq Period /\ Used(p)
      /\ \A q \in P : q.endsAt < p.startsAt \/ p.endsAt < q.startsAt
      /\ \A q, r \in P : q # r => q.endsAt < r.startsAt \/ r.endsAt < q.startsAt
  BY DEF Scheduled, Apart, Used, Period
<1>2. \A q, r \in P \cup {p} : Covers(q, s) /\ Covers(r, s) => q = r
  BY <1>1 DEF Covers, Period
<1>3. RateIn(P, s) \in Nat
  <2>1. CASE \E q \in P : Covers(q, s)
    <3>1. (CHOOSE q \in P : Covers(q, s)) \in P
      BY <2>1
    <3>2. \A q \in P : q.tps \in Nat
      BY <1>1 DEF Period
    <3>3. QED
      BY <2>1, <3>1, <3>2 DEF RateIn
  <2>2. CASE ~ \E q \in P : Covers(q, s)
    BY <2>2 DEF RateIn
  <2>3. QED
    BY <2>1, <2>2
<1>4. CASE p.startsAt <= s /\ s <= p.endsAt
  <2>1. Covers(p, s)
    BY <1>1, <1>4 DEF Covers
  <2>2. ~ \E q \in P : Covers(q, s)
    BY <1>2, <2>1
  <2>3. (CHOOSE q \in P \cup {p} : Covers(q, s)) = p
    BY <1>2, <2>1
  <2>4. QED
    BY <1>3, <1>4, <2>1, <2>2, <2>3 DEF RateIn
<1>5. CASE ~(p.startsAt <= s /\ s <= p.endsAt)
  <2>1. ~Covers(p, s)
    BY <1>5 DEF Covers
  <2>2. CASE \E q \in P : Covers(q, s)
    <3>1. PICK q \in P : Covers(q, s)
      BY <2>2
    <3>2. (CHOOSE r \in P : Covers(r, s)) = q /\ (CHOOSE r \in P \cup {p} : Covers(r, s)) = q
      BY <1>2, <3>1
    <3>3. QED
      BY <1>3, <1>5, <3>1, <3>2 DEF RateIn
  <2>3. CASE ~ \E q \in P : Covers(q, s)
    BY <1>3, <1>5, <2>1, <2>3 DEF RateIn
  <2>4. QED
    BY <2>2, <2>3
<1>6. QED
  BY <1>4, <1>5

\* One announcement more is paid for with all that it emits.
LEMMA OneMorePaid ==
  ASSUME NEW P, NEW p, p \notin P, Scheduled(P \cup {p})
  PROVE  /\ RateTable(P) \in [1 .. Horizon -> Nat]
         /\ RateTable(P \cup {p}) \in [1 .. Horizon -> Nat]
         /\ SumFunctionOnSet(RateTable(P), 1 .. Horizon) \in Nat
         /\ SumFunctionOnSet(RateTable(P \cup {p}), 1 .. Horizon)
              = SumFunctionOnSet(RateTable(P), 1 .. Horizon) + TotalEmitted(p)
<1> DEFINE f == RateTable(P)
           e == [s \in 1 .. Horizon |->
                   IF p.startsAt <= s /\ s <= p.endsAt THEN f[s] + p.tps ELSE f[s]]
<1>1. /\ p \in Period /\ p.startsAt \in Nat \ {0} /\ p.endsAt \in Nat /\ p.tps \in Nat
      /\ p.startsAt <= p.endsAt + 1 /\ p.endsAt <= Horizon /\ Horizon \in Nat
  BY HorizonAssumption DEF Scheduled, Period
<1>2. f \in [1 .. Horizon -> Nat]
  <2>1. \A s \in 1 .. Horizon : s \in Int
    OBVIOUS
  <2>2. \A s \in 1 .. Horizon : RateIn(P, s) \in Nat
    BY <2>1, OneMoreAnnouncement
  <2>3. QED
    BY <2>2 DEF RateTable
<1>3. ASSUME NEW s \in 1 .. Horizon
      PROVE  RateTable(P \cup {p})[s] = e[s]
  <2>1. RateTable(P \cup {p})[s] = RateIn(P \cup {p}, s) /\ f[s] = RateIn(P, s)
    BY DEF RateTable
  <2>2. CASE p.startsAt <= s /\ s <= p.endsAt
    <3>1. RateIn(P, s) = 0 /\ RateIn(P \cup {p}, s) = p.tps
      BY <2>2, OneMoreAnnouncement
    <3>2. e[s] = f[s] + p.tps
      BY <2>2
    <3> HIDE DEF e, f
    <3>3. QED
      BY <1>1, <2>1, <3>1, <3>2
  <2>3. CASE ~(p.startsAt <= s /\ s <= p.endsAt)
    <3>1. RateIn(P \cup {p}, s) = RateIn(P, s)
      BY <2>3, OneMoreAnnouncement
    <3>2. e[s] = f[s]
      BY <2>3
    <3> HIDE DEF e, f
    <3>3. QED
      BY <2>1, <3>1, <3>2
  <2>4. QED
    BY <2>2, <2>3
<1>4. RateTable(P \cup {p}) = e
  BY <1>3 DEF RateTable
<1>5. e \in [1 .. Horizon -> Nat]
  BY <1>1, <1>2
<1>6. \A s \in 1 .. Horizon :
        e[s] = IF p.startsAt <= s /\ s <= p.endsAt THEN f[s] + p.tps ELSE f[s]
  OBVIOUS
<1> DEFINE a == p.startsAt
           b == p.endsAt
           c == p.tps
<1> HIDE DEF f, e, a, b, c
<1>7. /\ SumFunctionOnSet(f, 1 .. Horizon) \in Nat
      /\ SumFunctionOnSet(e, 1 .. Horizon)
           = SumFunctionOnSet(f, 1 .. Horizon) + (p.endsAt - p.startsAt + 1) * p.tps
  <2>1. Raised(e, f, Horizon, a, b, c)
    BY <1>1, <1>2, <1>6 DEF Raised, a, b, c
  <2>2. /\ SumFunctionOnSet(f, 1 .. Horizon) \in Nat
        /\ SumFunctionOnSet(e, 1 .. Horizon)
             = SumFunctionOnSet(f, 1 .. Horizon) + (b - a + 1) * c
    BY ONLY <2>1, SumOfRaised
  <2>3. QED
    BY <2>2 DEF a, b, c
<1>8. QED
  BY <1>2, <1>4, <1>5, <1>7 DEF f, TotalEmitted

\* Emission against its promise, whether or not the build limits updates: the
\* array shows what was announced, an announcement that is dropped from it is
\* older than all that stay, and the vault holds what all of them emit.
Announced ==
  /\ slot <= MaxSlot
  /\ Scheduled(promised)
  /\ \A i \in 1 .. PeriodsLen : periods[i] = NoPeriod \/ periods[i] \in promised
  /\ \A q \in promised : \/ \E i \in 1 .. PeriodsLen : periods[i] = q
                         \/ q.endsAt < periods[PeriodsLen].startsAt
  /\ vault = SumFunctionOnSet(RateTable(promised), 1 .. Horizon)

\* A new announcement starts after every other one that stays.
LEMMA AnnouncementIsNewest ==
  ASSUME IInv, Announced, NEW p \in Period, p.startsAt >= slot,
         AcceptsPeriod(periods, slot, p, oldestSnapshot),
         NEW q \in promised, ~(IsScheduled(periods, slot) /\ q = periods[1])
  PROVE  q.endsAt < p.startsAt
<1>1. /\ periods \in Periods /\ slot \in Nat /\ OrderAt(periods, slot)
      /\ q \in Period /\ 0 < q.startsAt /\ q.startsAt < q.endsAt
      /\ \A i \in 1 .. PeriodsLen : periods[i] \in Period
  BY DEF IInv, TypeOK, PeriodsInOrder, OrderAt, Announced, Scheduled, Periods
<1>2. ASSUME NEW i \in 1 .. PeriodsLen, periods[i] = q
      PROVE  q.endsAt < p.startsAt
  <2>1. ~(i = 1 /\ IsScheduled(periods, slot)) /\ q # NoPeriod
    BY <1>1, <1>2 DEF NoPeriod
  <2>2. QED
    BY <1>1, <1>2, <2>1, AcceptedIsLast
<1>3. CASE q.endsAt < periods[PeriodsLen].startsAt
  <2>1. PeriodsLen \in 1 .. PeriodsLen
    OBVIOUS
  <2>2. periods[PeriodsLen] # NoPeriod /\ periods[PeriodsLen] \in Period
    BY <1>1, <1>3, <2>1 DEF NoPeriod, Period
  <2>3. ~(PeriodsLen = 1 /\ IsScheduled(periods, slot))
    <3>1. PICK i \in 1 .. PeriodsLen : periods[i].startsAt <= slot
      BY DEF AcceptsPeriod, Started
    <3>2. PeriodsLen = 1 => i = 1
      BY <3>1
    <3>3. QED
      BY <1>1, <3>1, <3>2 DEF IsScheduled, Period
  <2>4. periods[PeriodsLen].endsAt < p.startsAt
    BY <1>1, <2>1, <2>2, <2>3, AcceptedIsLast
  <2>5. periods[PeriodsLen].startsAt < periods[PeriodsLen].endsAt
    BY <1>1, <2>1, <2>2 DEF OrderAt
  <2>6. QED
    BY <1>1, <1>3, <2>2, <2>4, <2>5 DEF Period
<1>4. QED
  BY <1>2, <1>3 DEF Announced

\* The announcements that a call leaves alone, and the launch that it edits.
Base == IF IsScheduled(periods, slot) THEN promised \ {periods[1]} ELSE promised

LEMMA EditedLaunch ==
  ASSUME IInv, Announced, IsScheduled(periods, slot)
  PROVE  /\ periods[1] \in Period /\ periods[1] \notin Base /\ promised = Base \cup {periods[1]}
         /\ periods[1].startsAt > slot
<1>1. 1 \in 1 .. PeriodsLen /\ periods[1] \in Period /\ slot \in Nat
  BY DEF IInv, TypeOK, Periods
<1>2. periods[1].startsAt > slot
  BY DEF IsScheduled
<1>3. periods[1] # NoPeriod
  BY <1>1, <1>2 DEF NoPeriod
<1>4. periods[1] \in promised
  BY <1>1, <1>3 DEF Announced
<1>5. QED
  BY <1>1, <1>2, <1>4 DEF Base

\* What a call announces, and that it keeps announcements apart.
LEMMA AnnouncementJoins ==
  ASSUME IInv, Announced, NEW at \in Starts, NEW n \in Lengths, NEW tps \in Rates,
         NewHarvestPeriod(at, n, tps)
  PROVE  \E p \in Period :
           /\ p \notin Base /\ Scheduled(Base \cup {p}) /\ promised' = Base \cup {p}
           /\ p.startsAt >= slot
           /\ AcceptsPeriod(periods, slot, p, oldestSnapshot)
           /\ periods' = SetPeriod(periods, slot, p)
           /\ vault' = vault + TotalEmitted(p) - DepositedFor(periods, slot)
<1>1. PICK p \in Period :
        /\ p = [tps      |-> tps,
                startsAt |-> IF at = 0 THEN slot ELSE at,
                endsAt   |-> (IF at = 0 THEN slot ELSE at) + n - 1]
        /\ p.startsAt >= slot
        /\ AcceptsPeriod(periods, slot, p, oldestSnapshot)
        /\ periods' = SetPeriod(periods, slot, p)
        /\ promised' = {p} \cup (IF IsScheduled(periods, slot) THEN promised \ {periods[1]}
                                                               ELSE promised)
  BY PeriodArgument DEF IInv
<1>2. slot \in Nat /\ slot > 0 /\ promised \subseteq Period /\ slot <= MaxSlot
  BY DEF IInv, TypeOK, Announced
<1>3. \A q \in Base : q \in promised /\ q.endsAt < p.startsAt
  BY <1>1, AnnouncementIsNewest DEF Base
<1>4. p.startsAt \in Nat /\ p.startsAt > 0 /\ p.endsAt \in Nat /\ p.startsAt < p.endsAt
  <2>1. p.startsAt \in Nat /\ p.endsAt \in Nat /\ p.startsAt < p.endsAt
    BY <1>1 DEF Period, AcceptsPeriod
  <2>2. QED
    BY ONLY <1>1, <1>2, <2>1
<1>5. p \notin Base
  BY <1>3, <1>4
<1>6. p.endsAt <= Horizon
  <2>1. PICK d \in {0} \cup Delays : p.startsAt = slot + d
    BY <1>1, <1>2 DEF Starts
  <2>2. p.endsAt = p.startsAt + n - 1
    BY <1>1
  <2>3. MaxSlot + d + n <= Horizon
    BY HorizonAssumption
  <2>4. d \in Int /\ n \in Nat /\ Horizon \in Nat
    BY HorizonAssumption
  <2> HIDE DEF IInv
  <2>5. QED
    BY <1>2, <1>4, <2>1, <2>2, <2>3, <2>4
<1>7. Scheduled(Base \cup {p})
  BY <1>3, <1>4, <1>6 DEF Scheduled, Apart, Announced
<1>8. vault' = vault + TotalEmitted(p) - DepositedFor(periods, slot)
  <2>1. vault' = vault + (TotalEmitted(p) - DepositedFor(periods, slot))
    BY <1>1 DEF NewHarvestPeriod
  <2>2. TotalEmitted(p) \in Int /\ vault \in Nat
    BY TotalEmittedType DEF IInv, TypeOK
  <2>3. DepositedFor(periods, slot) \in Int
    <3>1. periods[1] \in Period
      BY DEF IInv, TypeOK, Periods
    <3>2. QED
      BY <3>1, TotalEmittedType DEF DepositedFor
  <2>4. QED
    BY ONLY <2>1, <2>2, <2>3
<1>9. QED
  BY <1>1, <1>5, <1>7, <1>8 DEF Base

\* The deposit follows the announcements.
LEMMA AnnouncementIsPaid ==
  ASSUME IInv, Announced, NEW p \in Period, p \notin Base, Scheduled(Base \cup {p})
  PROVE  vault + TotalEmitted(p) - DepositedFor(periods, slot)
           = SumFunctionOnSet(RateTable(Base \cup {p}), 1 .. Horizon)
<1> DEFINE sum(P) == SumFunctionOnSet(RateTable(P), 1 .. Horizon)
<1>1. sum(Base) \in Nat /\ sum(Base \cup {p}) = sum(Base) + TotalEmitted(p)
  BY OneMorePaid
<1>2. vault = sum(promised) /\ Scheduled(promised)
  BY DEF Announced
<1>3. TotalEmitted(p) \in Int
  BY TotalEmittedType
<1>4. CASE IsScheduled(periods, slot)
  <2>1. /\ periods[1] \in Period /\ periods[1] \notin Base
        /\ promised = Base \cup {periods[1]}
    BY <1>4, EditedLaunch
  <2>2. sum(promised) = sum(Base) + TotalEmitted(periods[1]) /\ TotalEmitted(periods[1]) \in Int
    BY <1>2, <2>1, OneMorePaid, TotalEmittedType
  <2>3. DepositedFor(periods, slot) = TotalEmitted(periods[1])
    BY <1>4 DEF DepositedFor
  <2> HIDE DEF sum
  <2>4. vault + TotalEmitted(p) - DepositedFor(periods, slot) = sum(Base \cup {p})
    BY ONLY <1>1, <1>2, <1>3, <2>2, <2>3
  <2>5. QED
    BY <2>4 DEF sum
<1>5. CASE ~IsScheduled(periods, slot)
  <2>1. Base = promised /\ DepositedFor(periods, slot) = 0
    BY <1>5 DEF Base, DepositedFor
  <2> HIDE DEF sum
  <2>2. vault + TotalEmitted(p) - DepositedFor(periods, slot) = sum(Base \cup {p})
    BY ONLY <1>1, <1>2, <1>3, <2>1
  <2>3. QED
    BY <2>2 DEF sum
<1>6. QED
  BY <1>4, <1>5

\* A call of new_harvest_period keeps all of it.
LEMMA AnnouncedStep ==
  ASSUME IInv, Announced, NEW at \in Starts, NEW n \in Lengths, NEW tps \in Rates,
         NewHarvestPeriod(at, n, tps)
  PROVE  Announced'
<1>1. PICK p \in Period :
        /\ p \notin Base /\ Scheduled(Base \cup {p}) /\ promised' = Base \cup {p}
        /\ p.startsAt >= slot
        /\ AcceptsPeriod(periods, slot, p, oldestSnapshot)
        /\ periods' = SetPeriod(periods, slot, p)
        /\ vault' = vault + TotalEmitted(p) - DepositedFor(periods, slot)
  BY AnnouncementJoins
<1>2. /\ periods \in Periods /\ slot \in Nat /\ OrderAt(periods, slot)
      /\ promised \subseteq Period /\ slot' = slot
      /\ 1 \in 1 .. PeriodsLen /\ PeriodsLen \in 1 .. PeriodsLen
      /\ \A i \in 1 .. PeriodsLen : periods[i] \in Period
  BY DEF IInv, TypeOK, PeriodsInOrder, OrderAt, NewHarvestPeriod, Periods
<1>3. periods'[1] = p
  <2>1. periods \in Periods /\ 1 \in 1 .. PeriodsLen
    BY <1>2
  <2>2. SetPeriod(periods, slot, p)[1] = p
    BY <2>1, SetPeriodKeeps
  <2>3. QED
    BY <1>1, <2>2
<1>4. \A q \in Base : /\ q \in promised /\ q.endsAt < p.startsAt
                      /\ 0 < q.startsAt /\ q.startsAt < q.endsAt /\ q \in Period
  BY <1>1, AnnouncementIsNewest DEF Base, Announced, Scheduled
<1>5. slot' <= MaxSlot /\ Scheduled(promised')
  BY <1>1, <1>2 DEF Announced
<1>6. vault' = SumFunctionOnSet(RateTable(promised'), 1 .. Horizon)
  BY <1>1, AnnouncementIsPaid
<1>7. ASSUME NEW i \in 1 .. PeriodsLen
      PROVE  periods'[i] = NoPeriod \/ periods'[i] \in promised'
  <2>1. CASE i = 1
    BY <1>1, <1>3, <2>1
  <2>2. CASE i # 1 /\ IsScheduled(periods, slot)
    <3>1. periods'[i] = periods[i]
      BY <1>1, <1>2, <2>2, SetPeriodKeeps
    <3>2. periods[i] = NoPeriod \/ (periods[i] \in promised /\ periods[i] # periods[1])
      <4>1. periods[i] = NoPeriod \/ periods[i].endsAt < periods[1].startsAt
        BY <1>2, <2>2 DEF OrderAt
      <4>2. periods[i] # NoPeriod => periods[i] \in promised /\ periods[i].startsAt < periods[i].endsAt
        BY <1>2 DEF Announced, OrderAt
      <4>3. QED
        BY <1>2, <4>1, <4>2 DEF Period
    <3>3. QED
      BY <1>1, <2>2, <3>1, <3>2 DEF Base
  <2>3. CASE i # 1 /\ ~IsScheduled(periods, slot)
    <3>1. i - 1 \in 1 .. PeriodsLen /\ periods'[i] = periods[i - 1]
      BY <1>1, <1>2, <2>3, SetPeriodKeeps
    <3>2. QED
      BY <1>1, <2>3, <3>1 DEF Announced, Base
  <2>4. QED
    BY <2>1, <2>2, <2>3
<1>8. ASSUME NEW q \in promised'
      PROVE  \/ \E i \in 1 .. PeriodsLen : periods'[i] = q
             \/ q.endsAt < periods'[PeriodsLen].startsAt
  <2>1. CASE q = p
    BY <1>2, <1>3, <2>1
  <2>2. CASE q \in Base /\ PeriodsLen = 1
    BY <1>3, <1>4, <2>2
  <2>3. ASSUME q \in Base, PeriodsLen # 1, NEW i \in 1 .. PeriodsLen, periods[i] = q
        PROVE  \/ \E k \in 1 .. PeriodsLen : periods'[k] = q
               \/ q.endsAt < periods'[PeriodsLen].startsAt
    <3>1. CASE IsScheduled(periods, slot)
      <4>1. i # 1
        BY <2>3, <3>1 DEF Base
      <4>2. periods'[i] = q
        BY <1>1, <1>2, <2>3, <3>1, <4>1, SetPeriodKeeps
      <4>3. QED
        BY <4>2
    <3>2. CASE ~IsScheduled(periods, slot) /\ i < PeriodsLen
      <4>1. i + 1 \in 1 .. PeriodsLen /\ periods'[i + 1] = q
        BY <1>1, <1>2, <2>3, <3>2, SetPeriodKeeps
      <4>2. QED
        BY <4>1
    <3>3. CASE ~IsScheduled(periods, slot) /\ i = PeriodsLen
      <4>1. PeriodsLen - 1 \in 1 .. PeriodsLen /\ periods'[PeriodsLen] = periods[PeriodsLen - 1]
        BY <1>1, <1>2, <2>3, <3>3, SetPeriodKeeps
      <4>2. q # NoPeriod /\ PeriodsLen - 1 < PeriodsLen
        BY <1>4, <2>3 DEF NoPeriod
      <4>3. q.endsAt < periods[PeriodsLen - 1].startsAt
        BY <1>2, <2>3, <3>3, <4>1, <4>2 DEF OrderAt
      <4>4. QED
        BY <4>1, <4>3
    <3>4. QED
      BY <3>1, <3>2, <3>3
  <2>4. CASE q \in Base /\ PeriodsLen # 1 /\ q.endsAt < periods[PeriodsLen].startsAt
    <3>1. CASE IsScheduled(periods, slot)
      <4>1. periods'[PeriodsLen] = periods[PeriodsLen]
        BY <1>1, <1>2, <2>4, <3>1, SetPeriodKeeps
      <4>2. QED
        BY <2>4, <4>1
    <3>2. CASE ~IsScheduled(periods, slot)
      <4>1. PeriodsLen - 1 \in 1 .. PeriodsLen /\ periods'[PeriodsLen] = periods[PeriodsLen - 1]
        BY <1>1, <1>2, <2>4, <3>2, SetPeriodKeeps
      <4>2. periods[PeriodsLen] # NoPeriod /\ PeriodsLen - 1 < PeriodsLen
        BY <1>2, <1>4, <2>4 DEF NoPeriod, Period
      <4>3. /\ periods[PeriodsLen].endsAt < periods[PeriodsLen - 1].startsAt
            /\ periods[PeriodsLen].startsAt < periods[PeriodsLen].endsAt
        BY <1>2, <4>1, <4>2 DEF OrderAt
      <4>4. q.endsAt < periods[PeriodsLen - 1].startsAt
        <5>1. /\ q.endsAt \in Nat
              /\ periods[PeriodsLen].startsAt \in Nat /\ periods[PeriodsLen].endsAt \in Nat
              /\ periods[PeriodsLen - 1].startsAt \in Nat
          BY <1>2, <1>4, <2>4, <4>1 DEF Period
        <5>2. QED
          BY <2>4, <4>3, <5>1
      <4>5. QED
        BY <4>1, <4>4
    <3>3. QED
      BY <3>1, <3>2
  <2>5. QED
    BY <1>1, <1>4, <2>1, <2>2, <2>3, <2>4 DEF Announced
<1>9. QED
  BY <1>5, <1>6, <1>7, <1>8 DEF Announced

\* The abstract sum is the sum.
LEMMA FundIsSum == \A r : Promise!Total(r) = SumFunctionOnSet(r, DOMAIN r)
BY DEF Promise!Total, Promise!SumFunction, Promise!SumFunctionOnSet, Promise!FoldFunctionOnSet,
       Promise!MapThenFoldSet, SumFunctionOnSet, FoldFunctionOnSet, MapThenFoldSet

\* A call of new_harvest_period is an announcement: slots that are past keep
\* their rate, and so does the current one once it releases something.
LEMMA AnnouncementIsPromised ==
  ASSUME IInv, Announced, Announced', NEW at \in Starts, NEW n \in Lengths, NEW tps \in Rates,
         NewHarvestPeriod(at, n, tps)
  PROVE  Promise!Announce
<1> DEFINE old == RateTable(promised)
           new == RateTable(promised')
<1>1. PICK p \in Period :
        /\ p \notin Base /\ Scheduled(Base \cup {p}) /\ promised' = Base \cup {p}
        /\ p.startsAt >= slot
  BY AnnouncementJoins
<1>2. /\ slot \in Nat \ {0} /\ slot' = slot /\ slot <= Horizon
      /\ p.startsAt \in Nat /\ p.endsAt \in Nat
  <2>1. slot \in Nat \ {0} /\ slot' = slot /\ slot <= MaxSlot
    BY DEF IInv, TypeOK, NewHarvestPeriod, Announced
  <2>2. MaxSlot + 0 + n <= Horizon /\ n \in Nat /\ Horizon \in Nat
    BY HorizonAssumption
  <2>3. QED
    BY <2>1, <2>2 DEF Period
<1>3. new \in [1 .. Horizon -> Nat] /\ DOMAIN new = 1 .. Horizon
  <2>1. new \in [1 .. Horizon -> Nat]
    BY <1>1, OneMorePaid
  <2>2. QED
    BY <2>1
<1>4. \A s \in 1 .. slot : s \in Int /\ s <= slot /\ RateIn(promised, s) = RateIn(Base, s)
  <2>1. TAKE s \in 1 .. slot
  <2>2. s \in Int /\ s <= slot
    BY <1>2
  <2>3. CASE IsScheduled(periods, slot)
    <3>1. /\ periods[1] \in Period /\ periods[1] \notin Base
          /\ promised = Base \cup {periods[1]} /\ periods[1].startsAt > slot
      BY <2>3, EditedLaunch
    <3>2. Scheduled(promised) /\ ~(periods[1].startsAt <= s)
      BY <1>2, <2>2, <3>1 DEF Announced, Period
    <3>3. QED
      BY <2>2, <3>1, <3>2, OneMoreAnnouncement
  <2>4. CASE ~IsScheduled(periods, slot)
    BY <2>2, <2>4 DEF Base
  <2>5. QED
    BY <2>3, <2>4
<1>5. \A s \in 1 .. slot - 1 : new[s] = old[s]
  <2>1. TAKE s \in 1 .. slot - 1
  <2>2. s \in 1 .. slot /\ s \in 1 .. Horizon /\ s \in Int /\ ~(p.startsAt <= s)
    <3>1. Horizon \in Nat
      BY HorizonAssumption
    <3>2. QED
      BY ONLY <1>1, <1>2, <3>1
  <2>3. RateIn(promised', s) = RateIn(Base, s)
    BY <1>1, <2>2, OneMoreAnnouncement
  <2>4. QED
    BY <1>4, <2>2, <2>3 DEF RateTable
<1>6. old[slot] # 0 => new[slot] = old[slot]
  <2>1. slot \in 1 .. slot /\ slot \in 1 .. Horizon /\ slot \in Int
    BY <1>2
  <2>2. old[slot] = RateIn(promised, slot) /\ new[slot] = RateIn(promised', slot)
    BY <2>1 DEF RateTable
  <2>3. RateIn(Base, slot) # 0 => RateIn(Base \cup {p}, slot) = RateIn(Base, slot)
    BY <1>1, <2>1, OneMoreAnnouncement
  <2>4. QED
    BY <1>1, <1>4, <2>1, <2>2, <2>3
<1>7. vault' = Promise!Total(new)
  BY <1>3, FundIsSum DEF Announced
<1>8. /\ [s \in 1 .. Horizon |-> PromisedAt(s)] = old
      /\ [s \in 1 .. Horizon |-> PromisedAt(s)]' = new
  BY DEF PromisedAt, RateTable, RateIn
<1> HIDE DEF old, new
<1>9. QED
  BY <1>2, <1>3, <1>5, <1>6, <1>7, <1>8 DEF Promise!Announce

\* The periods in their array, the vault and the administrator's edits
\* implement the promise to farmers: a rate for each slot that is paid for when
\* it is announced and not revised once it is due, for every length of the
\* array, with or without the limit on updates.
THEOREM ImplementsEmissionPromise == Spec => ImplementsPromise
<1>1. Init => Announced /\ Promise!Init
  <2>1. SUFFICES ASSUME Init PROVE Announced /\ Promise!Init
    OBVIOUS
  <2>2. slot = 1 /\ promised = {} /\ vault = 0 /\ periods = NoPeriods
    BY <2>1 DEF Init
  <2>3. \A s : RateIn({}, s) = 0
    BY DEF RateIn
  <2>4. RateTable({}) = [s \in 1 .. Horizon |-> 0]
    BY <2>3 DEF RateTable
  <2>5. SumFunctionOnSet(RateTable({}), 1 .. Horizon) = 0
    <3>1. IsFiniteSet(1 .. Horizon) /\ \A s \in 1 .. Horizon : RateTable({})[s] = 0
      BY <2>4, HorizonAssumption, FS_Interval
    <3>2. QED
      BY ONLY <3>1, SumOfZeros
  <2>6. Announced
    BY <2>2, <2>5 DEF Announced, Scheduled, Apart, NoPeriods
  <2>7. [s \in 1 .. Horizon |-> PromisedAt(s)] = [s \in 1 .. Horizon |-> 0]
    BY <2>2 DEF PromisedAt
  <2>8. QED
    BY <2>2, <2>6, <2>7 DEF Promise!Init
<1>2. IInv /\ Announced /\ [Next]_vars => Announced' /\ [Promise!Next]_(Promise!vars)
  <2>1. SUFFICES ASSUME IInv, Announced, [Next]_vars
                 PROVE  Announced' /\ [Promise!Next]_(Promise!vars)
    OBVIOUS
  <2>2. ASSUME NEW at \in Starts, NEW n \in Lengths, NEW tps \in Rates,
               NewHarvestPeriod(at, n, tps)
        PROVE  Announced' /\ Promise!Next
    <3>1. Announced'
      BY <2>1, <2>2, AnnouncedStep
    <3>2. QED
      BY <2>1, <2>2, <3>1, AnnouncementIsPromised DEF Promise!Next
  <2>3. CASE UNCHANGED <<slot, periods, vault, promised>>
    BY <2>1, <2>3 DEF Announced, Promise!vars, PromisedAt
  <2>4. CASE Tick
    <3>1. /\ slot < MaxSlot /\ slot' = slot + 1
          /\ UNCHANGED <<periods, vault, promised>>
      BY <2>4 DEF Tick
    <3>2. slot' <= MaxSlot
      BY <2>1, <3>1 DEF IInv, TypeOK
    <3>3. Announced'
      BY <2>1, <3>1, <3>2 DEF Announced
    <3>4. Promise!Elapse
      BY <3>1 DEF Promise!Elapse, PromisedAt
    <3>5. QED
      BY <3>3, <3>4 DEF Promise!Next
  <2>5. QED
    BY <2>1, <2>2, <2>3, <2>4 DEF Next, ForgetSnapshots, vars
<1>3. Spec => Promise!Spec
  BY <1>1, <1>2, IInvHolds, PTL DEF Spec, Promise!Spec
<1>4. QED
  BY <1>3 DEF ImplementsPromise
=============================================================================
