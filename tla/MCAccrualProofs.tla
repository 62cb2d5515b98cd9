--------------------------- MODULE MCAccrualProofs ---------------------------
(***************************************************************************)
(* What the histories of MCAccrual pay, for every length of ring and of    *)
(* array, every unit of Decimals and every choice of amounts, stakes,      *)
(* rates and periods: exactly what is owed, and in two parts at most one   *)
(* token less.                                                             *)
(***************************************************************************)
EXTENDS MCAccrual, AccrualProofs

USE BoundsAssumption, RingLenAssumption, DefaultWindowAssumption, PeriodsLenAssumption,
    WadAssumption

\* What the computation of a harvest relies on: both histories are in order.
IInv ==
  /\ slot \in Nat \ {0} /\ buffer \in Buffer /\ periods \in Periods
  /\ RingInOrder(buffer, slot) /\ OrderAt(periods, slot)

LEMMA InitIInv == Init => IInv
BY EmptyRingInOrder, NoPeriodsInOrder DEF Init, IInv

\* A period that the endpoint accepts keeps the order.
LEMMA OpenIInv ==
  ASSUME IInv, NEW d \in Delays, NEW n \in Lengths, NEW tps \in Rates,
         Open([tps |-> tps, startsAt |-> slot + d, endsAt |-> slot + d + n - 1])
  PROVE  IInv'
<1> DEFINE p == [tps |-> tps, startsAt |-> slot + d, endsAt |-> slot + d + n - 1]
           oldest == Oldest(buffer).startedAt
<1>1. /\ AcceptsPeriod(periods, slot, p, oldest)
      /\ periods' = SetPeriod(periods, slot, p) /\ UNCHANGED <<slot, buffer>>
  BY DEF Open
<1>2. slot \in Nat /\ slot > 0 /\ d \in Nat /\ n \in Nat /\ tps \in Nat
  BY DEF IInv
<1>3. p \in Period /\ p.startsAt >= slot
  <2>1. slot + d \in Nat /\ slot + d + n - 1 \in Nat /\ slot + d >= slot
    BY <1>2
  <2>2. QED
    BY <1>2, <2>1 DEF Period
<1> HIDE DEF p, oldest
<1>4. SetPeriod(periods, slot, p) \in Periods
  BY <1>3, SetPeriodType DEF IInv
<1>5. OrderAt(SetPeriod(periods, slot, p), slot)
  BY <1>1, <1>2, <1>3, SetPeriodKeepsOrder DEF IInv
<1>6. QED
  BY <1>1, <1>4, <1>5 DEF IInv

LEMMA NextIInv == IInv /\ [Next]_vars => IInv'
<1>1. ASSUME IInv, NEW a \in Amounts, Snap(a) PROVE IInv'
  <2>1. slot \in Nat /\ a \in Nat /\ 1 \in Nat /\ buffer \in Buffer /\ RingInOrder(buffer, slot)
    BY <1>1 DEF IInv
  <2>2. /\ SufficientTimePassed(buffer, 1, slot) /\ buffer' = Push(buffer, a, slot)
        /\ UNCHANGED <<slot, periods>>
    BY <1>1 DEF Snap
  <2>3. Push(buffer, a, slot) \in Buffer
    BY <2>1, PushType
  <2>4. RingInOrder(Push(buffer, a, slot), slot)
    BY <2>1, <2>2, PushKeepsRingOrder
  <2>5. QED
    BY <1>1, <2>2, <2>3, <2>4 DEF IInv
<1>2. ASSUME IInv, Tick PROVE IInv'
  <2>1. /\ slot \in Nat /\ slot' = slot + 1 /\ slot' \in Nat \ {0} /\ slot <= slot'
        /\ slot' \in Nat /\ UNCHANGED <<buffer, periods>>
    BY <1>2 DEF Tick, IInv
  <2>2. /\ buffer \in Buffer /\ RingInOrder(buffer, slot)
        /\ periods \in Periods /\ OrderAt(periods, slot)
    BY <1>2 DEF IInv
  <2>3. RingInOrder(buffer, slot') /\ OrderAt(periods, slot')
    BY <2>1, <2>2, RingStaysInOrder, PeriodsStillInOrder
  <2>4. QED
    BY <2>1, <2>2, <2>3 DEF IInv
<1>3. ASSUME IInv, UNCHANGED vars PROVE IInv'
  BY <1>3 DEF IInv, vars
<1>4. QED
  BY <1>1, <1>2, <1>3, OpenIInv DEF Next

\* In every state a harvest is paid exactly.
LEMMA Paid ==
  ASSUME IInv, NEW since \in Nat, NEW until \in Nat, since <= until, NEW staked \in Stakes
  PROVE  IsPaid(EligibleHarvest(buffer, periods, since, until, staked),
                buffer, periods, since, until, staked)
<1>1. /\ buffer \in Buffer /\ RingInOrder(buffer, slot)
      /\ periods \in Periods /\ OrderAt(periods, slot)
      /\ staked \in Nat
  BY DEF IInv
<1>2. QED
  BY <1>1, HarvestIsExact

\* The nested loops of eligible_harvest_until never underflow and pay each
\* window's share of what was released in it, no slot twice and none missed,
\* over every history of snapshots and periods that a farm can build.
THEOREM AccrualStaysExact == Spec => []AccrualIsExact
<1>1. IInv => AccrualIsExact
  <2>1. SUFFICES ASSUME IInv, NEW since \in 1 .. slot, NEW until \in 1 .. slot,
                        NEW staked \in Stakes, since <= until
                 PROVE  LET e == EligibleHarvest(buffer, periods, since, until, staked)
                        IN  e.ok /\ e.tokens = Owed(buffer, periods, since, until, staked)
    BY DEF AccrualIsExact
  <2>2. since \in Nat /\ until \in Nat
    BY <2>1
  <2>3. QED
    BY <2>1, <2>2, Paid DEF IsPaid
<1>2. QED
  BY InitIInv, NextIInv, <1>1, PTL DEF Spec

\* Harvesting an interval in two parts never pays more than at once, and at
\* most one token less, however many windows and rates it spans.
THEOREM SplitsLoseOneToken == Spec => []SplitLosesOnlyRounding
<1>1. IInv => SplitLosesOnlyRounding
  <2>1. SUFFICES ASSUME IInv, NEW mid \in 1 .. slot - 1, NEW staked \in Stakes
                 PROVE  LET whole == EligibleHarvest(buffer, periods, 1, slot, staked).tokens
                            parts == EligibleHarvest(buffer, periods, 1, mid, staked).tokens
                                       + EligibleHarvest(buffer, periods, mid + 1, slot, staked).tokens
                        IN  parts <= whole /\ whole <= parts + 1
    BY DEF SplitLosesOnlyRounding
  <2>2. /\ slot \in Nat /\ mid \in Nat /\ mid + 1 \in Nat /\ 1 \in Nat
        /\ 1 <= mid /\ mid < slot /\ mid + 1 <= slot /\ 1 <= slot
    BY <2>1 DEF IInv
  <2>3. EligibleHarvest(buffer, periods, 1, slot, staked).tokens
          = Owed(buffer, periods, 1, slot, staked)
    BY <2>1, <2>2, Paid DEF IsPaid
  <2>4. EligibleHarvest(buffer, periods, 1, mid, staked).tokens
          = Owed(buffer, periods, 1, mid, staked)
    BY <2>1, <2>2, Paid DEF IsPaid
  <2>5. EligibleHarvest(buffer, periods, mid + 1, slot, staked).tokens
          = Owed(buffer, periods, mid + 1, slot, staked)
    BY <2>1, <2>2, Paid DEF IsPaid
  <2>6. LET parts == Owed(buffer, periods, 1, mid, staked)
                       + Owed(buffer, periods, mid + 1, slot, staked)
            whole == Owed(buffer, periods, 1, slot, staked)
        IN  parts <= whole /\ whole <= parts + 1
    <3>1. /\ buffer \in Buffer /\ RingInOrder(buffer, slot) /\ periods \in Periods
          /\ staked \in Nat
      BY <2>1 DEF IInv
    <3>2. QED
      BY <2>2, <3>1, OwedSplits
  <2>7. QED
    BY <2>3, <2>4, <2>5, <2>6
<1>2. QED
  BY InitIInv, NextIInv, <1>1, PTL DEF Spec
=============================================================================
