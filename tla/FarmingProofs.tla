---------------------------- MODULE FarmingProofs ----------------------------
(***************************************************************************)
(* Proofs about Farming, for any number of farms, users, mints, snapshots  *)
(* and periods: what the program keeps of a farmer's stake, in whichever   *)
(* order transactions run, and, where snapshots come first in their slot,  *)
(* that the vaults cover every harvest it owes.                            *)
(***************************************************************************)
EXTENDS Farming, AccrualProofs

USE StakeMintAssumption, MaxHarvestMintsAssumption, InitialWalletAssumption,
    BoundsAssumption, RingLenAssumption, DefaultWindowAssumption, PeriodsLenAssumption

-----------------------------------------------------------------------------
(* One farmer.                                                             *)

\* The numbers of a farmer, apart from the credited harvest, are the same.
Keeps(old, new) ==
  /\ new.staked = old.staked /\ new.vested = old.vested
  /\ new.vestedAt = old.vestedAt /\ new.nextFrom = old.nextFrom

\* What an update makes of a farmer.
IsUpdateOf(old, fm, current, new) ==
  /\ IsFarmer(new, Mints)
  /\ new.vestedAt = old.vestedAt
  /\ new.nextFrom >= current
  /\ \/ /\ EndOfVesting(old, fm) = {}
        /\ new.staked = old.staked /\ new.vested = old.vested
        /\ new.nextFrom >= old.nextFrom
     \/ /\ new.staked = old.staked + old.vested /\ new.vested = 0
        /\ \E s \in EndOfVesting(old, fm) : new.nextFrom >= s.startedAt

\* Computing the harvest changes nothing but the harvest, for the mints of
\* the farm.
LEMMA AccrueEffect ==
  ASSUME NEW ms, NEW fr \in FarmerOf(ms), NEW hs, NEW fm \in FarmOf(hs),
         NEW until \in Int, Accrue(fr, fm, until).ok
  PROVE  /\ Accrue(fr, fm, until).farmer \in FarmerOf(hs)
         /\ Keeps(fr, Accrue(fr, fm, until).farmer)
<1> DEFINE known == SyncHarvestMints(fr.harvests, DOMAIN fm.harvests)
           earned == [m \in DOMAIN fm.harvests |->
                        EligibleHarvest(fm.snapshots, fm.harvests[m], fr.nextFrom, until,
                                        fr.staked)]
           sums == [m \in DOMAIN known |-> known[m] + earned[m].tokens]
<1>1. /\ fm.snapshots \in Buffer /\ fm.harvests \in [hs -> Periods]
      /\ DOMAIN fm.harvests = hs
  BY DEF FarmOf
<1>2. /\ fr.nextFrom \in Nat /\ fr.staked \in Nat /\ fr.harvests \in [ms -> Nat]
  BY DEF FarmerOf
<1>3. known \in [hs -> Nat]
  BY <1>1, <1>2 DEF SyncHarvestMints
<1>4. /\ Accrue(fr, fm, until).ok = \A m \in DOMAIN earned : earned[m].ok
      /\ Accrue(fr, fm, until).farmer = [fr EXCEPT !.harvests = sums]
  BY DEF Accrue, SetHarvests
<1>5. ASSUME NEW m \in hs PROVE earned[m].tokens \in Nat
  <2>1. earned[m] = EligibleHarvest(fm.snapshots, fm.harvests[m], fr.nextFrom, until, fr.staked)
    BY <1>1
  <2>2. earned[m].ok
    BY <1>1, <1>4, Zenon
  <2>3. fm.harvests[m] \in Periods
    BY <1>1
  <2> HIDE DEF earned
  <2>4. QED
    BY <1>1, <1>2, <2>1, <2>2, <2>3, HarvestIsAnAmount
<1> HIDE DEF known, earned
<1>6. sums \in [hs -> Nat]
  BY <1>3, <1>5
<1> HIDE DEF sums
<1>7. [fr EXCEPT !.harvests = sums] \in FarmerOf(hs) /\ Keeps(fr, [fr EXCEPT !.harvests = sums])
  BY <1>6 DEF FarmerOf, Keeps
<1>8. QED
  BY <1>4, <1>7

\* At most one snapshot ends a farmer's vesting, and it follows the deposit.
LEMMA EndOfVestingType ==
  ASSUME NEW ms, NEW fr \in FarmerOf(ms), NEW hs, NEW fm \in FarmOf(hs),
         NEW s \in EndOfVesting(fr, fm)
  PROVE  /\ s \in Snapshot /\ s.startedAt \in Nat /\ s.startedAt > fr.vestedAt
         /\ EndOfVesting(fr, fm) = {s}
<1>1. fm.snapshots \in Buffer /\ fr.vestedAt \in Nat
  BY DEF FarmOf, FarmerOf
<1>2. /\ EndOfVesting(fr, fm) = FirstSnapshotAfter(fm.snapshots, fr.vestedAt)
      /\ s \in FirstSnapshotAfter(fm.snapshots, fr.vestedAt)
  BY DEF EndOfVesting
<1>3. s \in Snapshot /\ s.startedAt > fr.vestedAt /\ EndOfVesting(fr, fm) = {s}
  BY <1>1, <1>2, FirstAfterType
<1>4. QED
  BY <1>3 DEF Snapshot, Slot

\* Staking what vested: all of it, or nothing.
LEMMA PromoteEffect ==
  ASSUME NEW ms, ms \subseteq Mints, NEW fr \in FarmerOf(ms),
         NEW hs, hs \subseteq Mints, NEW fm \in FarmOf(hs), Promote(fr, fm).ok
  PROVE  LET new == Promote(fr, fm).farmer
         IN  /\ IsFarmer(new, Mints)
             /\ new.vestedAt = fr.vestedAt
             /\ \/ EndOfVesting(fr, fm) = {} /\ new = fr
                \/ /\ new.staked = fr.staked + fr.vested /\ new.vested = 0
                   /\ \E s \in EndOfVesting(fr, fm) : new.nextFrom = s.startedAt
<1>1. CASE EndOfVesting(fr, fm) = {}
  BY <1>1 DEF Promote, IsFarmer
<1>2. CASE EndOfVesting(fr, fm) # {}
  <2> DEFINE s == CHOOSE s \in EndOfVesting(fr, fm) : TRUE
             a == Accrue(fr, fm, s.startedAt - 1)
  <2>1. s \in EndOfVesting(fr, fm)
    BY <1>2
  <2>2. s.startedAt \in Nat
    BY <2>1, EndOfVestingType
  <2>3. Promote(fr, fm) = [a EXCEPT !.farmer.nextFrom = s.startedAt,
                                    !.farmer.staked   = @ + fr.vested,
                                    !.farmer.vested   = 0]
    BY <1>2 DEF Promote
  <2>4. a = [ok |-> a.ok, farmer |-> a.farmer]
    BY DEF Accrue, SetHarvests
  <2> HIDE DEF a, s
  <2>5. /\ Promote(fr, fm).ok = a.ok
        /\ Promote(fr, fm).farmer = [a.farmer EXCEPT !.nextFrom = s.startedAt,
                                                     !.staked   = @ + fr.vested,
                                                     !.vested   = 0]
    BY <2>3, <2>4, Zenon
  <2>6. a.farmer \in FarmerOf(hs) /\ Keeps(fr, a.farmer)
    <3>1. s.startedAt - 1 \in Int /\ Accrue(fr, fm, s.startedAt - 1).ok
      BY <2>2, <2>5 DEF a
    <3>2. QED
      BY <3>1, AccrueEffect DEF a
  <2> DEFINE new == [a.farmer EXCEPT !.nextFrom = s.startedAt,
                                     !.staked   = @ + fr.vested,
                                     !.vested   = 0]
  <2>7. fr.staked \in Nat /\ fr.vested \in Nat
    BY DEF FarmerOf
  <2>8. /\ new \in FarmerOf(hs)
        /\ new.vestedAt = fr.vestedAt /\ new.nextFrom = s.startedAt
        /\ new.staked = fr.staked + fr.vested /\ new.vested = 0
    <3> DEFINE b == a.farmer
    <3>1. /\ b \in [staked : Nat, vested : Nat, vestedAt : Nat, nextFrom : Nat,
                    harvests : [hs -> Nat]]
          /\ b.staked = fr.staked /\ b.vestedAt = fr.vestedAt
      BY <2>6 DEF FarmerOf, Keeps
    <3>2. fr.staked + fr.vested \in Nat
      BY <2>7
    <3> HIDE DEF b
    <3>3. new = [b EXCEPT !.nextFrom = s.startedAt, !.staked = @ + fr.vested, !.vested = 0]
      BY DEF b
    <3> HIDE DEF new
    <3>4. /\ new.vestedAt = fr.vestedAt /\ new.nextFrom = s.startedAt
          /\ new.staked = fr.staked + fr.vested /\ new.vested = 0
          /\ new.harvests = b.harvests
      BY <3>1, <3>3
    <3>5. new = [staked |-> new.staked, vested |-> new.vested, vestedAt |-> new.vestedAt,
                 nextFrom |-> new.nextFrom, harvests |-> new.harvests]
      BY <3>1, <3>3, Zenon
    <3>6. /\ new.staked \in Nat /\ new.vested \in Nat /\ new.vestedAt \in Nat
          /\ new.nextFrom \in Nat /\ new.harvests \in [hs -> Nat]
      BY <2>2, <3>1, <3>2, <3>4
    <3>7. new \in FarmerOf(hs)
      BY <3>5, <3>6 DEF FarmerOf
    <3>8. QED
      BY <3>4, <3>7
  <2> HIDE DEF new
  <2>9. Promote(fr, fm).farmer = new
    BY <2>5 DEF new
  <2>10. QED
    BY <2>1, <2>8, <2>9 DEF IsFarmer
<1>3. QED
  BY <1>1, <1>2

\* check_vested_period_and_update_harvest, when it succeeds.
LEMMA UpdateEffect ==
  ASSUME NEW ms, ms \subseteq Mints, NEW fr \in FarmerOf(ms),
         NEW hs, hs \subseteq Mints, NEW fm \in FarmOf(hs),
         NEW current \in Nat, CheckVestedAndUpdate(fr, fm, current).ok
  PROVE  IsUpdateOf(fr, fm, current, CheckVestedAndUpdate(fr, fm, current).farmer)
<1> DEFINE p == Promote(fr, fm)
           up == UpdateEligible(p.farmer, fm, current)
           new == CheckVestedAndUpdate(fr, fm, current)
<1>1. up = [ok |-> up.ok, farmer |-> up.farmer]
  BY Zenon DEF UpdateEligible, Accrue, SetHarvests
<1>2. new = [up EXCEPT !.ok = @ /\ p.ok]
  BY DEF CheckVestedAndUpdate, UpdatePromoted
<1> HIDE DEF up, p
<1>3. new.farmer = up.farmer /\ up.ok /\ p.ok
  <2>1. new.ok
    OBVIOUS
  <2> HIDE DEF new
  <2>2. QED
    BY <1>1, <1>2, <2>1, Zenon
<1>4. PICK ks \in SUBSET Mints : p.farmer \in FarmerOf(ks)
  BY <1>3, PromoteEffect DEF p, IsFarmer
<1>5. IsFarmer(up.farmer, Mints)
      /\ up.farmer.staked = p.farmer.staked /\ up.farmer.vested = p.farmer.vested
      /\ up.farmer.vestedAt = p.farmer.vestedAt
      /\ up.farmer.nextFrom >= p.farmer.nextFrom /\ up.farmer.nextFrom >= current
  <2>1. CASE p.farmer.nextFrom >= current
    <3>1. up.farmer = p.farmer
      BY <2>1 DEF up, UpdateEligible
    <3>2. p.farmer.nextFrom \in Nat
      BY <1>4 DEF FarmerOf
    <3>3. QED
      BY <1>4, <2>1, <3>1, <3>2 DEF IsFarmer
  <2>2. CASE ~(p.farmer.nextFrom >= current)
    <3> DEFINE a == Accrue(p.farmer, fm, current)
    <3>1. up = [a EXCEPT !.farmer.nextFrom = current + 1]
      BY <2>2 DEF up, UpdateEligible
    <3>2. a = [ok |-> a.ok, farmer |-> a.farmer]
      BY DEF Accrue, SetHarvests
    <3>3. a.ok => a.farmer \in FarmerOf(hs) /\ Keeps(p.farmer, a.farmer)
      BY <1>4, AccrueEffect
    <3> HIDE DEF a
    <3>4. up.ok = a.ok /\ up.farmer = [a.farmer EXCEPT !.nextFrom = current + 1]
      BY <3>1, <3>2
    <3>5. a.farmer \in FarmerOf(hs) /\ Keeps(p.farmer, a.farmer)
      BY <1>3, <3>3, <3>4
    <3>6. p.farmer.nextFrom \in Nat
      BY <1>4 DEF FarmerOf
    <3> DEFINE b == [a.farmer EXCEPT !.nextFrom = current + 1]
    <3>7. /\ b \in FarmerOf(hs) /\ b.nextFrom = current + 1
          /\ b.staked = p.farmer.staked /\ b.vested = p.farmer.vested
          /\ b.vestedAt = p.farmer.vestedAt
      BY <3>5 DEF FarmerOf, Keeps
    <3>8. up.farmer = b
      BY <3>4
    <3> HIDE DEF b
    <3>9. QED
      BY <2>2, <3>6, <3>7, <3>8 DEF IsFarmer
  <2>3. QED
    BY <2>1, <2>2
<1>6. /\ p.farmer.vestedAt = fr.vestedAt
      /\ \/ EndOfVesting(fr, fm) = {} /\ p.farmer = fr
         \/ /\ p.farmer.staked = fr.staked + fr.vested /\ p.farmer.vested = 0
            /\ \E s \in EndOfVesting(fr, fm) : p.farmer.nextFrom = s.startedAt
  BY <1>3, PromoteEffect DEF p
<1> HIDE DEF new
<1>7. QED
  BY <1>3, <1>5, <1>6 DEF IsUpdateOf, new

\* add_to_vested.
LEMMA AddToVestedEffect ==
  ASSUME NEW ms, NEW fr \in FarmerOf(ms), NEW current \in Nat, NEW tokens \in Nat
  PROVE  LET new == AddToVested(fr, current, tokens)
         IN  /\ new \in FarmerOf(ms)
             /\ new.staked = fr.staked /\ new.vested = fr.vested + tokens
             /\ new.vestedAt = current /\ new.nextFrom = fr.nextFrom
             /\ TotalDeposited(new) = TotalDeposited(fr) + tokens
<1> DEFINE new == AddToVested(fr, current, tokens)
<1>1. fr \in [staked : Nat, vested : Nat, vestedAt : Nat, nextFrom : Nat, harvests : [ms -> Nat]]
  BY DEF FarmerOf
<1>2. new = [fr EXCEPT !.vestedAt = current, !.vested = @ + tokens]
  BY DEF AddToVested
<1>3. /\ new.staked = fr.staked /\ new.vested = fr.vested + tokens
      /\ new.vestedAt = current /\ new.nextFrom = fr.nextFrom
      /\ new \in FarmerOf(ms)
  <2>1. fr.vested + tokens \in Nat
    BY <1>1
  <2>2. /\ new.staked = fr.staked /\ new.vested = fr.vested + tokens
        /\ new.vestedAt = current /\ new.nextFrom = fr.nextFrom /\ new.harvests = fr.harvests
    BY <1>1, <1>2
  <2>3. new = [staked |-> new.staked, vested |-> new.vested, vestedAt |-> new.vestedAt,
               nextFrom |-> new.nextFrom, harvests |-> new.harvests]
    BY <1>1, <1>2, Zenon
  <2> HIDE DEF new
  <2>4. new \in FarmerOf(ms)
    BY <1>1, <2>1, <2>2, <2>3 DEF FarmerOf
  <2>5. QED
    BY <2>2, <2>4
<1> HIDE DEF new
<1>4. TotalDeposited(new) = TotalDeposited(fr) + tokens
  BY <1>1, <1>3 DEF TotalDeposited
<1>5. QED
  BY <1>3, <1>4 DEF new

\* unstake: what is taken is what the deposit loses.
LEMMA UnstakeEffect ==
  ASSUME NEW ms, NEW fr \in FarmerOf(ms), NEW max \in Nat
  PROVE  LET new == Unstake(fr, max)
         IN  /\ new \in FarmerOf(ms)
             /\ new.staked <= fr.staked /\ new.vested <= fr.vested
             /\ new.vestedAt = fr.vestedAt /\ new.nextFrom = fr.nextFrom
             /\ UnstakedAmount(fr, max) \in Nat
             /\ TotalDeposited(fr) = TotalDeposited(new) + UnstakedAmount(fr, max)
<1> DEFINE fromVested == Smaller(fr.vested, max)
           all == UnstakedAmount(fr, max)
           new == Unstake(fr, max)
<1>1. fr \in [staked : Nat, vested : Nat, vestedAt : Nat, nextFrom : Nat, harvests : [ms -> Nat]]
  BY DEF FarmerOf
<1>2. new = [fr EXCEPT !.vested = @ - fromVested, !.staked = @ - (all - fromVested)]
  BY DEF Unstake
<1>3. /\ fromVested \in Nat /\ all \in Nat /\ fromVested <= fr.vested /\ fromVested <= all
      /\ all - fromVested <= fr.staked
      /\ TotalDeposited(fr) = fr.staked + fr.vested
  BY <1>1 DEF Smaller, UnstakedAmount, TotalDeposited
<1> HIDE DEF fromVested, all
<1>4. fr.vested - fromVested \in Nat /\ fr.staked - (all - fromVested) \in Nat
  BY <1>1, <1>3
<1>5. /\ new.staked = fr.staked - (all - fromVested) /\ new.vested = fr.vested - fromVested
      /\ new.vestedAt = fr.vestedAt /\ new.nextFrom = fr.nextFrom
      /\ new \in FarmerOf(ms)
  BY <1>1, <1>2, <1>4, Zenon DEF FarmerOf
<1> HIDE DEF new
<1>6. TotalDeposited(fr) = TotalDeposited(new) + all
  BY <1>1, <1>3, <1>5 DEF TotalDeposited
<1>7. new.staked <= fr.staked /\ new.vested <= fr.vested
  BY <1>1, <1>3, <1>5
<1>8. QED
  BY <1>3, <1>5, <1>6, <1>7 DEF new, all

\* claim_harvest.
LEMMA ClaimHarvestEffect ==
  ASSUME NEW ms, NEW fr \in FarmerOf(ms), NEW m \in ms
  PROVE  /\ ClaimHarvest(fr, m) \in FarmerOf(ms) /\ Keeps(fr, ClaimHarvest(fr, m))
         /\ fr.harvests[m] \in Nat
<1>1. /\ fr \in [staked : Nat, vested : Nat, vestedAt : Nat, nextFrom : Nat, harvests : [ms -> Nat]]
      /\ fr.harvests \in [ms -> Nat]
  BY DEF FarmerOf
<1> DEFINE h == [fr.harvests EXCEPT ![m] = 0]
<1>2. h \in [ms -> Nat]
  BY <1>1
<1>3. ClaimHarvest(fr, m) = [fr EXCEPT !.harvests = h]
  BY DEF ClaimHarvest
<1> HIDE DEF h
<1>4. QED
  BY <1>1, <1>2, <1>3 DEF FarmerOf, Keeps

\* Farmers whose numbers are the same have deposited the same.
LEMMA KeepsTotal ==
  ASSUME NEW old, NEW new, Keeps(old, new) PROVE TotalDeposited(new) = TotalDeposited(old)
BY DEF Keeps, TotalDeposited

\* An update moves the deposit of a farmer, and keeps its sum.
LEMMA UpdateTotal ==
  ASSUME NEW ms, NEW old \in FarmerOf(ms), NEW fm, NEW current, NEW new,
         IsUpdateOf(old, fm, current, new)
  PROVE  TotalDeposited(new) = TotalDeposited(old)
<1>1. old.staked \in Nat /\ old.vested \in Nat
  BY DEF FarmerOf
<1>2. QED
  BY <1>1 DEF IsUpdateOf, TotalDeposited

-----------------------------------------------------------------------------
(* What one step does.                                                     *)

FarmsTyped ==
  DOMAIN farm = Farms /\ \A f \in Farms : farm[f] = None \/ IsFarm(farm[f])

FarmersTyped ==
  /\ DOMAIN farmer = Farms
  /\ \A f \in Farms :
       /\ DOMAIN farmer[f] = Users
       /\ \A u \in Users : farmer[f][u] = None \/ IsFarmer(farmer[f][u], Mints)

BalancesTyped ==
  /\ slot \in Nat \ {0}
  /\ stakeVault \in [Farms -> Nat]
  /\ harvestVault \in [Farms -> [Mints -> Nat]]
  /\ wallet \in [Owners -> [Mints -> Nat]]
  /\ whitelist \subseteq Pairs

\* A farmer belongs to a farm: farms are never closed.
FarmersHaveFarms ==
  \A f \in Farms : \A u \in Users : FarmerExists(f, u) => FarmExists(f)

\* The type invariant that is inductive: without the second part an update
\* would read an account that does not exist.
Typed == FarmsTyped /\ FarmersTyped /\ BalancesTyped /\ FarmersHaveFarms

\* What a farm or a farmer that exists is.
LEMMA ExistingFarm ==
  ASSUME Typed, NEW f \in Farms, FarmExists(f)
  PROVE  \E hs \in SUBSET Mints : farm[f] \in FarmOf(hs)
BY DEF Typed, FarmsTyped, FarmExists, IsFarm

\* A farmer that exists has a farm that exists.
LEMMA ExistingFarmer ==
  ASSUME Typed, NEW f \in Farms, NEW u \in Users, FarmerExists(f, u)
  PROVE  FarmExists(f) /\ \E ms \in SUBSET Mints : farmer[f][u] \in FarmerOf(ms)
BY DEF Typed, FarmersTyped, FarmersHaveFarms, FarmerExists, IsFarmer

\* A farmer after an update and, perhaps, a withdrawal.
Draws(old, fm, new) ==
  /\ new.vestedAt = old.vestedAt
  /\ \/ /\ EndOfVesting(old, fm) = {}
        /\ new.staked <= old.staked /\ new.vested <= old.vested
        /\ new.nextFrom >= old.nextFrom
     \/ /\ new.staked <= old.staked + old.vested /\ new.vested = 0
        /\ \E s \in EndOfVesting(old, fm) : new.nextFrom >= s.startedAt

\* A farmer after an update and a deposit.
Stakes(old, fm, now, new) ==
  /\ new.vestedAt = now /\ new.nextFrom >= now
  /\ \/ /\ EndOfVesting(old, fm) = {}
        /\ new.staked = old.staked /\ new.vested >= old.vested
        /\ new.nextFrom >= old.nextFrom
     \/ /\ new.staked = old.staked + old.vested
        /\ \E s \in EndOfVesting(old, fm) : new.nextFrom >= s.startedAt

\* A farmer after a deposit from another farm's harvest.
Receives(old, now, new) ==
  /\ new.staked = old.staked /\ new.vested >= old.vested
  /\ new.vestedAt = now /\ new.nextFrom = old.nextFrom

\* Whether the program may compound between different farms.
Across == \E p \in Pairs : p[1] # p[2]

\* What a step does to a farmer.
Change(f, u) ==
  LET old == farmer[f][u]
      new == farmer'[f][u]
  IN  \/ new = old
      \/ ~FarmerExists(f, u) /\ new.staked = 0 /\ new.vested = 0
      \/ FarmerExists(f, u) /\ new = None /\ TotalDeposited(old) = 0
      \/ FarmerExists(f, u) /\ Keeps(old, new)
      \/ FarmerExists(f, u) /\ Draws(old, farm[f], new)
      \/ FarmerExists(f, u) /\ Stakes(old, farm[f], slot, new)
      \/ FarmerExists(f, u) /\ Receives(old, slot, new) /\ Across

\* What a step does to a stake vault and to what its farmers deposited.
Balanced(f) ==
  \/ /\ stakeVault'[f] = stakeVault[f]
     /\ \A v \in Users : Deposited(f, v)' = Deposited(f, v)
  \/ \E u \in Users :
       /\ stakeVault'[f] + Deposited(f, u) = stakeVault[f] + Deposited(f, u)'
       /\ \A v \in Users \ {u} : Deposited(f, v)' = Deposited(f, v)

\* What a step does to a farm's snapshots.
SnapshotsMove(f) ==
  \/ FarmExists(f) /\ FarmExists(f)' /\ farm'[f].snapshots = farm[f].snapshots
  \/ ~FarmExists(f) /\ ~FarmExists(f)'
  \/ ~FarmExists(f) /\ FarmExists(f)' /\ farm'[f].snapshots = EmptyBuffer
  \/ TakeSnapshot(f)

Step ==
  /\ Typed'
  /\ slot' >= slot
  /\ \A f \in Farms : (\A u \in Users : Change(f, u)) /\ Balanced(f) /\ SnapshotsMove(f)

\* A step that leaves every farmer and every stake alone.
LEMMA FarmersStill ==
  ASSUME Typed, UNCHANGED <<farmer, stakeVault>>
  PROVE  /\ FarmersTyped'
         /\ \A f \in Farms : (\A u \in Users : Change(f, u)) /\ Balanced(f)
BY DEF Typed, FarmersTyped, Change, Balanced, Deposited, FarmerExists

\* A step that leaves every farm alone.
LEMMA FarmsStill ==
  ASSUME Typed, UNCHANGED farm
  PROVE  FarmsTyped' /\ \A f \in Farms : SnapshotsMove(f) /\ FarmExists(f)' = FarmExists(f)
BY DEF Typed, FarmsTyped, SnapshotsMove, FarmExists

\* A step that writes one farm.
LEMMA OneFarmChanges ==
  ASSUME Typed, NEW f \in Farms, NEW x, farm' = [farm EXCEPT ![f] = x],
         x # None, IsFarm(x), FarmExists(f) => x.snapshots = farm[f].snapshots,
         ~FarmExists(f) => x.snapshots = EmptyBuffer
  PROVE  /\ FarmsTyped'
         /\ \A g \in Farms : SnapshotsMove(g) /\ (FarmExists(g) => FarmExists(g)')
<1>1. DOMAIN farm = Farms /\ \A g \in Farms : farm[g] = None \/ IsFarm(farm[g])
  BY DEF Typed, FarmsTyped
<1>2. /\ DOMAIN farm' = Farms
      /\ \A g \in Farms : farm'[g] = IF g = f THEN x ELSE farm[g]
  BY <1>1
<1>3. FarmsTyped'
  BY <1>1, <1>2 DEF FarmsTyped
<1>4. ASSUME NEW g \in Farms PROVE SnapshotsMove(g) /\ (FarmExists(g) => FarmExists(g)')
  <2>1. CASE g = f
    BY <1>2, <2>1 DEF SnapshotsMove, FarmExists
  <2>2. CASE g # f
    BY <1>2, <2>2 DEF SnapshotsMove, FarmExists
  <2>3. QED
    BY <2>1, <2>2
<1>5. QED
  BY <1>3, <1>4

\* The farms that exist go on existing.
FarmsStay == \A g \in Farms : FarmExists(g) => FarmExists(g)'

\* A step leaves every other farmer alone.
OthersKeep(f, u) ==
  \A g \in Farms, v \in Users : g # f \/ v # u =>
    farmer'[g][v] = farmer[g][v] /\ Change(g, v) /\ Deposited(g, v)' = Deposited(g, v)

\* A step that writes one farmer.
LEMMA OneFarmerChanges ==
  ASSUME Typed, NEW f \in Farms, NEW u \in Users, NEW x,
         farmer' = [farmer EXCEPT ![f][u] = x],
         x = None \/ IsFarmer(x, Mints), FarmsStay, FarmExists(f)'
  PROVE  /\ FarmersTyped' /\ farmer'[f][u] = x /\ OthersKeep(f, u) /\ FarmersHaveFarms'
<1>1. DOMAIN farmer = Farms /\ \A g \in Farms : DOMAIN farmer[g] = Users
  BY DEF Typed, FarmersTyped
<1>2. /\ DOMAIN farmer' = Farms /\ \A g \in Farms : DOMAIN farmer'[g] = Users
      /\ farmer'[f][u] = x
      /\ \A g \in Farms, v \in Users : g # f \/ v # u => farmer'[g][v] = farmer[g][v]
  BY <1>1
<1>3. FarmersTyped'
  <2>1. ASSUME NEW g \in Farms, NEW v \in Users
        PROVE  farmer'[g][v] = None \/ IsFarmer(farmer'[g][v], Mints)
    <3>1. CASE g = f /\ v = u
      BY <1>2, <3>1
    <3>2. CASE g # f \/ v # u
      BY <1>2, <3>2 DEF Typed, FarmersTyped
    <3>3. QED
      BY <3>1, <3>2
  <2>2. QED
    BY <1>2, <2>1 DEF FarmersTyped
<1>4. \A g \in Farms, v \in Users : g # f \/ v # u =>
        farmer'[g][v] = farmer[g][v] /\ Change(g, v) /\ Deposited(g, v)' = Deposited(g, v)
  BY <1>2 DEF Change, Deposited, FarmerExists
<1>5. FarmersHaveFarms'
  BY <1>2 DEF Typed, FarmersHaveFarms, FarmerExists, FarmsStay
<1>6. QED
  BY <1>2, <1>3, <1>4, <1>5 DEF OthersKeep

-----------------------------------------------------------------------------
(* The admin's endpoints, and take_snapshot.                               *)

\* An account that does not exist is neither a farm nor a farmer.
LEMMA RecordsExist ==
  /\ \A x : IsFarm(x) => x # None
  /\ \A x : IsFarmer(x, Mints) => x # None
BY NoneAssumption DEF IsFarm, IsFarmer

\* A step that writes one farm and no farmer.
LEMMA FarmStep ==
  ASSUME Typed, NEW f \in Farms, NEW x, farm' = [farm EXCEPT ![f] = x], IsFarm(x),
         FarmExists(f) => x.snapshots = farm[f].snapshots,
         ~FarmExists(f) => x.snapshots = EmptyBuffer,
         UNCHANGED <<slot, farmer, stakeVault>>, BalancesTyped'
  PROVE  Step
<1>1. /\ FarmsTyped'
      /\ \A g \in Farms : SnapshotsMove(g) /\ (FarmExists(g) => FarmExists(g)')
  BY OneFarmChanges, RecordsExist, Zenon
<1>2. /\ FarmersTyped'
      /\ \A g \in Farms : (\A u \in Users : Change(g, u)) /\ Balanced(g)
  BY FarmersStill
<1>3. FarmersHaveFarms'
  BY <1>1 DEF Typed, FarmersHaveFarms, FarmerExists
<1>4. slot' >= slot
  BY DEF Typed, BalancesTyped
<1>5. QED
  BY <1>1, <1>2, <1>3, <1>4 DEF Step, Typed

\* The endpoints of the administrator, one by one.
LEMMA CreateFarmStep ==
  ASSUME Typed, NEW f \in Farms, NEW a \in Admins, CreateFarm(f, a) PROVE Step
<1> DEFINE x == [admin |-> a, snapshots |-> EmptyBuffer, minWindow |-> 0,
                 harvests |-> [m \in {} |-> NoPeriods]]
<1>1. /\ farm' = [farm EXCEPT ![f] = x] /\ ~FarmExists(f)
      /\ UNCHANGED <<slot, farmer, stakeVault, harvestVault, wallet, whitelist>>
  BY DEF CreateFarm
<1>2. EmptyBuffer \in Buffer
  <2>1. 0 \in Index
    BY DEF Index
  <2>2. Unwritten \in Snapshot
    BY DEF Unwritten, Snapshot, Slot
  <2>3. QED
    BY <2>1, <2>2 DEF EmptyBuffer, Buffer
<1>3. IsFarm(x)
  <2>1. x \in FarmOf({})
    BY <1>2 DEF FarmOf
  <2>2. QED
    BY <2>1 DEF IsFarm
<1>4. x.snapshots = EmptyBuffer
  OBVIOUS
<1>5. BalancesTyped'
  BY <1>1 DEF Typed, BalancesTyped
<1> HIDE DEF x
<1>6. QED
  BY <1>1, <1>3, <1>4, <1>5, FarmStep, Zenon

\* The new owner.
LEMMA SetFarmOwnerStep ==
  ASSUME Typed, NEW f \in Farms, NEW a \in Admins, SetFarmOwner(f, a) PROVE Step
<1> DEFINE x == [farm[f] EXCEPT !.admin = a]
<1>1. /\ farm' = [farm EXCEPT ![f] = x] /\ FarmExists(f)
      /\ UNCHANGED <<slot, farmer, stakeVault, harvestVault, wallet, whitelist>>
  BY DEF SetFarmOwner
<1>2. IsFarm(x) /\ x.snapshots = farm[f].snapshots
  BY <1>1, ExistingFarm DEF FarmOf, IsFarm
<1>3. BalancesTyped'
  BY <1>1 DEF Typed, BalancesTyped
<1> HIDE DEF x
<1>4. QED
  BY <1>1, <1>2, <1>3, FarmStep, Zenon

\* The new window.
LEMMA SetMinSnapshotWindowStep ==
  ASSUME Typed, NEW f \in Farms, NEW w \in Windows, SetMinSnapshotWindow(f, w) PROVE Step
<1> DEFINE x == [farm[f] EXCEPT !.minWindow = w]
<1>1. /\ farm' = [farm EXCEPT ![f] = x] /\ FarmExists(f)
      /\ UNCHANGED <<slot, farmer, stakeVault, harvestVault, wallet, whitelist>>
  BY DEF SetMinSnapshotWindow
<1>2. IsFarm(x) /\ x.snapshots = farm[f].snapshots
  <2>1. w \in Nat
    OBVIOUS
  <2>2. QED
    BY <1>1, <2>1, ExistingFarm DEF FarmOf, IsFarm
<1>3. BalancesTyped'
  BY <1>1 DEF Typed, BalancesTyped
<1> HIDE DEF x
<1>4. QED
  BY <1>1, <1>2, <1>3, FarmStep, Zenon

\* A farm with other harvests is a farm.
LEMMA OtherHarvests ==
  ASSUME Typed, NEW f \in Farms, FarmExists(f), NEW hs, hs \subseteq Mints,
         NEW h \in [hs -> Periods]
  PROVE  /\ IsFarm([farm[f] EXCEPT !.harvests = h])
         /\ [farm[f] EXCEPT !.harvests = h].snapshots = farm[f].snapshots
<1>1. PICK ks \in SUBSET Mints : farm[f] \in FarmOf(ks)
  BY ExistingFarm
<1>2. [farm[f] EXCEPT !.harvests = h] \in FarmOf(hs)
  BY <1>1 DEF FarmOf
<1>3. QED
  BY <1>1, <1>2 DEF FarmOf, IsFarm

\* A new harvest.
LEMMA AddHarvestStep ==
  ASSUME Typed, NEW f \in Farms, NEW m \in Mints, AddHarvest(f, m) PROVE Step
<1> DEFINE old == farm[f].harvests
           h == [x \in DOMAIN old \cup {m} |-> IF x = m THEN NoPeriods ELSE old[x]]
           x == [farm[f] EXCEPT !.harvests = h]
<1>1. /\ farm' = [farm EXCEPT ![f] = x] /\ FarmExists(f)
      /\ UNCHANGED <<slot, farmer, stakeVault, harvestVault, wallet, whitelist>>
  BY DEF AddHarvest
<1>2. PICK hs \in SUBSET Mints : old \in [hs -> Periods]
  BY <1>1, ExistingFarm, Zenon DEF FarmOf
<1>3. h \in [hs \cup {m} -> Periods]
  <2>1. NoPeriods \in Periods
    BY DEF NoPeriods, NoPeriod, Periods, Period
  <2>2. QED
    BY <1>2, <2>1
<1>4. IsFarm(x) /\ x.snapshots = farm[f].snapshots
  <2>1. hs \cup {m} \subseteq Mints
    OBVIOUS
  <2> HIDE DEF h
  <2>2. QED
    BY <1>1, <1>3, <2>1, OtherHarvests, Zenon
<1>5. BalancesTyped'
  BY <1>1 DEF Typed, BalancesTyped
<1> HIDE DEF x
<1>6. QED
  BY <1>1, <1>4, <1>5, FarmStep, Zenon

\* A harvest less.
LEMMA RemoveHarvestStep ==
  ASSUME Typed, NEW f \in Farms, NEW m \in Mints, RemoveHarvest(f, m) PROVE Step
<1> DEFINE old == farm[f].harvests
           h == [x \in DOMAIN old \ {m} |-> old[x]]
           x == [farm[f] EXCEPT !.harvests = h]
<1>1. /\ farm' = [farm EXCEPT ![f] = x] /\ FarmExists(f)
      /\ UNCHANGED <<slot, farmer, stakeVault, harvestVault, wallet, whitelist>>
  BY DEF RemoveHarvest, HasHarvest
<1>2. PICK hs \in SUBSET Mints : old \in [hs -> Periods]
  BY <1>1, ExistingFarm, Zenon DEF FarmOf
<1>3. h \in [hs \ {m} -> Periods]
  BY <1>2
<1>4. IsFarm(x) /\ x.snapshots = farm[f].snapshots
  <2>1. hs \ {m} \subseteq Mints
    OBVIOUS
  <2> HIDE DEF h
  <2>2. QED
    BY <1>1, <1>3, <2>1, OtherHarvests, Zenon
<1>5. BalancesTyped'
  BY <1>1 DEF Typed, BalancesTyped
<1> HIDE DEF x
<1>6. QED
  BY <1>1, <1>4, <1>5, FarmStep, Zenon

\* The endpoint's charge never takes more than a wallet or a vault holds.
LEMMA NewHarvestPeriodStep ==
  ASSUME Typed, NEW f \in Farms, NEW m \in Mints, NEW at \in Starts, NEW n \in Lengths,
         NEW tps \in Rates, NewHarvestPeriod(f, m, at, n, tps)
  PROVE  Step
<1> DEFINE ps       == farm[f].harvests[m]
           startsAt == IF at = 0 THEN slot ELSE at
           p        == [tps |-> tps, startsAt |-> startsAt, endsAt |-> startsAt + n - 1]
           charge   == TotalEmitted(p) - DepositedFor(ps)
           admin    == farm[f].admin
           h        == [farm[f].harvests EXCEPT ![m] = SetPeriod(ps, slot, p)]
           x        == [farm[f] EXCEPT !.harvests = h]
<1>1. /\ HasHarvest(f, m) /\ n # 0 /\ startsAt >= slot
      /\ charge <= wallet[admin][m] /\ -charge <= harvestVault[f][m]
      /\ farm' = [farm EXCEPT ![f] = x]
      /\ wallet' = [wallet EXCEPT ![admin][m] = @ - charge]
      /\ harvestVault' = [harvestVault EXCEPT ![f][m] = @ + charge]
      /\ UNCHANGED <<slot, farmer, stakeVault, whitelist>>
  BY DEF NewHarvestPeriod
<1>2. FarmExists(f) /\ m \in DOMAIN farm[f].harvests
  BY <1>1 DEF HasHarvest
<1>3. PICK hs \in SUBSET Mints : farm[f] \in FarmOf(hs)
  BY <1>2, ExistingFarm
<1>4. farm[f].harvests \in [hs -> Periods] /\ m \in hs /\ admin \in Admins /\ ps \in Periods
  BY <1>2, <1>3 DEF FarmOf
<1>5. n \in Nat /\ tps \in Nat /\ slot \in Nat /\ at \in Int
  BY DEF Typed, BalancesTyped, Starts
<1>6. p \in Period
  <2>1. startsAt \in Int
    BY <1>5
  <2>2. startsAt >= slot /\ n # 0
    BY <1>1
  <2> HIDE DEF startsAt
  <2>3. startsAt \in Nat /\ startsAt + n - 1 \in Nat
    BY <1>5, <2>1, <2>2
  <2>4. QED
    BY <1>5, <2>3 DEF Period
<1>7. charge \in Int
  <2>1. \A q \in Period : TotalEmitted(q) \in Int
    <3>1. ASSUME NEW q \in Period PROVE TotalEmitted(q) \in Int
      <4>1. q.endsAt - q.startsAt + 1 \in Int /\ q.tps \in Int
        BY DEF Period
      <4>2. \A a, b \in Int : a * b \in Int
        OBVIOUS
      <4>3. QED
        BY <4>1, <4>2 DEF TotalEmitted
    <3>2. QED
      BY <3>1
  <2>2. ps[1] \in Period
    BY <1>4 DEF Periods
  <2>3. TotalEmitted(p) \in Int /\ TotalEmitted(ps[1]) \in Int
    BY <1>6, <2>1, <2>2
  <2> HIDE DEF p, ps
  <2>4. DepositedFor(ps) \in Int
    BY <2>3 DEF DepositedFor
  <2>5. QED
    BY <2>3, <2>4
<1>8. h \in [hs -> Periods]
  <2>1. SetPeriod(ps, slot, p) \in Periods
    <3> HIDE DEF p, ps
    <3>1. [ps EXCEPT ![1] = p] \in Periods
      BY <1>4, <1>6 DEF Periods
    <3>2. \A i \in 1 .. PeriodsLen : (IF i = 1 THEN p ELSE ps[i - 1]) \in Period
      BY <1>4, <1>6 DEF Periods
    <3>3. QED
      BY <3>1, <3>2 DEF SetPeriod, Periods
  <2> HIDE DEF p, ps
  <2>2. QED
    BY <1>4, <2>1
<1> HIDE DEF charge, h
<1>9. IsFarm(x) /\ x.snapshots = farm[f].snapshots
  BY <1>2, <1>8, OtherHarvests, Zenon
<1>10. BalancesTyped'
  <2>1. /\ wallet \in [Owners -> [Mints -> Nat]] /\ harvestVault \in [Farms -> [Mints -> Nat]]
        /\ admin \in Owners
    BY <1>4 DEF Typed, BalancesTyped, Owners
  <2> HIDE DEF admin
  <2>2. wallet[admin][m] - charge \in Nat /\ harvestVault[f][m] + charge \in Nat
    BY <1>1, <1>7, <2>1
  <2>3. wallet' \in [Owners -> [Mints -> Nat]] /\ harvestVault' \in [Farms -> [Mints -> Nat]]
    BY <1>1, <2>1, <2>2
  <2>4. QED
    BY <1>1, <2>3 DEF Typed, BalancesTyped
<1> HIDE DEF x
<1>11. QED
  BY <1>1, <1>2, <1>9, <1>10, FarmStep, Zenon

\* Snapshots are taken of well-formed rings.
LEMMA TakeSnapshotStep ==
  ASSUME Typed, NEW f \in Farms, TakeSnapshot(f) PROVE Step
<1> DEFINE b == Push(farm[f].snapshots, stakeVault[f], slot)
           x == [farm[f] EXCEPT !.snapshots = b]
<1>1. /\ farm' = [farm EXCEPT ![f] = x] /\ FarmExists(f)
      /\ UNCHANGED <<slot, farmer, stakeVault, harvestVault, wallet, whitelist>>
  BY DEF TakeSnapshot
<1>2. PICK hs \in SUBSET Mints : farm[f] \in FarmOf(hs)
  BY <1>1, ExistingFarm
<1>3. b \in Buffer
  <2>1. farm[f].snapshots \in Buffer /\ stakeVault[f] \in Nat /\ slot \in Nat
    BY <1>2 DEF FarmOf, Typed, BalancesTyped
  <2>2. QED
    BY <2>1, PushType
<1> HIDE DEF b
<1>4. IsFarm(x)
  <2>1. x \in FarmOf(hs)
    BY <1>2, <1>3, Zenon DEF FarmOf
  <2>2. QED
    BY <2>1 DEF IsFarm
<1> HIDE DEF x
<1>5. /\ DOMAIN farm = Farms
      /\ \A g \in Farms : farm[g] = None \/ IsFarm(farm[g])
  BY DEF Typed, FarmsTyped
<1>6. /\ DOMAIN farm' = Farms
      /\ \A g \in Farms : farm'[g] = IF g = f THEN x ELSE farm[g]
  BY <1>1, <1>5
<1>7. FarmsTyped' /\ \A g \in Farms : FarmExists(g) => FarmExists(g)'
  BY <1>4, <1>5, <1>6, RecordsExist DEF FarmsTyped, FarmExists
<1>8. \A g \in Farms : SnapshotsMove(g)
  BY <1>6 DEF SnapshotsMove, FarmExists
<1>9. /\ FarmersTyped'
      /\ \A g \in Farms : (\A u \in Users : Change(g, u)) /\ Balanced(g)
  BY <1>1, FarmersStill
<1>10. FarmersHaveFarms' /\ BalancesTyped' /\ slot' >= slot
  BY <1>1, <1>7 DEF Typed, FarmersHaveFarms, FarmerExists, BalancesTyped
<1>11. QED
  BY <1>7, <1>8, <1>9, <1>10 DEF Step, Typed

\* The whitelist is no part of a farm.
LEMMA WhitelistStep ==
  ASSUME Typed, NEW f \in Farms, NEW g \in Farms,
         \/ <<f, g>> \in Pairs /\ WhitelistFarmForCompounding(f, g)
         \/ DewhitelistFarmForCompounding(f, g)
  PROVE  Step
<1>1. /\ UNCHANGED <<slot, farm, farmer, stakeVault, harvestVault, wallet>>
      /\ whitelist' \subseteq Pairs
  BY Zenon DEF Typed, BalancesTyped, WhitelistFarmForCompounding, DewhitelistFarmForCompounding
<1>2. BalancesTyped' /\ slot' >= slot
  BY <1>1 DEF Typed, BalancesTyped
<1>3. FarmsTyped' /\ \A x \in Farms : SnapshotsMove(x) /\ FarmExists(x)' = FarmExists(x)
  BY <1>1, FarmsStill
<1>4. /\ FarmersTyped'
      /\ \A x \in Farms : (\A u \in Users : Change(x, u)) /\ Balanced(x)
  BY <1>1, FarmersStill
<1>5. FarmersHaveFarms'
  BY <1>1 DEF Typed, FarmersHaveFarms, FarmerExists, FarmExists
<1>6. QED
  BY <1>2, <1>3, <1>4, <1>5 DEF Step, Typed

-----------------------------------------------------------------------------
(* The farmers' endpoints.                                                 *)

Total(x) == IF x = None THEN 0 ELSE TotalDeposited(x)

\* What a farmer that exists has deposited is a number.
LEMMA TotalType ==
  ASSUME NEW x, IsFarmer(x, Mints) PROVE TotalDeposited(x) \in Nat
BY DEF IsFarmer, FarmerOf, TotalDeposited

\* A step that writes one farmer, and a stake vault by as much as the farmer's
\* deposit.
LEMMA FarmerStep ==
  ASSUME Typed, NEW f \in Farms, NEW u \in Users, NEW x, NEW y,
         farmer' = [farmer EXCEPT ![f][u] = x],
         stakeVault' = [stakeVault EXCEPT ![f] = y],
         x = None \/ IsFarmer(x, Mints), FarmExists(f),
         y + Deposited(f, u) = stakeVault[f] + Total(x),
         Change(f, u), UNCHANGED <<slot, farm>>, BalancesTyped'
  PROVE  Step
<1>1. FarmExists(f)' /\ FarmsStay
  BY DEF FarmExists, FarmsStay
<1>2. FarmersTyped' /\ farmer'[f][u] = x /\ OthersKeep(f, u) /\ FarmersHaveFarms'
  BY <1>1, OneFarmerChanges, Zenon
<1>3. Deposited(f, u)' = Total(x)
  BY <1>2 DEF Deposited, FarmerExists, Total
<1>4. stakeVault \in [Farms -> Nat]
  BY DEF Typed, BalancesTyped
<1>5. ASSUME NEW g \in Farms PROVE Balanced(g)
  <2>1. CASE g = f
    BY <1>2, <1>3, <1>4, <2>1 DEF Balanced, OthersKeep
  <2>2. CASE g # f
    BY <1>2, <1>4, <2>2 DEF Balanced, OthersKeep
  <2>3. QED
    BY <2>1, <2>2
<1>6. FarmsTyped' /\ \A g \in Farms : SnapshotsMove(g)
  BY FarmsStill
<1>7. slot' >= slot
  BY DEF Typed, BalancesTyped
<1>8. QED
  BY <1>1, <1>2, <1>5, <1>6, <1>7 DEF Step, Typed, OthersKeep, FarmsStay

\* What an update returns for a farmer of the program.
LEMMA UpdatedEffect ==
  ASSUME Typed, NEW f \in Farms, NEW u \in Users, FarmerExists(f, u), NEW current \in Nat,
         Updated(f, u, current).ok
  PROVE  /\ IsUpdateOf(farmer[f][u], farm[f], current, Updated(f, u, current).farmer)
         /\ TotalDeposited(Updated(f, u, current).farmer) = TotalDeposited(farmer[f][u])
         /\ FarmExists(f)
         /\ Deposited(f, u) = TotalDeposited(farmer[f][u])
<1>1. PICK ms \in SUBSET Mints : farmer[f][u] \in FarmerOf(ms)
  BY ExistingFarmer
<1>2. FarmExists(f)
  BY ExistingFarmer
<1>3. PICK hs \in SUBSET Mints : farm[f] \in FarmOf(hs)
  BY <1>2, ExistingFarm
<1>4. CheckVestedAndUpdate(farmer[f][u], farm[f], current).ok
  BY DEF Updated
<1>5. IsUpdateOf(farmer[f][u], farm[f], current,
                 CheckVestedAndUpdate(farmer[f][u], farm[f], current).farmer)
  BY <1>1, <1>3, <1>4, UpdateEffect
<1>6. IsUpdateOf(farmer[f][u], farm[f], current, Updated(f, u, current).farmer)
  BY <1>5 DEF Updated
<1>7. TotalDeposited(Updated(f, u, current).farmer) = TotalDeposited(farmer[f][u])
  BY <1>1, <1>6, UpdateTotal
<1>8. QED
  BY <1>2, <1>6, <1>7 DEF Deposited

\* An update, followed by nothing that raises the stake, draws on the farmer.
LEMMA UpdatesDraw ==
  ASSUME NEW ms, NEW old \in FarmerOf(ms), NEW fm, NEW current \in Nat,
         NEW mid, IsUpdateOf(old, fm, current, mid), NEW new, IsFarmer(new, Mints),
         new.staked <= mid.staked, new.vested <= mid.vested,
         new.vestedAt = mid.vestedAt, new.nextFrom = mid.nextFrom
  PROVE  Draws(old, fm, new)
<1>1. old.staked \in Nat /\ old.vested \in Nat
  BY DEF FarmerOf
<1>2. new.staked \in Nat /\ new.vested \in Nat
  BY DEF IsFarmer, FarmerOf
<1>3. new.vestedAt = old.vestedAt
  BY DEF IsUpdateOf
<1>4. CASE /\ EndOfVesting(old, fm) = {}
           /\ mid.staked = old.staked /\ mid.vested = old.vested
           /\ mid.nextFrom >= old.nextFrom
  BY <1>3, <1>4 DEF Draws
<1>5. CASE /\ mid.staked = old.staked + old.vested /\ mid.vested = 0
           /\ \E s \in EndOfVesting(old, fm) : mid.nextFrom >= s.startedAt
  BY <1>1, <1>2, <1>3, <1>5 DEF Draws
<1>6. QED
  BY <1>4, <1>5 DEF IsUpdateOf

\* A farmer that is updated and then given vesting tokens.
LEMMA UpdatesStake ==
  ASSUME NEW ms, NEW old \in FarmerOf(ms), NEW fm, NEW current \in Nat,
         NEW mid, IsUpdateOf(old, fm, current, mid), NEW tokens \in Nat, NEW new,
         new.staked = mid.staked, new.vested = mid.vested + tokens,
         new.vestedAt = current, new.nextFrom = mid.nextFrom
  PROVE  Stakes(old, fm, current, new)
<1>1. old.staked \in Nat /\ old.vested \in Nat
  BY DEF FarmerOf
<1>2. new.vestedAt = current /\ new.nextFrom >= current
  BY DEF IsUpdateOf
<1>3. CASE /\ EndOfVesting(old, fm) = {}
           /\ mid.staked = old.staked /\ mid.vested = old.vested
           /\ mid.nextFrom >= old.nextFrom
  BY <1>1, <1>2, <1>3 DEF Stakes
<1>4. CASE /\ mid.staked = old.staked + old.vested /\ mid.vested = 0
           /\ \E s \in EndOfVesting(old, fm) : mid.nextFrom >= s.startedAt
  BY <1>1, <1>2, <1>4 DEF Stakes
<1>5. QED
  BY <1>3, <1>4 DEF IsUpdateOf

\* A step that leaves the balances alone.
LEMMA BalancesStill ==
  ASSUME Typed, UNCHANGED <<slot, stakeVault, harvestVault, wallet, whitelist>>
  PROVE  BalancesTyped' /\ \A f \in Farms : stakeVault' = [stakeVault EXCEPT ![f] = stakeVault[f]]
BY DEF Typed, BalancesTyped

\* The endpoints of a user, one by one.
LEMMA CreateFarmerStep ==
  ASSUME Typed, NEW f \in Farms, NEW u \in Users, CreateFarmer(f, u) PROVE Step
<1> DEFINE x == NewFarmer(DOMAIN farm[f].harvests)
<1>1. /\ FarmExists(f) /\ ~FarmerExists(f, u)
      /\ farmer' = [farmer EXCEPT ![f][u] = x]
      /\ UNCHANGED <<slot, farm, stakeVault, harvestVault, wallet, whitelist>>
  BY DEF CreateFarmer
<1>2. PICK hs \in SUBSET Mints : farm[f] \in FarmOf(hs)
  BY <1>1, ExistingFarm
<1>3. x \in FarmerOf(hs) /\ x.staked = 0 /\ x.vested = 0
  <2>1. DOMAIN farm[f].harvests = hs
    BY <1>2 DEF FarmOf
  <2>2. QED
    BY <2>1 DEF NewFarmer, FarmerOf
<1> HIDE DEF x
<1>4. IsFarmer(x, Mints)
  BY <1>3 DEF IsFarmer
<1>5. Total(x) = 0 /\ Deposited(f, u) = 0
  BY <1>1, <1>3, <1>4, RecordsExist DEF Total, TotalDeposited, Deposited
<1>6. /\ BalancesTyped' /\ stakeVault' = [stakeVault EXCEPT ![f] = stakeVault[f]]
  BY <1>1, BalancesStill
<1>7. farmer'[f][u] = x
  BY <1>1 DEF Typed, FarmersTyped
<1>8. Change(f, u)
  BY <1>1, <1>3, <1>7 DEF Change
<1>9. stakeVault[f] + Deposited(f, u) = stakeVault[f] + Total(x)
  BY <1>5
<1>10. QED
  BY <1>1, <1>4, <1>6, <1>8, <1>9, FarmerStep, Zenon

\* An account is closed only without a deposit.
LEMMA CloseFarmerStep ==
  ASSUME Typed, NEW f \in Farms, NEW u \in Users, CloseFarmer(f, u) PROVE Step
<1>1. /\ FarmerExists(f, u) /\ TotalDeposited(farmer[f][u]) = 0
      /\ farmer' = [farmer EXCEPT ![f][u] = None]
      /\ UNCHANGED <<slot, farm, stakeVault, harvestVault, wallet, whitelist>>
  BY DEF CloseFarmer
<1>2. FarmExists(f)
  BY <1>1, ExistingFarmer
<1>3. /\ BalancesTyped' /\ stakeVault' = [stakeVault EXCEPT ![f] = stakeVault[f]]
  BY <1>1, BalancesStill
<1>4. farmer'[f][u] = None
  BY <1>1 DEF Typed, FarmersTyped
<1>5. Change(f, u)
  BY <1>1, <1>4 DEF Change
<1>6. stakeVault[f] + Deposited(f, u) = stakeVault[f] + Total(None)
  BY <1>1 DEF Total, Deposited
<1>7. QED
  BY <1>1, <1>2, <1>3, <1>5, <1>6, FarmerStep, Zenon

\* An update.
LEMMA UpdateStep ==
  ASSUME Typed, NEW f \in Farms, NEW u \in Users, NEW until \in Nat,
         UpdateEligibleHarvestUntil(f, u, until)
  PROVE  Step
<1> DEFINE current == Smaller(slot, until)
           x == Updated(f, u, current).farmer
<1>1. /\ FarmerExists(f, u) /\ Updated(f, u, current).ok
      /\ farmer' = [farmer EXCEPT ![f][u] = x]
      /\ UNCHANGED <<slot, farm, stakeVault, harvestVault, wallet, whitelist>>
  BY DEF UpdateEligibleHarvestUntil
<1>2. current \in Nat
  BY DEF Smaller, Typed, BalancesTyped
<1> HIDE DEF current
<1>3. /\ IsUpdateOf(farmer[f][u], farm[f], current, x)
      /\ TotalDeposited(x) = TotalDeposited(farmer[f][u])
      /\ FarmExists(f) /\ Deposited(f, u) = TotalDeposited(farmer[f][u])
  BY <1>1, <1>2, UpdatedEffect
<1> HIDE DEF x
<1>4. IsFarmer(x, Mints)
  BY <1>3 DEF IsUpdateOf
<1>5. /\ BalancesTyped' /\ stakeVault' = [stakeVault EXCEPT ![f] = stakeVault[f]]
  BY <1>1, BalancesStill
<1>6. farmer'[f][u] = x
  BY <1>1 DEF Typed, FarmersTyped
<1>7. Change(f, u)
  <2>1. PICK ms \in SUBSET Mints : farmer[f][u] \in FarmerOf(ms)
    BY <1>1, ExistingFarmer
  <2>2. x.staked <= x.staked /\ x.vested <= x.vested
    BY <1>4 DEF IsFarmer, FarmerOf
  <2>3. Draws(farmer[f][u], farm[f], x)
    BY <1>2, <1>3, <1>4, <2>1, <2>2, UpdatesDraw
  <2>4. QED
    BY <1>1, <1>6, <2>3 DEF Change
<1>8. stakeVault[f] + Deposited(f, u) = stakeVault[f] + Total(x)
  BY <1>3, <1>4, RecordsExist DEF Total
<1>9. QED
  BY <1>1, <1>3, <1>4, <1>5, <1>7, <1>8, FarmerStep, Zenon

\* A deposit after an update.
LEMMA StartFarmingStep ==
  ASSUME Typed, NEW f \in Farms, NEW u \in Users, NEW stake \in StakeAmounts,
         StartFarming(f, u, stake)
  PROVE  Step
<1> DEFINE m == StakeMint[f]
           mid == Updated(f, u, slot).farmer
           x == AddToVested(mid, slot, stake)
<1>1. /\ FarmerExists(f, u) /\ Updated(f, u, slot).ok /\ stake <= wallet[u][m]
      /\ farmer' = [farmer EXCEPT ![f][u] = x]
      /\ wallet' = [wallet EXCEPT ![u][m] = @ - stake]
      /\ stakeVault' = [stakeVault EXCEPT ![f] = @ + stake]
      /\ UNCHANGED <<slot, farm, harvestVault, whitelist>>
  BY DEF StartFarming
<1>2. slot \in Nat /\ stake \in Nat /\ m \in Mints
  BY DEF Typed, BalancesTyped
<1>3. /\ IsUpdateOf(farmer[f][u], farm[f], slot, mid)
      /\ TotalDeposited(mid) = TotalDeposited(farmer[f][u])
      /\ FarmExists(f) /\ Deposited(f, u) = TotalDeposited(farmer[f][u])
  BY <1>1, <1>2, UpdatedEffect
<1> HIDE DEF mid
<1>4. PICK ms \in SUBSET Mints : mid \in FarmerOf(ms)
  BY <1>3 DEF IsUpdateOf, IsFarmer
<1>5. /\ x \in FarmerOf(ms) /\ x.staked = mid.staked /\ x.vested = mid.vested + stake
      /\ x.vestedAt = slot /\ x.nextFrom = mid.nextFrom
      /\ TotalDeposited(x) = TotalDeposited(mid) + stake
  <2>1. mid \in FarmerOf(ms) /\ slot \in Nat /\ stake \in Nat
    BY <1>2, <1>4
  <2>2. QED
    BY ONLY <2>1, AddToVestedEffect
<1> HIDE DEF x
<1>6. IsFarmer(x, Mints)
  BY <1>5 DEF IsFarmer
<1>7. farmer'[f][u] = x
  BY <1>1 DEF Typed, FarmersTyped
<1>8. Change(f, u)
  <2>1. PICK ks \in SUBSET Mints : farmer[f][u] \in FarmerOf(ks)
    BY <1>1, ExistingFarmer
  <2>2. Stakes(farmer[f][u], farm[f], slot, x)
    BY <1>2, <1>3, <1>5, <2>1, UpdatesStake
  <2>3. QED
    BY <1>1, <1>7, <2>2 DEF Change
<1>9. BalancesTyped'
  <2>1. /\ wallet \in [Owners -> [Mints -> Nat]] /\ stakeVault \in [Farms -> Nat]
        /\ u \in Owners
    BY DEF Typed, BalancesTyped, Owners
  <2>2. wallet[u][m] - stake \in Nat /\ stakeVault[f] + stake \in Nat
    BY <1>1, <1>2, <2>1
  <2>3. wallet' \in [Owners -> [Mints -> Nat]] /\ stakeVault' \in [Farms -> Nat]
    BY <1>1, <2>1, <2>2
  <2>4. QED
    BY <1>1, <2>3 DEF Typed, BalancesTyped
<1>10. /\ stakeVault' = [stakeVault EXCEPT ![f] = stakeVault[f] + stake]
       /\ (stakeVault[f] + stake) + Deposited(f, u) = stakeVault[f] + Total(x)
  <2>1. stakeVault[f] \in Nat
    BY DEF Typed, BalancesTyped
  <2>2. TotalDeposited(mid) \in Nat
    BY <1>3, TotalType DEF IsUpdateOf
  <2>3. Total(x) = TotalDeposited(x)
    BY <1>6, RecordsExist DEF Total
  <2>4. QED
    BY <1>1, <1>2, <1>3, <1>5, <2>1, <2>2, <2>3
<1>11. QED
  BY <1>1, <1>3, <1>6, <1>8, <1>9, <1>10, FarmerStep, Zenon

\* A withdrawal after an update.
LEMMA StopFarmingStep ==
  ASSUME Typed, NEW f \in Farms, NEW u \in Users, NEW max \in UnstakeAmounts,
         StopFarming(f, u, max)
  PROVE  Step
<1> DEFINE m == StakeMint[f]
           mid == Updated(f, u, slot).farmer
           got == UnstakedAmount(mid, max)
           x == Unstake(mid, max)
<1>1. /\ FarmerExists(f, u) /\ Updated(f, u, slot).ok /\ got <= stakeVault[f]
      /\ farmer' = [farmer EXCEPT ![f][u] = x]
      /\ stakeVault' = [stakeVault EXCEPT ![f] = @ - got]
      /\ wallet' = [wallet EXCEPT ![u][m] = @ + got]
      /\ UNCHANGED <<slot, farm, harvestVault, whitelist>>
  BY DEF StopFarming
<1>2. slot \in Nat /\ max \in Nat /\ m \in Mints
  BY DEF Typed, BalancesTyped
<1>3. /\ IsUpdateOf(farmer[f][u], farm[f], slot, mid)
      /\ TotalDeposited(mid) = TotalDeposited(farmer[f][u])
      /\ FarmExists(f) /\ Deposited(f, u) = TotalDeposited(farmer[f][u])
  BY <1>1, <1>2, UpdatedEffect
<1> HIDE DEF mid
<1>4. PICK ms \in SUBSET Mints : mid \in FarmerOf(ms)
  BY <1>3 DEF IsUpdateOf, IsFarmer
<1>5. /\ x \in FarmerOf(ms) /\ x.staked <= mid.staked /\ x.vested <= mid.vested
      /\ x.vestedAt = mid.vestedAt /\ x.nextFrom = mid.nextFrom
      /\ got \in Nat /\ TotalDeposited(mid) = TotalDeposited(x) + got
  BY <1>2, <1>4, UnstakeEffect
<1> HIDE DEF x, got
<1>6. IsFarmer(x, Mints)
  BY <1>5 DEF IsFarmer
<1>7. farmer'[f][u] = x
  BY <1>1 DEF Typed, FarmersTyped
<1>8. Change(f, u)
  <2>1. PICK ks \in SUBSET Mints : farmer[f][u] \in FarmerOf(ks)
    BY <1>1, ExistingFarmer
  <2>2. Draws(farmer[f][u], farm[f], x)
    BY <1>2, <1>3, <1>5, <1>6, <2>1, UpdatesDraw
  <2>3. QED
    BY <1>1, <1>7, <2>2 DEF Change
<1>9. BalancesTyped'
  <2>1. /\ wallet \in [Owners -> [Mints -> Nat]] /\ stakeVault \in [Farms -> Nat]
        /\ u \in Owners
    BY DEF Typed, BalancesTyped, Owners
  <2>2. wallet[u][m] + got \in Nat /\ stakeVault[f] - got \in Nat
    BY <1>1, <1>2, <1>5, <2>1
  <2>3. wallet' \in [Owners -> [Mints -> Nat]] /\ stakeVault' \in [Farms -> Nat]
    BY <1>1, <2>1, <2>2
  <2>4. QED
    BY <1>1, <2>3 DEF Typed, BalancesTyped
<1>10. /\ stakeVault' = [stakeVault EXCEPT ![f] = stakeVault[f] - got]
       /\ (stakeVault[f] - got) + Deposited(f, u) = stakeVault[f] + Total(x)
  <2>1. stakeVault[f] \in Nat
    BY DEF Typed, BalancesTyped
  <2>2. TotalDeposited(x) \in Nat
    BY <1>6, TotalType
  <2>3. Total(x) = TotalDeposited(x)
    BY <1>6, RecordsExist DEF Total
  <2>4. QED
    BY <1>1, <1>3, <1>5, <2>1, <2>2, <2>3
<1>11. QED
  BY <1>1, <1>3, <1>6, <1>8, <1>9, <1>10, FarmerStep, Zenon

\* A step that writes only the credit of a farmer.
WritesCredit(f, u, h) ==
  /\ FarmerExists(f, u)
  /\ \E ms \in SUBSET Mints : farmer[f][u] \in FarmerOf(ms) /\ h \in [ms -> Nat]
  /\ farmer' = [farmer EXCEPT ![f][u].harvests = h]
  /\ UNCHANGED <<slot, farm, stakeVault>>

\* Only the credit of a farmer changes.
LEMMA CreditStep ==
  ASSUME Typed, NEW f \in Farms, NEW u \in Users, NEW h, WritesCredit(f, u, h), BalancesTyped'
  PROVE  Step
<1>1. PICK ms \in SUBSET Mints : farmer[f][u] \in FarmerOf(ms) /\ h \in [ms -> Nat]
  BY DEF WritesCredit
<1>2. FarmerExists(f, u) /\ UNCHANGED <<slot, farm, stakeVault>>
  BY DEF WritesCredit
<1> DEFINE x == [farmer[f][u] EXCEPT !.harvests = h]
<1>3. farmer' = [farmer EXCEPT ![f][u] = x]
  BY DEF WritesCredit
<1>4. x \in FarmerOf(ms) /\ Keeps(farmer[f][u], x)
  BY <1>1 DEF FarmerOf, Keeps
<1> HIDE DEF x
<1>5. IsFarmer(x, Mints)
  BY <1>4 DEF IsFarmer
<1>6. FarmExists(f)
  BY <1>2, ExistingFarmer
<1>7. stakeVault' = [stakeVault EXCEPT ![f] = stakeVault[f]]
  BY <1>2 DEF Typed, BalancesTyped
<1>8. farmer'[f][u] = x
  BY <1>3 DEF Typed, FarmersTyped
<1>9. Change(f, u)
  BY <1>2, <1>4, <1>8 DEF Change
<1>10. stakeVault[f] + Deposited(f, u) = stakeVault[f] + Total(x)
  BY <1>2, <1>4, <1>5, KeepsTotal, RecordsExist DEF Total, Deposited
<1>11. QED
  BY <1>2, <1>3, <1>5, <1>6, <1>7, <1>9, <1>10, FarmerStep, Zenon

\* More credit.
LEMMA AirdropStep ==
  ASSUME Typed, NEW f \in Farms, NEW u \in Users, NEW m \in Mints,
         NEW amount \in AirdropAmounts, NEW payer \in Admins, Airdrop(f, u, m, amount, payer)
  PROVE  Step
<1>1. /\ FarmerExists(f, u) /\ m \in DOMAIN farmer[f][u].harvests
      /\ amount <= wallet[payer][m]
      /\ farmer' = [farmer EXCEPT ![f][u].harvests[m] = @ + amount]
      /\ wallet' = [wallet EXCEPT ![payer][m] = @ - amount]
      /\ harvestVault' = [harvestVault EXCEPT ![f][m] = @ + amount]
      /\ UNCHANGED <<slot, farm, stakeVault, whitelist>>
  BY DEF Airdrop
<1>2. PICK ms \in SUBSET Mints : farmer[f][u] \in FarmerOf(ms)
  BY <1>1, ExistingFarmer
<1>3. farmer[f][u].harvests \in [ms -> Nat] /\ m \in ms /\ amount \in Nat
  BY <1>1, <1>2 DEF FarmerOf
<1> DEFINE h == [farmer[f][u].harvests EXCEPT ![m] = @ + amount]
<1>4. h \in [ms -> Nat]
  BY <1>3
<1>5. farmer' = [farmer EXCEPT ![f][u].harvests = h]
  BY <1>1
<1> HIDE DEF h
<1>6. BalancesTyped'
  <2>1. /\ wallet \in [Owners -> [Mints -> Nat]] /\ harvestVault \in [Farms -> [Mints -> Nat]]
        /\ payer \in Owners
    BY DEF Typed, BalancesTyped, Owners
  <2>2. wallet[payer][m] - amount \in Nat /\ harvestVault[f][m] + amount \in Nat
    BY <1>1, <1>3, <2>1
  <2>3. wallet' \in [Owners -> [Mints -> Nat]] /\ harvestVault' \in [Farms -> [Mints -> Nat]]
    BY <1>1, <2>1, <2>2
  <2>4. QED
    BY <1>1, <2>3 DEF Typed, BalancesTyped
<1>7. WritesCredit(f, u, h)
  BY <1>1, <1>2, <1>4, <1>5, Zenon DEF WritesCredit
<1>8. QED
  BY <1>6, <1>7, CreditStep

\* Less credit.
LEMMA ClaimStep ==
  ASSUME Typed, NEW f \in Farms, NEW u \in Users, NEW ks \in SUBSET Mints,
         ClaimEligibleHarvest(f, u, ks)
  PROVE  Step
<1> DEFINE got == [m \in Mints |->
                     IF FarmerExists(f, u) /\ m \in ks \cap DOMAIN farmer[f][u].harvests
                       THEN farmer[f][u].harvests[m] ELSE 0]
           h == [m \in DOMAIN farmer[f][u].harvests |->
                   IF m \in ks THEN 0 ELSE farmer[f][u].harvests[m]]
<1>1. /\ FarmerExists(f, u)
      /\ \A m \in ks : got[m] <= harvestVault[f][m]
      /\ farmer' = [farmer EXCEPT ![f][u].harvests = h]
      /\ harvestVault' = [harvestVault EXCEPT ![f] = [m \in Mints |-> @[m] - got[m]]]
      /\ wallet' = [wallet EXCEPT ![u] = [m \in Mints |-> @[m] + got[m]]]
      /\ UNCHANGED <<slot, farm, stakeVault, whitelist>>
  BY Zenon DEF ClaimEligibleHarvest
<1>2. PICK ms \in SUBSET Mints : farmer[f][u] \in FarmerOf(ms)
  BY <1>1, ExistingFarmer
<1>3. farmer[f][u].harvests \in [ms -> Nat]
  BY <1>2 DEF FarmerOf
<1>4. h \in [ms -> Nat]
  BY <1>3
<1>5. got \in [Mints -> Nat] /\ \A m \in Mints \ ks : got[m] = 0
  BY <1>3
<1> HIDE DEF h, got
<1>6. BalancesTyped'
  <2>1. /\ wallet \in [Owners -> [Mints -> Nat]] /\ harvestVault \in [Farms -> [Mints -> Nat]]
        /\ u \in Owners
    BY DEF Typed, BalancesTyped, Owners
  <2>2. \A m \in Mints : wallet[u][m] + got[m] \in Nat
    BY <1>5, <2>1
  <2>3. \A m \in Mints : harvestVault[f][m] - got[m] \in Nat
    BY <1>1, <1>5, <2>1
  <2>4. wallet' \in [Owners -> [Mints -> Nat]] /\ harvestVault' \in [Farms -> [Mints -> Nat]]
    BY <1>1, <2>1, <2>2, <2>3
  <2>5. QED
    BY <1>1, <2>4 DEF Typed, BalancesTyped
<1>7. WritesCredit(f, u, h)
  BY <1>1, <1>2, <1>4 DEF WritesCredit
<1>8. QED
  BY <1>6, <1>7, CreditStep

\* Time passes.
LEMMA TickStep ==
  ASSUME Typed, Tick \/ UNCHANGED vars PROVE Step
<1>1. UNCHANGED <<farm, farmer, stakeVault, harvestVault, wallet, whitelist>>
      /\ (slot' = slot + 1 \/ slot' = slot)
  BY DEF Tick, vars
<1>2. slot' >= slot /\ BalancesTyped'
  BY <1>1 DEF Typed, BalancesTyped
<1>3. FarmsTyped' /\ \A x \in Farms : SnapshotsMove(x) /\ FarmExists(x)' = FarmExists(x)
  BY <1>1, FarmsStill
<1>4. /\ FarmersTyped'
      /\ \A x \in Farms : (\A u \in Users : Change(x, u)) /\ Balanced(x)
  BY <1>1, FarmersStill
<1>5. FarmersHaveFarms'
  BY <1>1 DEF Typed, FarmersHaveFarms, FarmerExists, FarmExists
<1>6. QED
  BY <1>2, <1>3, <1>4, <1>5 DEF Step, Typed

\* A deposit out of the farm itself.
LEMMA CompoundSameStep ==
  ASSUME Typed, NEW f \in Farms, NEW u \in Users, CompoundSameFarm(f, u) PROVE Step
<1> DEFINE m == StakeMint[f]
           mid == Updated(f, u, slot).farmer
           claimed == ClaimHarvest(mid, m)
           got == mid.harvests[m]
           x == AddToVested(claimed, slot, got)
<1>1. /\ FarmerExists(f, u) /\ Updated(f, u, slot).ok
      /\ m \in DOMAIN mid.harvests /\ got <= harvestVault[f][m]
      /\ farmer' = [farmer EXCEPT ![f][u] = x]
      /\ harvestVault' = [harvestVault EXCEPT ![f][m] = @ - got]
      /\ stakeVault' = [stakeVault EXCEPT ![f] = @ + got]
      /\ UNCHANGED <<slot, farm, wallet, whitelist>>
  BY DEF CompoundSameFarm
<1>2. slot \in Nat /\ m \in Mints
  BY DEF Typed, BalancesTyped
<1>3. /\ IsUpdateOf(farmer[f][u], farm[f], slot, mid)
      /\ TotalDeposited(mid) = TotalDeposited(farmer[f][u])
      /\ FarmExists(f) /\ Deposited(f, u) = TotalDeposited(farmer[f][u])
  BY <1>1, <1>2, UpdatedEffect
<1> HIDE DEF mid
<1>4. PICK ms \in SUBSET Mints : mid \in FarmerOf(ms)
  BY <1>3 DEF IsUpdateOf, IsFarmer
<1>5. /\ claimed \in FarmerOf(ms) /\ Keeps(mid, claimed) /\ got \in Nat
  <2>1. m \in ms
    BY <1>1, <1>4 DEF FarmerOf
  <2>2. QED
    BY ONLY <1>4, <2>1, ClaimHarvestEffect
<1> HIDE DEF claimed, got
<1>6. /\ x \in FarmerOf(ms) /\ x.staked = claimed.staked /\ x.vested = claimed.vested + got
      /\ x.vestedAt = slot /\ x.nextFrom = claimed.nextFrom
      /\ TotalDeposited(x) = TotalDeposited(claimed) + got
  <2>1. claimed \in FarmerOf(ms) /\ slot \in Nat /\ got \in Nat
    BY <1>2, <1>5
  <2>2. QED
    BY ONLY <2>1, AddToVestedEffect
<1> HIDE DEF x
<1>7. /\ x.staked = mid.staked /\ x.vested = mid.vested + got
      /\ x.vestedAt = slot /\ x.nextFrom = mid.nextFrom
      /\ TotalDeposited(x) = TotalDeposited(mid) + got /\ IsFarmer(x, Mints)
  BY <1>5, <1>6, KeepsTotal DEF Keeps, IsFarmer
<1>8. farmer'[f][u] = x
  BY <1>1 DEF Typed, FarmersTyped
<1>9. Change(f, u)
  <2>1. PICK ks \in SUBSET Mints : farmer[f][u] \in FarmerOf(ks)
    BY <1>1, ExistingFarmer
  <2>2. Stakes(farmer[f][u], farm[f], slot, x)
    BY <1>2, <1>3, <1>5, <1>7, <2>1, UpdatesStake, Zenon
  <2>3. QED
    BY <1>1, <1>8, <2>2 DEF Change
<1>10. BalancesTyped'
  <2>1. harvestVault \in [Farms -> [Mints -> Nat]] /\ stakeVault \in [Farms -> Nat]
    BY DEF Typed, BalancesTyped
  <2>2. harvestVault[f][m] - got \in Nat /\ stakeVault[f] + got \in Nat
    BY <1>1, <1>2, <1>5, <2>1
  <2>3. harvestVault' \in [Farms -> [Mints -> Nat]] /\ stakeVault' \in [Farms -> Nat]
    BY <1>1, <2>1, <2>2
  <2>4. QED
    BY <1>1, <2>3 DEF Typed, BalancesTyped
<1>11. /\ stakeVault' = [stakeVault EXCEPT ![f] = stakeVault[f] + got]
       /\ (stakeVault[f] + got) + Deposited(f, u) = stakeVault[f] + Total(x)
  <2>1. stakeVault[f] \in Nat
    BY DEF Typed, BalancesTyped
  <2>2. TotalDeposited(mid) \in Nat
    BY <1>3, TotalType DEF IsUpdateOf
  <2>3. Total(x) = TotalDeposited(x)
    BY <1>7, RecordsExist DEF Total
  <2>4. QED
    BY <1>1, <1>3, <1>5, <1>7, <2>1, <2>2, <2>3
<1>12. QED
  BY <1>1, <1>3, <1>7, <1>9, <1>10, <1>11, FarmerStep, Zenon

\* Compounding across farms updates and claims from the one farmer, and gives
\* to the other, which is not updated.
LEMMA CompoundAcrossStep ==
  ASSUME Typed, NEW f \in Farms, NEW g \in Farms, NEW u \in Users,
         CompoundAcrossFarms(f, g, u)
  PROVE  Step
<1> DEFINE m == StakeMint[g]
           mid == Updated(f, u, slot).farmer
           claimed == ClaimHarvest(mid, m)
           got == mid.harvests[m]
           given == farmer[g][u]
           x == AddToVested(given, slot, got)
<1>1. /\ f # g /\ FarmerExists(f, u) /\ FarmerExists(g, u) /\ Updated(f, u, slot).ok
      /\ <<f, g>> \in whitelist
      /\ m \in DOMAIN mid.harvests /\ got <= harvestVault[f][m]
      /\ farmer' = [farmer EXCEPT ![f][u] = claimed, ![g][u] = AddToVested(@, slot, got)]
      /\ harvestVault' = [harvestVault EXCEPT ![f][m] = @ - got]
      /\ stakeVault' = [stakeVault EXCEPT ![g] = @ + got]
      /\ UNCHANGED <<slot, farm, wallet, whitelist>>
  BY DEF CompoundAcrossFarms
<1>2. slot \in Nat /\ m \in Mints
  BY DEF Typed, BalancesTyped
<1>3. Across
  <2>1. <<f, g>> \in Pairs
    BY <1>1 DEF Typed, BalancesTyped
  <2>2. <<f, g>>[1] # <<f, g>>[2]
    BY <1>1
  <2>3. QED
    BY ONLY <2>1, <2>2 DEF Across
<1>4. /\ IsUpdateOf(farmer[f][u], farm[f], slot, mid)
      /\ TotalDeposited(mid) = TotalDeposited(farmer[f][u])
      /\ Deposited(f, u) = TotalDeposited(farmer[f][u])
  BY <1>1, <1>2, UpdatedEffect
<1> HIDE DEF mid
<1>5. PICK ms \in SUBSET Mints : mid \in FarmerOf(ms)
  BY <1>4 DEF IsUpdateOf, IsFarmer
<1>6. /\ claimed \in FarmerOf(ms) /\ Keeps(mid, claimed) /\ got \in Nat
  <2>1. m \in ms
    BY <1>1, <1>5 DEF FarmerOf
  <2>2. QED
    BY ONLY <1>5, <2>1, ClaimHarvestEffect
<1> HIDE DEF claimed, got
<1>7. PICK ks \in SUBSET Mints : farmer[g][u] \in FarmerOf(ks)
  BY <1>1, ExistingFarmer
<1>8. /\ x \in FarmerOf(ks) /\ x.staked = farmer[g][u].staked
      /\ x.vested = farmer[g][u].vested + got
      /\ x.vestedAt = slot /\ x.nextFrom = farmer[g][u].nextFrom
      /\ TotalDeposited(x) = TotalDeposited(farmer[g][u]) + got
  <2>1. given \in FarmerOf(ks) /\ slot \in Nat /\ got \in Nat
    BY <1>2, <1>6, <1>7
  <2> HIDE DEF given
  <2>2. /\ x \in FarmerOf(ks) /\ x.staked = given.staked /\ x.vested = given.vested + got
        /\ x.vestedAt = slot /\ x.nextFrom = given.nextFrom
        /\ TotalDeposited(x) = TotalDeposited(given) + got
    BY ONLY <2>1, AddToVestedEffect
  <2>3. QED
    BY <2>2 DEF given
<1>9. farmer' = [farmer EXCEPT ![f][u] = claimed, ![g][u] = x]
  BY <1>1 DEF Typed, FarmersTyped
<1> HIDE DEF x
<1>10. /\ DOMAIN farmer' = Farms /\ \A h \in Farms : DOMAIN farmer'[h] = Users
       /\ farmer'[f][u] = claimed /\ farmer'[g][u] = x
       /\ \A h \in Farms, v \in Users : (h # f /\ h # g) \/ v # u => farmer'[h][v] = farmer[h][v]
  <2>1. DOMAIN farmer = Farms /\ \A h \in Farms : DOMAIN farmer[h] = Users
    BY DEF Typed, FarmersTyped
  <2> DEFINE rows == [farmer EXCEPT ![f][u] = claimed]
  <2>2. /\ DOMAIN rows = Farms /\ \A h \in Farms : DOMAIN rows[h] = Users
        /\ rows[f][u] = claimed
        /\ \A h \in Farms, v \in Users : h # f \/ v # u => rows[h][v] = farmer[h][v]
    BY <2>1
  <2>3. farmer' = [rows EXCEPT ![g][u] = x]
    BY <1>9
  <2> HIDE DEF rows
  <2>4. /\ DOMAIN farmer' = Farms /\ \A h \in Farms : DOMAIN farmer'[h] = Users
        /\ farmer'[g][u] = x
        /\ \A h \in Farms, v \in Users : h # g \/ v # u => farmer'[h][v] = rows[h][v]
    BY <2>2, <2>3
  <2>5. farmer'[f][u] = claimed
    BY <1>1, <2>2, <2>4, Zenon
  <2>6. ASSUME NEW h \in Farms, NEW v \in Users, (h # f /\ h # g) \/ v # u
        PROVE  farmer'[h][v] = farmer[h][v]
    <3>1. h # g \/ v # u
      BY <2>6
    <3>2. h # f \/ v # u
      BY <2>6
    <3>3. farmer'[h][v] = rows[h][v] /\ rows[h][v] = farmer[h][v]
      BY ONLY <2>2, <2>4, <3>1, <3>2, h \in Farms, v \in Users
    <3>4. QED
      BY ONLY <3>3
  <2>7. QED
    BY ONLY <2>4, <2>5, <2>6
<1>11. IsFarmer(claimed, Mints) /\ IsFarmer(x, Mints)
  BY <1>6, <1>8 DEF IsFarmer
<1>12. claimed # None /\ x # None /\ farmer[g][u] # None
  BY <1>1, <1>11, RecordsExist DEF FarmerExists
<1>13. FarmersTyped'
  <2>1. ASSUME NEW h \in Farms, NEW v \in Users
        PROVE  farmer'[h][v] = None \/ IsFarmer(farmer'[h][v], Mints)
    BY <1>10, <1>11 DEF Typed, FarmersTyped
  <2>2. QED
    BY <1>10, <2>1 DEF FarmersTyped
<1>14. FarmersHaveFarms'
  BY <1>1, <1>10 DEF Typed, FarmersHaveFarms, FarmerExists, FarmExists
<1>15. ASSUME NEW h \in Farms, NEW v \in Users PROVE Change(h, v)
  <2>1. CASE h = f /\ v = u
    <3>1. PICK js \in SUBSET Mints : farmer[f][u] \in FarmerOf(js)
      BY <1>1, ExistingFarmer
    <3>2. /\ claimed.staked <= mid.staked /\ claimed.vested <= mid.vested
          /\ claimed.vestedAt = mid.vestedAt /\ claimed.nextFrom = mid.nextFrom
      BY <1>5, <1>6 DEF Keeps, FarmerOf
    <3>3. Draws(farmer[f][u], farm[f], claimed)
      BY <1>2, <1>4, <1>11, <3>1, <3>2, UpdatesDraw
    <3>4. QED
      BY <1>1, <1>10, <2>1, <3>3 DEF Change
  <2>2. CASE h = g /\ v = u
    <3>1. farmer[g][u].vested \in Nat
      BY <1>7 DEF FarmerOf
    <3>2. Receives(farmer[g][u], slot, x)
      BY <1>6, <1>8, <3>1 DEF Receives
    <3>3. QED
      BY <1>1, <1>3, <1>10, <2>2, <3>2 DEF Change
  <2>3. CASE (h # f /\ h # g) \/ v # u
    BY <1>10, <2>3 DEF Change
  <2>4. QED
    BY <2>1, <2>2, <2>3
<1>16. stakeVault \in [Farms -> Nat]
  BY DEF Typed, BalancesTyped
<1>17. /\ Deposited(f, u)' = Deposited(f, u)
       /\ Deposited(g, u)' = Deposited(g, u) + got
       /\ \A h \in Farms, v \in Users : (h # f /\ h # g) \/ v # u =>
            Deposited(h, v)' = Deposited(h, v)
  <2>1. TotalDeposited(claimed) = TotalDeposited(farmer[f][u])
    BY <1>4, <1>6, KeepsTotal
  <2>2. Deposited(f, u)' = Deposited(f, u)
    BY <1>4, <1>10, <1>12, <2>1 DEF Deposited, FarmerExists
  <2>3. Deposited(g, u)' = Deposited(g, u) + got
    BY <1>8, <1>10, <1>12 DEF Deposited, FarmerExists
  <2>4. QED
    BY <1>10, <2>2, <2>3 DEF Deposited, FarmerExists
<1>18. ASSUME NEW h \in Farms PROVE Balanced(h)
  <2>1. CASE h = g
    <3>1. Deposited(g, u) \in Nat
      BY <1>7, <1>12, TotalType DEF Deposited, FarmerExists, IsFarmer
    <3>2. /\ stakeVault'[g] + Deposited(g, u) = stakeVault[g] + Deposited(g, u)'
          /\ \A v \in Users \ {u} : Deposited(g, v)' = Deposited(g, v)
      BY <1>1, <1>6, <1>16, <1>17, <3>1
    <3>3. QED
      BY <2>1, <3>2 DEF Balanced
  <2>2. CASE h # g
    <3>1. stakeVault'[h] = stakeVault[h]
      BY <1>1, <1>16, <2>2
    <3>2. \A v \in Users : Deposited(h, v)' = Deposited(h, v)
      BY <1>17, <2>2
    <3>3. QED
      BY <3>1, <3>2 DEF Balanced
  <2>3. QED
    BY <2>1, <2>2
<1>19. BalancesTyped'
  <2>1. harvestVault \in [Farms -> [Mints -> Nat]]
    BY DEF Typed, BalancesTyped
  <2>2. harvestVault[f][m] - got \in Nat /\ stakeVault[g] + got \in Nat
    BY <1>1, <1>2, <1>6, <1>16, <2>1
  <2>3. harvestVault' \in [Farms -> [Mints -> Nat]] /\ stakeVault' \in [Farms -> Nat]
    BY <1>1, <1>16, <2>1, <2>2
  <2>4. QED
    BY <1>1, <2>3 DEF Typed, BalancesTyped
<1>20. FarmsTyped' /\ \A h \in Farms : SnapshotsMove(h)
  BY <1>1, FarmsStill
<1>21. slot' >= slot
  BY <1>1, <1>2
<1>22. QED
  BY <1>13, <1>14, <1>15, <1>18, <1>19, <1>20, <1>21 DEF Step, Typed

-----------------------------------------------------------------------------
(* Every transaction is such a step.                                       *)

\* Whatever the administrator does.
LEMMA AdminStep ==
  ASSUME Typed, NEW f \in Farms, AdminNext(f) PROVE Step
<1>1. CASE \E a \in Admins : CreateFarm(f, a)
  BY <1>1, CreateFarmStep
<1>2. CASE \E a \in Admins : SetFarmOwner(f, a)
  BY <1>2, SetFarmOwnerStep
<1>3. CASE \E m \in Mints : AddHarvest(f, m)
  BY <1>3, AddHarvestStep
<1>4. CASE \E m \in Mints : RemoveHarvest(f, m)
  BY <1>4, RemoveHarvestStep
<1>5. CASE \E w \in Windows : SetMinSnapshotWindow(f, w)
  BY <1>5, SetMinSnapshotWindowStep
<1>6. CASE \E m \in Mints, at \in Starts, n \in Lengths, tps \in Rates :
             NewHarvestPeriod(f, m, at, n, tps)
  BY <1>6, NewHarvestPeriodStep
<1>7. CASE \E g \in {t \in Farms : <<f, t>> \in Pairs} : WhitelistFarmForCompounding(f, g)
  BY <1>7, WhitelistStep
<1>8. CASE \E g \in Farms : DewhitelistFarmForCompounding(f, g)
  BY <1>8, WhitelistStep, Zenon
<1>9. QED
  BY <1>1, <1>2, <1>3, <1>4, <1>5, <1>6, <1>7, <1>8, Zenon DEF AdminNext

\* Whatever a user does in one farm.
LEMMA UserStep ==
  ASSUME Typed, NEW f \in Farms, NEW u \in Users, FarmerNext(f, u) PROVE Step
<1>1. CASE CreateFarmer(f, u)
  BY <1>1, CreateFarmerStep
<1>2. CASE \E lag \in Lags : UpdateEligibleHarvestUntil(f, u, Larger(0, slot - lag))
  <2>1. PICK lag \in Lags : UpdateEligibleHarvestUntil(f, u, Larger(0, slot - lag))
    BY <1>2
  <2>2. Larger(0, slot - lag) \in Nat
    BY DEF Larger, Typed, BalancesTyped
  <2>3. QED
    BY <2>1, <2>2, UpdateStep
<1>3. CASE \E stake \in StakeAmounts : StartFarming(f, u, stake)
  BY <1>3, StartFarmingStep
<1>4. CASE \E max \in UnstakeAmounts : StopFarming(f, u, max)
  BY <1>4, StopFarmingStep
<1>5. CASE \E ms \in SUBSET Mints : ClaimEligibleHarvest(f, u, ms)
  BY <1>5, ClaimStep
<1>6. CASE \E m \in Mints, amount \in AirdropAmounts, a \in Admins : Airdrop(f, u, m, amount, a)
  BY <1>6, AirdropStep
<1>7. CASE CompoundSameFarm(f, u)
  BY <1>7, CompoundSameStep
<1>8. CASE CloseFarmer(f, u)
  BY <1>8, CloseFarmerStep
<1>9. QED
  BY <1>1, <1>2, <1>3, <1>4, <1>5, <1>6, <1>7, <1>8 DEF FarmerNext

\* Every transaction is a step.
LEMMA NextStep == ASSUME Typed, [Next]_vars PROVE Step
BY AdminStep, TakeSnapshotStep, UserStep, CompoundAcrossStep, TickStep DEF Next

-----------------------------------------------------------------------------
(* The type invariant.                                                     *)

\* The accounts are typed at first.
LEMMA InitTyped == ASSUME Init PROVE Typed
<1>1. FarmsTyped
  BY DEF Init, FarmsTyped
<1>2. FarmersTyped
  BY DEF Init, FarmersTyped
<1>3. BalancesTyped
  BY DEF Init, BalancesTyped, Owners
<1>4. FarmersHaveFarms
  BY DEF Init, FarmersHaveFarms, FarmerExists
<1>5. QED
  BY <1>1, <1>2, <1>3, <1>4 DEF Typed

\* The accounts are always well-formed, and a farmer belongs to a farm.
LEMMA AlwaysTyped == Spec => []Typed
<1>1. Typed /\ [Next]_vars => Typed'
  BY NextStep DEF Step
<1>2. QED
  BY InitTyped, <1>1, PTL DEF Spec

\* Every account of the farming program keeps its type in every state that
\* transactions may reach: no vault, wallet or credit is ever negative.
THEOREM AccountsAreTyped == Spec => []TypeOK
<1>1. Typed => TypeOK
  BY DEF Typed, FarmsTyped, FarmersTyped, BalancesTyped, TypeOK
<1>2. QED
  BY AlwaysTyped, <1>1, PTL

-----------------------------------------------------------------------------
(* The stake vaults.                                                       *)

\* What every user deposited in a farm.
Deposits(f) == [u \in Users |-> Deposited(f, u)]

\* Deposits are numbers.
LEMMA DepositsType ==
  ASSUME Typed, NEW f \in Farms, NEW u \in Users PROVE Deposited(f, u) \in Nat
BY TotalType DEF Typed, FarmersTyped, Deposited, FarmerExists

\* The sum of the deposits moves with the stake vault.
LEMMA ConservedStep ==
  ASSUME Typed, StakeIsConserved, Step PROVE StakeIsConserved'
<1>1. SUFFICES ASSUME NEW f \in Farms
               PROVE  stakeVault'[f] = SumFunction([u \in Users |-> Deposited(f, u)'])
  BY Zenon DEF StakeIsConserved
<1> DEFINE d == Deposits(f)
           e == [u \in Users |-> Deposited(f, u)']
<1>2. stakeVault[f] = SumFunctionOnSet(d, Users)
  BY Zenon DEF StakeIsConserved, Deposits, SumFunction
<1>3. SumFunction([u \in Users |-> Deposited(f, u)']) = SumFunctionOnSet(e, Users)
  BY DEF SumFunction
<1>4. \A u \in Users : d[u] = Deposited(f, u) /\ e[u] = Deposited(f, u)'
  BY DEF Deposits
<1>5. \A u \in Users : d[u] \in Nat /\ e[u] \in Nat
  <2>1. \A u \in Users : Deposited(f, u) \in Nat
    BY DepositsType
  <2>2. \A u \in Users : Deposited(f, u)' \in Nat
    <3>1. Typed'
      BY DEF Step
    <3>2. QED
      BY <3>1, TotalType DEF Typed, FarmersTyped, Deposited, FarmerExists
  <2>3. QED
    BY <1>4, <2>1, <2>2
<1>6. stakeVault[f] \in Nat /\ stakeVault'[f] \in Nat
  BY DEF Step, Typed, BalancesTyped
<1> HIDE DEF d, e
<1>7. CASE /\ stakeVault'[f] = stakeVault[f]
           /\ \A v \in Users : Deposited(f, v)' = Deposited(f, v)
  <2>1. \A u \in Users : d[u] \in Nat /\ e[u] = d[u]
    BY <1>4, <1>5, <1>7
  <2>2. SumFunctionOnSet(e, Users) = SumFunctionOnSet(d, Users)
    BY ONLY <2>1, UsersAssumption, SumSame
  <2>3. QED
    BY <1>2, <1>3, <1>7, <2>2
<1>8. CASE \E u \in Users :
             /\ stakeVault'[f] + Deposited(f, u) = stakeVault[f] + Deposited(f, u)'
             /\ \A v \in Users \ {u} : Deposited(f, v)' = Deposited(f, v)
  <2>1. PICK u \in Users :
          /\ stakeVault'[f] + Deposited(f, u) = stakeVault[f] + Deposited(f, u)'
          /\ \A v \in Users \ {u} : Deposited(f, v)' = Deposited(f, v)
    BY <1>8
  <2>2. \A v \in Users \ {u} : e[v] = d[v]
    BY <1>4, <2>1
  <2>3. SumFunctionOnSet(e, Users) + d[u] = SumFunctionOnSet(d, Users) + e[u]
    BY ONLY <1>5, <2>2, u \in Users, UsersAssumption, SumChanges
  <2>4. SumFunctionOnSet(e, Users) \in Nat
    BY ONLY <1>5, UsersAssumption, SumUnfolds
  <2>5. stakeVault'[f] + d[u] = stakeVault[f] + e[u] /\ d[u] \in Nat /\ e[u] \in Nat
    BY <1>4, <1>5, <2>1
  <2>6. stakeVault'[f] = SumFunctionOnSet(e, Users)
    BY ONLY <1>2, <1>6, <2>3, <2>4, <2>5
  <2>7. QED
    BY <1>3, <2>6
<1>9. Balanced(f)
  BY DEF Step
<1>10. QED
  BY <1>7, <1>8, <1>9 DEF Balanced

\* Nothing is deposited at first.
LEMMA InitConserved == ASSUME Init PROVE StakeIsConserved
<1>1. SUFFICES ASSUME NEW f \in Farms
               PROVE  stakeVault[f] = SumFunction([u \in Users |-> Deposited(f, u)])
  BY Zenon DEF StakeIsConserved
<1> DEFINE d == [u \in Users |-> Deposited(f, u)]
<1>2. \A u \in Users : d[u] = 0
  BY DEF Init, Deposited, FarmerExists
<1>3. SumFunction(d) = SumFunctionOnSet(d, Users)
  BY DEF SumFunction
<1> HIDE DEF d
<1>4. SumFunctionOnSet(d, Users) = 0
  BY ONLY <1>2, UsersAssumption, SumOfZeros
<1>5. stakeVault[f] = 0
  BY DEF Init
<1>6. QED
  BY <1>3, <1>4, <1>5 DEF d

\* The conservation of stake, to be used with other invariants.
LEMMA AlwaysConserved == Spec => []StakeIsConserved
<1>1. Typed /\ StakeIsConserved /\ [Next]_vars => StakeIsConserved'
  BY NextStep, ConservedStep
<1>2. QED
  BY InitConserved, AlwaysTyped, <1>1, PTL DEF Spec

\* A stake vault holds exactly what the farm's users deposited, for any number
\* of farms and users and in whatever order they deposit, withdraw, compound,
\* close their accounts and take snapshots.
THEOREM StakeStaysConserved == Spec => []StakeIsConserved
BY AlwaysConserved

-----------------------------------------------------------------------------
(* The shares of the open window.                                          *)

\* No snapshot is of the future.
LatestIsPast == \A f \in Farms : FarmExists(f) => Latest(farm[f].snapshots).startedAt <= slot

\* The latest snapshot of an empty ring is unwritten.
LEMMA EmptyLatest == Latest(EmptyBuffer) = Unwritten
<1>1. 0 \in Index
  BY DEF Index
<1>2. QED
  BY <1>1 DEF Latest, EmptyBuffer

\* What the latest snapshot is after take_snapshot.
LEMMA TakenSnapshot ==
  ASSUME Typed, NEW f \in Farms, TakeSnapshot(f)
  PROVE  /\ FarmExists(f) /\ FarmExists(f)' /\ farm[f].snapshots \in Buffer
         /\ farm'[f].snapshots = Push(farm[f].snapshots, stakeVault[f], slot)
         /\ Latest(farm'[f].snapshots) = [staked |-> stakeVault[f], startedAt |-> slot]
         /\ farm'[f].snapshots # farm[f].snapshots
         /\ UNCHANGED <<slot, farmer, stakeVault>>
<1> DEFINE b == farm[f].snapshots
           x == [farm[f] EXCEPT !.snapshots = Push(b, stakeVault[f], slot)]
<1>1. /\ FarmExists(f) /\ farm' = [farm EXCEPT ![f] = x]
      /\ UNCHANGED <<slot, farmer, stakeVault>>
  BY DEF TakeSnapshot
<1>2. PICK hs \in SUBSET Mints : farm[f] \in FarmOf(hs)
  BY <1>1, ExistingFarm
<1>3. b \in Buffer /\ x.snapshots = Push(b, stakeVault[f], slot)
  BY <1>2 DEF FarmOf
<1> HIDE DEF b
<1>4. /\ stakeVault[f] \in Nat /\ slot \in Nat
      /\ Push(b, stakeVault[f], slot) \in Buffer
  <2>1. stakeVault[f] \in Nat /\ slot \in Nat
    BY DEF Typed, BalancesTyped
  <2>2. QED
    BY <1>3, <2>1, PushType, Zenon
<1>5. x \in FarmOf(hs)
  BY <1>2, <1>4 DEF FarmOf
<1>6. x # None
  BY <1>5, RecordsExist DEF IsFarm
<1> HIDE DEF x
<1>7. farm'[f] = x
  BY <1>1 DEF Typed, FarmsTyped
<1>8. b.tip \in Index /\ b.ring \in [Index -> Snapshot]
  BY <1>3 DEF Buffer
<1>9. NextIndex(b.tip) \in Index /\ NextIndex(b.tip) # b.tip
  BY <1>8 DEF NextIndex, Index
<1>10. /\ Push(b, stakeVault[f], slot).tip = NextIndex(b.tip)
       /\ Latest(Push(b, stakeVault[f], slot)) = [staked |-> stakeVault[f], startedAt |-> slot]
  BY <1>8, <1>9 DEF Push, Latest
<1>11. Push(b, stakeVault[f], slot) # b
  BY <1>9, <1>10
<1>12. QED
  BY <1>1, <1>3, <1>6, <1>7, <1>10, <1>11 DEF b, FarmExists

\* Snapshots are of the past.
LEMMA LatestIsPastStep ==
  ASSUME Typed, LatestIsPast, Step PROVE LatestIsPast'
<1>1. SUFFICES ASSUME NEW f \in Farms, FarmExists(f)'
               PROVE  Latest(farm'[f].snapshots).startedAt <= slot'
  BY DEF LatestIsPast
<1>2. slot \in Nat /\ slot' \in Nat /\ slot' >= slot
  BY DEF Step, Typed, BalancesTyped
<1>3. CASE FarmExists(f) /\ FarmExists(f)' /\ farm'[f].snapshots = farm[f].snapshots
  <2>1. PICK hs \in SUBSET Mints : farm[f] \in FarmOf(hs)
    BY <1>3, ExistingFarm
  <2>2. farm[f].snapshots \in Buffer
    BY <2>1 DEF FarmOf
  <2>3. Latest(farm[f].snapshots).startedAt \in Nat
    BY <2>2, EndsOfRing DEF Snapshot, Slot
  <2>4. Latest(farm[f].snapshots).startedAt <= slot
    BY <1>3 DEF LatestIsPast
  <2>5. QED
    BY <1>2, <1>3, <2>3, <2>4
<1>4. CASE ~FarmExists(f) /\ FarmExists(f)' /\ farm'[f].snapshots = EmptyBuffer
  BY <1>2, <1>4, EmptyLatest DEF Unwritten
<1>5. CASE TakeSnapshot(f)
  <2>1. Latest(farm'[f].snapshots) = [staked |-> stakeVault[f], startedAt |-> slot]
    BY <1>5, TakenSnapshot
  <2>2. QED
    BY <1>2, <2>1
<1>6. QED
  BY <1>1, <1>3, <1>4, <1>5 DEF Step, SnapshotsMove

\* Vesting that is not over by the slot it began in.
LEMMA VestingJustBegan ==
  ASSUME NEW fr, NEW fm, Latest(fm.snapshots).startedAt <= fr.vestedAt
  PROVE  EndOfVesting(fr, fm) = {}
BY NothingAfterLatest DEF EndOfVesting

\* Nobody's part of the open window grows before the next snapshot.
LEMMA PartsShrink ==
  ASSUME Typed, LatestIsPast, Step, NEW f \in Farms, NEW u \in Users,
         FarmExists(f), farm'[f].snapshots = farm[f].snapshots
  PROVE  EarningStake(f, u)' <= EarningStake(f, u)
<1> DEFINE old == farmer[f][u]
           new == farmer'[f][u]
           fm == farm[f]
<1>1. \A fr : EndOfVesting(fr, farm'[f]) = EndOfVesting(fr, fm)
  BY DEF EndOfVesting
<1>2. Latest(fm.snapshots).startedAt <= slot
  BY DEF LatestIsPast
<1>3. FarmerExists(f, u) => old.staked \in Nat /\ old.vested \in Nat /\ TotalDeposited(old) \in Nat
  BY DEF Typed, FarmersTyped, FarmerExists, IsFarmer, FarmerOf, TotalDeposited
<1>4. FarmerExists(f, u)' => new.staked \in Nat /\ new.vested \in Nat
  BY DEF Step, Typed, FarmersTyped, FarmerExists, IsFarmer, FarmerOf
<1>5. EarningStake(f, u)
        = IF FarmerExists(f, u)
            THEN IF EndOfVesting(old, fm) = {} THEN old.staked ELSE old.staked + old.vested
            ELSE 0
  BY DEF EarningStake, Deposited, TotalDeposited
<1>6. EarningStake(f, u)'
        = IF FarmerExists(f, u)'
            THEN IF EndOfVesting(new, fm) = {} THEN new.staked ELSE new.staked + new.vested
            ELSE 0
  BY <1>1 DEF EarningStake, Deposited, TotalDeposited
<1>7. FarmerExists(f, u) <=> old # None
  BY DEF FarmerExists
<1>8. FarmerExists(f, u)' <=> new # None
  BY DEF FarmerExists
<1>9. CASE new = old
  BY <1>3, <1>5, <1>6, <1>7, <1>8, <1>9
<1>10. CASE ~FarmerExists(f, u) /\ new.staked = 0 /\ new.vested = 0
  BY <1>5, <1>6, <1>10
<1>11. CASE FarmerExists(f, u) /\ new = None /\ TotalDeposited(old) = 0
  BY <1>3, <1>5, <1>6, <1>8, <1>11
<1>12. CASE FarmerExists(f, u) /\ Keeps(old, new)
  <2>1. EndOfVesting(new, fm) = EndOfVesting(old, fm)
    BY <1>12 DEF EndOfVesting, Keeps
  <2>2. QED
    BY <1>3, <1>5, <1>6, <1>12, <2>1 DEF Keeps
<1>13. CASE FarmerExists(f, u) /\ Draws(old, fm, new)
  <2>1. CASE new.vested = 0
    <3>1. EndOfVesting(new, fm) = {}
      BY <2>1 DEF EndOfVesting
    <3>2. QED
      BY <1>3, <1>4, <1>5, <1>6, <1>13, <3>1 DEF Draws
  <2>2. CASE new.vested # 0
    <3>0. new # None \/ new = None
      OBVIOUS
    <3>1. CASE new = None
      BY <1>3, <1>5, <1>6, <1>8, <1>13, <3>1
    <3>2. CASE new # None
      <4>1. /\ EndOfVesting(old, fm) = {} /\ new.staked <= old.staked
            /\ new.vested <= old.vested /\ new.vestedAt = old.vestedAt
        BY <1>13, <2>2 DEF Draws
      <4>2. old.vested # 0
        BY <1>3, <1>4, <1>8, <1>13, <2>2, <3>2, <4>1
      <4>3. EndOfVesting(new, fm) = {}
        BY <2>2, <4>1, <4>2 DEF EndOfVesting
      <4>4. QED
        BY <1>3, <1>4, <1>5, <1>6, <1>8, <1>13, <3>2, <4>1, <4>3
    <3>3. QED
      BY <3>0, <3>1, <3>2
  <2>3. QED
    BY <2>1, <2>2
<1>14. CASE FarmerExists(f, u) /\ Stakes(old, fm, slot, new)
  <2>1. EndOfVesting(new, fm) = {}
    BY <1>2, <1>14, VestingJustBegan DEF Stakes
  <2>2. QED
    BY <1>3, <1>4, <1>5, <1>6, <1>14, <2>1 DEF Stakes
<1>15. CASE FarmerExists(f, u) /\ Receives(old, slot, new)
  <2>1. EndOfVesting(new, fm) = {}
    BY <1>2, <1>15, VestingJustBegan DEF Receives
  <2>2. QED
    BY <1>3, <1>4, <1>5, <1>6, <1>15, <2>1 DEF Receives
<1>16. Change(f, u)
  BY DEF Step
<1> HIDE DEF old, new, fm
<1>17. QED
  BY <1>9, <1>10, <1>11, <1>12, <1>13, <1>14, <1>15, <1>16 DEF Change, old, new, fm

\* A part of the open window is a number, at most what was deposited.
LEMMA PartIsDeposited ==
  ASSUME Typed, NEW f \in Farms, NEW u \in Users
  PROVE  EarningStake(f, u) \in Nat /\ EarningStake(f, u) <= Deposited(f, u)
<1>1. FarmerExists(f, u) => farmer[f][u].staked \in Nat /\ farmer[f][u].vested \in Nat
  BY DEF Typed, FarmersTyped, FarmerExists, IsFarmer, FarmerOf
<1>2. QED
  BY <1>1 DEF EarningStake, Deposited, TotalDeposited

\* Nobody takes part in the open window with more than the snapshot recorded.
LEMMA SharesStep ==
  ASSUME Typed, LatestIsPast, StakeIsConserved, SharesAreParts, Step
  PROVE  SharesAreParts'
<1>1. SUFFICES ASSUME NEW f \in Farms, FarmExists(f)',
                      Latest(farm'[f].snapshots).startedAt > 0
               PROVE  SumFunction([u \in Users |-> EarningStake(f, u)'])
                        <= Latest(farm'[f].snapshots).staked
  BY DEF SharesAreParts
<1> DEFINE old == [u \in Users |-> EarningStake(f, u)]
           new == [u \in Users |-> EarningStake(f, u)']
           d == [u \in Users |-> Deposited(f, u)]
<1>2. Typed'
  BY DEF Step
<1>3. \A u \in Users : old[u] \in Nat /\ d[u] \in Nat
  BY PartIsDeposited, DepositsType
<1>4. ASSUME NEW u \in Users PROVE new[u] \in Nat /\ new[u] <= Deposited(f, u)'
  <2>1. FarmerExists(f, u)' => farmer'[f][u].staked \in Nat /\ farmer'[f][u].vested \in Nat
    BY <1>2 DEF Typed, FarmersTyped, FarmerExists, IsFarmer, FarmerOf
  <2>2. QED
    BY <2>1 DEF EarningStake, Deposited, TotalDeposited
<1>5. /\ SumFunction([u \in Users |-> EarningStake(f, u)']) = SumFunctionOnSet(new, Users)
      /\ SumFunction(old) = SumFunctionOnSet(old, Users)
      /\ SumFunction(d) = SumFunctionOnSet(d, Users)
  BY DEF SumFunction
<1>6. SumFunctionOnSet(new, Users) \in Nat
  <2>1. \A u \in Users : new[u] \in Nat
    BY <1>4
  <2> HIDE DEF new
  <2>2. QED
    BY ONLY <2>1, UsersAssumption, SumUnfolds
<1>7. CASE FarmExists(f) /\ FarmExists(f)' /\ farm'[f].snapshots = farm[f].snapshots
  <2>1. \A u \in Users : new[u] <= old[u]
    BY <1>7, PartsShrink
  <2>2. \A u \in Users : new[u] \in Nat /\ old[u] \in Nat /\ new[u] <= old[u]
    BY <1>3, <1>4, <2>1
  <2>3. SumFunction(old) <= Latest(farm[f].snapshots).staked
    BY <1>1, <1>7 DEF SharesAreParts
  <2>4. Latest(farm[f].snapshots).staked \in Nat
    <3>1. PICK hs \in SUBSET Mints : farm[f] \in FarmOf(hs)
      BY <1>7, ExistingFarm
    <3>2. farm[f].snapshots \in Buffer
      BY <3>1 DEF FarmOf
    <3>3. QED
      BY <3>2, EndsOfRing DEF Snapshot
  <2> HIDE DEF old, new
  <2>5. SumFunctionOnSet(new, Users) <= SumFunctionOnSet(old, Users)
    BY ONLY <2>2, UsersAssumption, SumMonotone
  <2>6. SumFunctionOnSet(old, Users) \in Nat
    BY ONLY <2>2, UsersAssumption, SumUnfolds
  <2>7. QED
    BY <1>5, <1>6, <1>7, <2>3, <2>4, <2>5, <2>6
<1>8. CASE ~FarmExists(f) /\ FarmExists(f)' /\ farm'[f].snapshots = EmptyBuffer
  BY <1>1, <1>8, EmptyLatest DEF Unwritten
<1>9. CASE TakeSnapshot(f)
  <2>1. /\ Latest(farm'[f].snapshots) = [staked |-> stakeVault[f], startedAt |-> slot]
        /\ UNCHANGED <<farmer, stakeVault>>
    BY <1>9, TakenSnapshot
  <2>2. \A u \in Users : Deposited(f, u)' = d[u]
    BY <2>1 DEF Deposited, FarmerExists
  <2>3. \A u \in Users : new[u] \in Nat /\ d[u] \in Nat /\ new[u] <= d[u]
    BY <1>3, <1>4, <2>2
  <2>4. stakeVault[f] = SumFunction(d)
    BY Zenon DEF StakeIsConserved
  <2> HIDE DEF new, d
  <2>5. SumFunctionOnSet(new, Users) <= SumFunctionOnSet(d, Users)
    BY ONLY <2>3, UsersAssumption, SumMonotone
  <2>6. Latest(farm'[f].snapshots).staked = SumFunctionOnSet(d, Users)
    BY <1>5, <2>1, <2>4
  <2>7. QED
    BY <1>5, <2>5, <2>6
<1>10. QED
  BY <1>1, <1>7, <1>8, <1>9 DEF Step, SnapshotsMove

\* The shares of the open window are parts of the stake that its snapshot
\* recorded: nothing that users do after a snapshot, and no snapshot, makes
\* the farmers earn for more than the whole.
THEOREM SharesStayParts == Spec => []SharesAreParts
<1>1. Init => LatestIsPast /\ SharesAreParts
  BY DEF Init, LatestIsPast, SharesAreParts, FarmExists
<1>2. Typed /\ LatestIsPast /\ [Next]_vars => LatestIsPast'
  BY NextStep, LatestIsPastStep
<1>3. Typed /\ LatestIsPast /\ StakeIsConserved /\ SharesAreParts /\ [Next]_vars
        => SharesAreParts'
  BY NextStep, SharesStep
<1>4. QED
  BY AlwaysTyped, AlwaysConserved, <1>1, <1>2, <1>3, PTL DEF Spec

-----------------------------------------------------------------------------
(* Vesting, in programs that compound only within a farm.  Compounding     *)
(* across farms leaves the receiving farmer without an update; what then   *)
(* becomes of these properties is in the README.                           *)

\* The deposit that vests was made before the harvest that is yet to be
\* computed.
VestedAfterUpdate ==
  \A f \in Farms : \A u \in Farmers(f) :
    farmer[f][u].vested # 0 => farmer[f][u].vestedAt <= farmer[f][u].nextFrom

\* A deposit follows an update.
LEMMA VestedAfterUpdateStep ==
  ASSUME ~Across, Typed, VestedAfterUpdate, Step PROVE VestedAfterUpdate'
<1>1. SUFFICES ASSUME NEW f \in Farms, NEW u \in Users, FarmerExists(f, u)',
                      farmer'[f][u].vested # 0
               PROVE  farmer'[f][u].vestedAt <= farmer'[f][u].nextFrom
  BY DEF VestedAfterUpdate, Farmers
<1> DEFINE old == farmer[f][u]
           new == farmer'[f][u]
<1>2. FarmerExists(f, u) /\ old.vested # 0 => old.vestedAt <= old.nextFrom
  BY DEF VestedAfterUpdate, Farmers
<1>3. FarmerExists(f, u) => /\ old.vested \in Nat /\ old.vestedAt \in Nat /\ old.nextFrom \in Nat
  BY DEF Typed, FarmersTyped, FarmerExists, IsFarmer, FarmerOf
<1>4. new.vested \in Nat /\ new.vestedAt \in Nat /\ new.nextFrom \in Nat
  BY <1>1 DEF Step, Typed, FarmersTyped, FarmerExists, IsFarmer, FarmerOf
<1>5. Change(f, u) /\ (FarmerExists(f, u) <=> old # None) /\ new # None
  BY <1>1 DEF Step, FarmerExists
<1>6. CASE new = old
  BY <1>1, <1>2, <1>5, <1>6
<1>7. CASE FarmerExists(f, u) /\ Keeps(old, new)
  BY <1>1, <1>2, <1>7 DEF Keeps
<1>8. CASE FarmerExists(f, u) /\ Draws(old, farm[f], new)
  BY <1>1, <1>2, <1>3, <1>4, <1>8 DEF Draws
<1>9. CASE FarmerExists(f, u) /\ Stakes(old, farm[f], slot, new)
  <2>1. slot \in Nat
    BY DEF Typed, BalancesTyped
  <2>2. new.vestedAt = slot /\ new.nextFrom >= slot
    BY <1>9 DEF Stakes
  <2>3. QED
    BY <1>4, <2>1, <2>2
<1> HIDE DEF old, new
<1>10. QED
  BY <1>1, <1>5, <1>6, <1>7, <1>8, <1>9 DEF Change, old, new

\* That invariant, of programs that compound within a farm.
LEMMA AlwaysVestedAfterUpdate ==
  ASSUME ~Across PROVE Spec => []VestedAfterUpdate
<1>1. Init => VestedAfterUpdate
  BY DEF Init, VestedAfterUpdate, Farmers, FarmerExists
<1>2. Typed /\ VestedAfterUpdate /\ [Next]_vars => VestedAfterUpdate'
  BY NextStep, VestedAfterUpdateStep
<1>3. QED
  BY AlwaysTyped, <1>1, <1>2, PTL DEF Spec

\* The code's assertion, vested_at <= next harvest slot, holds wherever it is
\* evaluated as long as no farm is whitelisted to compound into another: all
\* harvest up to a deposit is computed with the stake before it.
THEOREM DepositsFollowUpdates ==
  ASSUME \A p \in Pairs : p[1] = p[2]
  PROVE  Spec => []DepositFollowsUpdate
<1>1. ~Across
  BY DEF Across
<1>2. VestedAfterUpdate => DepositFollowsUpdate
  BY DEF VestedAfterUpdate, DepositFollowsUpdate, EndOfVesting
<1>3. QED
  BY AlwaysVestedAfterUpdate, <1>1, <1>2, PTL

\* Within a farm, a later deposit never prolongs vesting that is over.
LEMMA NotProlongedStep ==
  ASSUME ~Across, Typed, Step, NEW f \in Farms, NEW u \in Users, FarmerExists(f, u),
         EndOfVesting(farmer[f][u], farm[f]) # {}, farmer'[f][u] # None,
         farmer'[f][u].vestedAt # farmer[f][u].vestedAt
  PROVE  farmer'[f][u].staked >= farmer[f][u].staked + farmer[f][u].vested
<1> DEFINE old == farmer[f][u]
           new == farmer'[f][u]
<1>1. Change(f, u)
  BY DEF Step
<1>2. new # old /\ ~Keeps(old, new) /\ ~Draws(old, farm[f], new)
  BY DEF Keeps, Draws
<1>3. Stakes(old, farm[f], slot, new)
  BY <1>1, <1>2 DEF Change
<1>4. old.staked \in Nat /\ old.vested \in Nat
  BY DEF Typed, FarmersTyped, FarmerExists, IsFarmer, FarmerOf
<1>5. QED
  BY <1>3, <1>4 DEF Stakes

\* What is due to be staked is staked before a later deposit restarts the
\* vesting period, as long as farms compound only into themselves.
THEOREM VestingStaysShort ==
  ASSUME \A p \in Pairs : p[1] = p[2]
  PROVE  Spec => VestingIsNotProlonged
<1>1. ~Across
  BY DEF Across
<1>2. Typed /\ [Next]_vars =>
        [\A f \in Farms : \A u \in Farmers(f) :
           LET fr == farmer[f][u]
           IN  EndOfVesting(fr, farm[f]) # {} /\ farmer'[f][u] # None
                 /\ farmer'[f][u].vestedAt # fr.vestedAt
               => farmer'[f][u].staked >= fr.staked + fr.vested]_vars
  BY <1>1, NextStep, NotProlongedStep, Zenon DEF Farmers
<1>3. QED
  BY AlwaysTyped, <1>1, <1>2, PTL DEF Spec, VestingIsNotProlonged

-----------------------------------------------------------------------------
(* The cursor, when the slot's snapshot comes before the slot's updates.   *)

\* Vesting ends after everything that the farmer already harvested.
EndsAhead ==
  \A f \in Farms : \A u \in Farmers(f) :
    \A s \in EndOfVesting(farmer[f][u], farm[f]) : farmer[f][u].nextFrom <= s.startedAt

\* An account's numbers and the snapshots that may end its vesting.
LEMMA VestingTypes ==
  ASSUME Typed, NEW f \in Farms, NEW u \in Users, FarmerExists(f, u)
  PROVE  /\ farmer[f][u].nextFrom \in Nat /\ farmer[f][u].vestedAt \in Nat
         /\ farmer[f][u].vested \in Nat
         /\ \A s \in EndOfVesting(farmer[f][u], farm[f]) :
              s.startedAt \in Nat /\ EndOfVesting(farmer[f][u], farm[f]) = {s}
<1>1. PICK ms \in SUBSET Mints : farmer[f][u] \in FarmerOf(ms)
  BY ExistingFarmer
<1>2. FarmExists(f)
  BY ExistingFarmer
<1>3. PICK hs \in SUBSET Mints : farm[f] \in FarmOf(hs)
  BY <1>2, ExistingFarm
<1>4. \A s \in EndOfVesting(farmer[f][u], farm[f]) :
        s.startedAt \in Nat /\ EndOfVesting(farmer[f][u], farm[f]) = {s}
  BY <1>1, <1>3, EndOfVestingType
<1>5. QED
  BY <1>1, <1>4 DEF FarmerOf

\* Between two snapshots, no step makes a farmer's vesting end.
LEMMA EndsAheadBetween ==
  ASSUME Typed, LatestIsPast, EndsAhead, Step, NEW f \in Farms, NEW u \in Users,
         FarmerExists(f, u)', FarmExists(f), farm'[f].snapshots = farm[f].snapshots,
         NEW s \in EndOfVesting(farmer'[f][u], farm'[f])
  PROVE  farmer'[f][u].nextFrom <= s.startedAt
<1> DEFINE old == farmer[f][u]
           new == farmer'[f][u]
           fm == farm[f]
<1>1. s \in EndOfVesting(new, fm) /\ new.vested # 0
  BY DEF EndOfVesting
<1>2. Latest(fm.snapshots).startedAt <= slot
  BY DEF LatestIsPast
<1>3. FarmerExists(f, u) =>
        /\ old.nextFrom \in Nat /\ old.vested \in Nat
        /\ \A t \in EndOfVesting(old, fm) : old.nextFrom <= t.startedAt
  BY VestingTypes DEF EndsAhead, Farmers
<1>4. new.vested \in Nat
  BY DEF Step, Typed, FarmersTyped, FarmerExists, IsFarmer, FarmerOf
<1>5. Change(f, u) /\ (FarmerExists(f, u) <=> old # None) /\ new # None
  BY DEF Step, FarmerExists
<1>6. CASE new = old
  BY <1>1, <1>3, <1>5, <1>6
<1>7. CASE FarmerExists(f, u) /\ Keeps(old, new)
  <2>1. EndOfVesting(new, fm) = EndOfVesting(old, fm)
    BY <1>7 DEF EndOfVesting, Keeps
  <2>2. QED
    BY <1>1, <1>3, <1>7, <2>1 DEF Keeps
<1>8. CASE FarmerExists(f, u) /\ Draws(old, fm, new)
  <2>1. /\ EndOfVesting(old, fm) = {} /\ new.vested <= old.vested
        /\ new.vestedAt = old.vestedAt
    BY <1>1, <1>8 DEF Draws
  <2>2. old.vested # 0
    BY <1>1, <1>3, <1>4, <1>8, <2>1
  <2>3. EndOfVesting(new, fm) = {}
    BY <1>1, <2>1, <2>2 DEF EndOfVesting
  <2>4. QED
    BY <1>1, <2>3
<1>9. CASE FarmerExists(f, u) /\ Stakes(old, fm, slot, new)
  <2>1. EndOfVesting(new, fm) = {}
    BY <1>2, <1>9, VestingJustBegan DEF Stakes
  <2>2. QED
    BY <1>1, <2>1
<1>10. CASE FarmerExists(f, u) /\ Receives(old, slot, new)
  <2>1. EndOfVesting(new, fm) = {}
    BY <1>2, <1>10, VestingJustBegan DEF Receives
  <2>2. QED
    BY <1>1, <2>1
<1> HIDE DEF old, new, fm
<1>11. QED
  BY <1>1, <1>5, <1>6, <1>7, <1>8, <1>9, <1>10 DEF Change, old, new, fm

\* A snapshot ends vesting in its own slot, where nobody was updated yet, or
\* leaves in place the snapshot that did.
LEMMA EndsAheadAtSnapshot ==
  ASSUME Typed, EndsAhead, NEW f \in Farms, TakeSnapshot(f), SnapshotsComeFirst,
         NEW u \in Users, FarmerExists(f, u)',
         NEW s \in EndOfVesting(farmer'[f][u], farm'[f])
  PROVE  farmer'[f][u].nextFrom <= s.startedAt
<1> DEFINE fr == farmer[f][u]
<1>1. /\ farm[f].snapshots \in Buffer /\ FarmExists(f) /\ FarmExists(f)'
      /\ farm'[f].snapshots = Push(farm[f].snapshots, stakeVault[f], slot)
      /\ farm'[f].snapshots # farm[f].snapshots
      /\ UNCHANGED farmer
  BY TakenSnapshot, Zenon
<1>2. FarmerExists(f, u) /\ farmer'[f][u] = fr
  BY <1>1 DEF FarmerExists
<1>3. fr.nextFrom \in Nat /\ fr.vestedAt \in Nat
  BY <1>2, VestingTypes
<1>4. fr.nextFrom <= slot
  BY <1>1, <1>2 DEF SnapshotsComeFirst, NotUpdatedYet
<1> HIDE DEF fr
<1>5. fr.vested # 0 /\ s \in FirstSnapshotAfter(farm'[f].snapshots, fr.vestedAt)
  BY <1>2 DEF EndOfVesting
<1>6. stakeVault[f] \in Nat /\ slot \in Nat
  BY DEF Typed, BalancesTyped
<1>7. \/ s = [staked |-> stakeVault[f], startedAt |-> slot]
      \/ s \in FirstSnapshotAfter(farm[f].snapshots, fr.vestedAt)
  BY <1>1, <1>3, <1>5, <1>6, FirstAfterPush
<1>8. CASE s = [staked |-> stakeVault[f], startedAt |-> slot]
  BY <1>2, <1>4, <1>8
<1>9. CASE s \in FirstSnapshotAfter(farm[f].snapshots, fr.vestedAt)
  <2>1. s \in EndOfVesting(fr, farm[f])
    BY <1>5, <1>9 DEF EndOfVesting
  <2>2. QED
    BY <1>2, <2>1 DEF EndsAhead, Farmers, fr
<1>10. QED
  BY <1>7, <1>8, <1>9

\* No cursor passes the snapshot that ends vesting.
LEMMA EndsAheadStep ==
  ASSUME Typed, LatestIsPast, EndsAhead, Step, SnapshotsComeFirst PROVE EndsAhead'
<1>1. SUFFICES ASSUME NEW f \in Farms, NEW u \in Users, FarmerExists(f, u)',
                      NEW s \in EndOfVesting(farmer'[f][u], farm'[f])
               PROVE  farmer'[f][u].nextFrom <= s.startedAt
  BY DEF EndsAhead, Farmers
<1>2. CASE FarmExists(f) /\ FarmExists(f)' /\ farm'[f].snapshots = farm[f].snapshots
  BY <1>1, <1>2, EndsAheadBetween
<1>3. CASE ~FarmExists(f)
  <2>1. ~FarmerExists(f, u) /\ farmer'[f][u] # None
    BY <1>1, <1>3 DEF Typed, FarmersHaveFarms, FarmerExists
  <2>2. farmer'[f][u].vested = 0
    BY <2>1 DEF Step, Change, FarmerExists
  <2>3. QED
    BY <1>1, <2>2 DEF EndOfVesting
<1>4. CASE TakeSnapshot(f)
  BY <1>1, <1>4, EndsAheadAtSnapshot
<1>5. QED
  BY <1>2, <1>3, <1>4 DEF Step, SnapshotsMove

\* When vesting ends ahead of the cursor, no step moves the cursor back.
LEMMA CursorStep ==
  ASSUME Typed, EndsAhead, Step, NEW f \in Farms, NEW u \in Users, FarmerExists(f, u),
         farmer'[f][u] # None
  PROVE  farmer'[f][u].nextFrom >= farmer[f][u].nextFrom
<1> DEFINE old == farmer[f][u]
           new == farmer'[f][u]
<1>1. /\ old.nextFrom \in Nat
      /\ \A s \in EndOfVesting(old, farm[f]) : s.startedAt \in Nat /\ old.nextFrom <= s.startedAt
  BY VestingTypes DEF EndsAhead, Farmers
<1>2. new.nextFrom \in Nat
  BY DEF Step, Typed, FarmersTyped, FarmerExists, IsFarmer, FarmerOf
<1>3. Change(f, u)
  BY DEF Step
<1>4. CASE \/ Draws(old, farm[f], new) \/ Stakes(old, farm[f], slot, new)
  <2>1. \/ new.nextFrom >= old.nextFrom
        \/ \E s \in EndOfVesting(old, farm[f]) : new.nextFrom >= s.startedAt
    BY <1>4 DEF Draws, Stakes
  <2>2. QED
    BY <1>1, <1>2, <2>1
<1>5. CASE new = old \/ Keeps(old, new) \/ Receives(old, slot, new)
  BY <1>1, <1>5 DEF Keeps, Receives
<1> HIDE DEF old, new
<1>6. QED
  BY <1>3, <1>4, <1>5 DEF Change, old, new

\* No slot is harvested twice, as long as a slot's snapshot is taken before
\* anybody is updated in that slot: whatever the farms, the users and the
\* order of their transactions, also across farms.
THEOREM HistoryIsNotProcessedTwice == OrderlySpec => CursorNeverMovesBack
<1>1. Init => Typed /\ LatestIsPast /\ EndsAhead
  BY InitTyped DEF Init, LatestIsPast, EndsAhead, Farmers, FarmExists, FarmerExists
<1>2. Typed /\ LatestIsPast /\ EndsAhead /\ [OrderlyNext]_vars
        => Typed' /\ LatestIsPast' /\ EndsAhead'
  <2>1. ASSUME Typed, LatestIsPast, EndsAhead, OrderlyNext
        PROVE  Typed' /\ LatestIsPast' /\ EndsAhead'
    BY <2>1, NextStep, LatestIsPastStep, EndsAheadStep DEF OrderlyNext, Step
  <2>2. ASSUME Typed, LatestIsPast, EndsAhead, UNCHANGED vars
        PROVE  Typed' /\ LatestIsPast' /\ EndsAhead'
    <3>1. Typed'
      BY <2>2, NextStep DEF Step
    <3>2. QED
      BY <2>2, <3>1 DEF vars, LatestIsPast, EndsAhead, Farmers, FarmExists, FarmerExists
  <2>3. QED
    BY <2>1, <2>2
<1>3. Typed /\ EndsAhead /\ [OrderlyNext]_vars =>
        [\A f \in Farms : \A u \in Farmers(f) :
           farmer'[f][u] # None => farmer'[f][u].nextFrom >= farmer[f][u].nextFrom]_vars
  BY NextStep, CursorStep DEF OrderlyNext, Farmers
<1>4. QED
  BY <1>1, <1>2, <1>3, PTL DEF OrderlySpec, CursorNeverMovesBack

-----------------------------------------------------------------------------
(* An update never fails.                                                  *)

\* What the computation of a harvest relies on: the snapshots of a farm and
\* the periods of each of its harvests are in order.
FarmInOrder(fm, now) ==
  /\ RingInOrder(fm.snapshots, now)
  /\ \A m \in DOMAIN fm.harvests : OrderAt(fm.harvests[m], now)

\* The harvest of an interval is computed, and so is that of an interval which
\* is empty because a snapshot opened just then.
LEMMA AccrueSucceeds ==
  ASSUME NEW ms, NEW fr \in FarmerOf(ms), NEW hs, NEW fm \in FarmOf(hs),
         NEW now, FarmInOrder(fm, now), NEW until \in Int,
         \/ fr.nextFrom <= until
         \/ \E a \in Index : /\ until < Nth(fm.snapshots, a).startedAt
                             /\ Nth(fm.snapshots, a).startedAt <= fr.nextFrom
  PROVE  Accrue(fr, fm, until).ok
<1>1. /\ fm.snapshots \in Buffer /\ fm.harvests \in [hs -> Periods]
      /\ RingInOrder(fm.snapshots, now) /\ \A m \in hs : OrderAt(fm.harvests[m], now)
  BY DEF FarmOf, FarmInOrder
<1>2. fr.nextFrom \in Nat /\ fr.staked \in Nat
  BY DEF FarmerOf
<1> DEFINE earned == [m \in DOMAIN fm.harvests |->
                        EligibleHarvest(fm.snapshots, fm.harvests[m], fr.nextFrom, until,
                                        fr.staked)]
<1>3. ASSUME NEW m \in hs PROVE earned[m].ok
  <2>1. earned[m] = EligibleHarvest(fm.snapshots, fm.harvests[m], fr.nextFrom, until, fr.staked)
    BY <1>1
  <2>2. fm.harvests[m] \in Periods /\ OrderAt(fm.harvests[m], now)
    BY <1>1
  <2> HIDE DEF earned
  <2>3. CASE fr.nextFrom <= until
    <3>1. until \in Nat
      BY <1>2, <2>3
    <3>2. IsPaid(EligibleHarvest(fm.snapshots, fm.harvests[m], fr.nextFrom, until, fr.staked),
                 fm.snapshots, fm.harvests[m], fr.nextFrom, until, fr.staked)
      BY <1>1, <1>2, <2>2, <2>3, <3>1, HarvestIsExact
    <3>3. QED
      BY <2>1, <3>2 DEF IsPaid
  <2>4. CASE \E a \in Index : /\ until < Nth(fm.snapshots, a).startedAt
                              /\ Nth(fm.snapshots, a).startedAt <= fr.nextFrom
    <3>1. PICK a \in Index : /\ until < Nth(fm.snapshots, a).startedAt
                             /\ Nth(fm.snapshots, a).startedAt <= fr.nextFrom
      BY <2>4
    <3>2. EligibleHarvest(fm.snapshots, fm.harvests[m], fr.nextFrom, until, fr.staked).ok = TRUE
      BY <1>1, <1>2, <2>2, <3>1, NothingIsDue, Zenon
    <3>3. QED
      BY <2>1, <3>2
  <2>5. QED
    BY <2>3, <2>4
<1>4. Accrue(fr, fm, until).ok = \A m \in DOMAIN earned : earned[m].ok
  BY DEF Accrue, SetHarvests
<1>5. DOMAIN earned = hs
  BY <1>1
<1> HIDE DEF earned
<1>6. QED
  BY <1>3, <1>4, <1>5

\* check_vested_period_and_update_harvest succeeds: neither of its harvests is
\* asked for over a range on which the computation underflows.
LEMMA UpdateSucceeds ==
  ASSUME NEW ms, ms \subseteq Mints, NEW fr \in FarmerOf(ms),
         NEW hs, hs \subseteq Mints, NEW fm \in FarmOf(hs),
         NEW now, FarmInOrder(fm, now), NEW current \in Nat
  PROVE  CheckVestedAndUpdate(fr, fm, current).ok
<1> DEFINE p == Promote(fr, fm)
           up == UpdateEligible(p.farmer, fm, current)
<1>1. p.ok
  <2>1. CASE EndOfVesting(fr, fm) = {}
    BY <2>1 DEF Promote
  <2>2. CASE EndOfVesting(fr, fm) # {}
    <3> DEFINE s == CHOOSE s \in EndOfVesting(fr, fm) : TRUE
               a == Accrue(fr, fm, s.startedAt - 1)
               y == Youngest(AgesUpTo(fm.snapshots, fr.vestedAt))
    <3>1. s \in EndOfVesting(fr, fm)
      BY <2>2
    <3>2. s.startedAt \in Nat /\ fr.nextFrom \in Nat /\ fr.vestedAt \in Nat /\ fm.snapshots \in Buffer
      BY <3>1, EndOfVestingType DEF FarmerOf, FarmOf
    <3>3. /\ p = [a EXCEPT !.farmer.nextFrom = s.startedAt,
                           !.farmer.staked   = @ + fr.vested,
                           !.farmer.vested   = 0]
          /\ a = [ok |-> a.ok, farmer |-> a.farmer]
      BY <2>2 DEF Promote, Accrue, SetHarvests
    <3>4. s \in FirstSnapshotAfter(fm.snapshots, fr.vestedAt)
      BY <3>1 DEF EndOfVesting
    <3> HIDE DEF s
    <3>5. y - 1 \in Index /\ s = Nth(fm.snapshots, y - 1)
      <4>1. /\ y - 1 \in Index
            /\ FirstSnapshotAfter(fm.snapshots, fr.vestedAt) = {Nth(fm.snapshots, y - 1)}
        BY <3>2, <3>4, FirstAfterIsNeighbour
      <4>2. QED
        BY <3>4, <4>1
    <3> HIDE DEF y
    <3>6. \/ fr.nextFrom <= s.startedAt - 1
          \/ /\ s.startedAt - 1 < Nth(fm.snapshots, y - 1).startedAt
             /\ Nth(fm.snapshots, y - 1).startedAt <= fr.nextFrom
      BY <3>2, <3>5
    <3>7. a.ok
      <4>1. s.startedAt - 1 \in Int
        BY <3>2
      <4>2. QED
        BY <3>5, <3>6, <4>1, AccrueSucceeds
    <3> HIDE DEF a, p
    <3>8. QED
      BY <3>3, <3>7
  <2>3. QED
    BY <2>1, <2>2
<1>2. PICK ks \in SUBSET Mints : p.farmer \in FarmerOf(ks)
  BY <1>1, PromoteEffect DEF IsFarmer
<1>3. up.ok
  <2> HIDE DEF p
  <2>1. CASE p.farmer.nextFrom >= current
    BY <2>1 DEF UpdateEligible
  <2>2. CASE ~(p.farmer.nextFrom >= current)
    <3> DEFINE a == Accrue(p.farmer, fm, current)
    <3>1. p.farmer.nextFrom \in Nat
      BY <1>2 DEF FarmerOf
    <3>2. a.ok
      BY <1>2, <2>2, <3>1, AccrueSucceeds
    <3>3. up = [a EXCEPT !.farmer.nextFrom = current + 1]
      BY <2>2 DEF UpdateEligible
    <3>4. a = [ok |-> a.ok, farmer |-> a.farmer]
      BY DEF Accrue, SetHarvests
    <3> HIDE DEF a, up
    <3>5. QED
      BY <3>2, <3>3, <3>4
  <2>3. QED
    BY <2>1, <2>2
<1>4. up = [ok |-> up.ok, farmer |-> up.farmer]
  BY Zenon DEF UpdateEligible, Accrue, SetHarvests
<1>5. CheckVestedAndUpdate(fr, fm, current) = [up EXCEPT !.ok = @ /\ p.ok]
  BY DEF CheckVestedAndUpdate, UpdatePromoted
<1> HIDE DEF up, p
<1>6. QED
  BY <1>1, <1>3, <1>4, <1>5, Zenon

\* Every farm's histories are in order.
HistoriesInOrder == \A f \in Farms : FarmExists(f) => FarmInOrder(farm[f], slot)

\* A step that writes one farm, whose histories are in order then.
LEMMA OneFarmInOrder ==
  ASSUME Typed, HistoriesInOrder, NEW f \in Farms, NEW x, farm' = [farm EXCEPT ![f] = x],
         slot' = slot, FarmInOrder(x, slot)
  PROVE  HistoriesInOrder'
<1>1. \A g \in Farms : farm'[g] = IF g = f THEN x ELSE farm[g]
  BY DEF Typed, FarmsTyped
<1>2. ASSUME NEW g \in Farms, farm'[g] # None PROVE FarmInOrder(farm'[g], slot')
  BY <1>1, <1>2 DEF HistoriesInOrder, FarmExists
<1>3. QED
  BY <1>2 DEF HistoriesInOrder, FarmExists

\* A step that leaves the farms and the clock alone.
LEMMA SameHistories ==
  ASSUME HistoriesInOrder, UNCHANGED <<slot, farm>> PROVE HistoriesInOrder'
BY DEF HistoriesInOrder, FarmExists

\* A new farm has no history.
LEMMA CreateFarmInOrder ==
  ASSUME Typed, HistoriesInOrder, NEW f \in Farms, NEW a \in Admins, CreateFarm(f, a)
  PROVE  HistoriesInOrder'
<1> DEFINE x == [admin |-> a, snapshots |-> EmptyBuffer, minWindow |-> 0,
                 harvests |-> [m \in {} |-> NoPeriods]]
<1>1. farm' = [farm EXCEPT ![f] = x] /\ slot' = slot
  BY DEF CreateFarm
<1>2. RingInOrder(EmptyBuffer, slot)
  BY EmptyRingInOrder DEF Typed, BalancesTyped
<1>3. FarmInOrder(x, slot)
  BY <1>2 DEF FarmInOrder
<1> HIDE DEF x
<1>4. QED
  BY <1>1, <1>3, OneFarmInOrder, Zenon

\* The owner and the window have no part in the order.
LEMMA SettingsInOrder ==
  ASSUME Typed, HistoriesInOrder, NEW f \in Farms,
         \/ \E a \in Admins : SetFarmOwner(f, a)
         \/ \E w \in Windows : SetMinSnapshotWindow(f, w)
  PROVE  HistoriesInOrder'
<1>1. FarmExists(f)
  BY DEF SetFarmOwner, SetMinSnapshotWindow
<1>2. PICK hs \in SUBSET Mints : farm[f] \in FarmOf(hs)
  BY <1>1, ExistingFarm
<1>3. ASSUME NEW x, x.snapshots = farm[f].snapshots, x.harvests = farm[f].harvests
      PROVE  FarmInOrder(x, slot)
  BY <1>1, <1>3 DEF HistoriesInOrder, FarmInOrder
<1>4. ASSUME NEW a, SetFarmOwner(f, a) PROVE HistoriesInOrder'
  <2> DEFINE x == [farm[f] EXCEPT !.admin = a]
  <2>1. farm' = [farm EXCEPT ![f] = x] /\ slot' = slot
    BY <1>4 DEF SetFarmOwner
  <2>2. x.snapshots = farm[f].snapshots /\ x.harvests = farm[f].harvests
    BY <1>2 DEF FarmOf
  <2> HIDE DEF x
  <2>3. QED
    BY <1>3, <2>1, <2>2, OneFarmInOrder, Zenon
<1>5. ASSUME NEW w, SetMinSnapshotWindow(f, w) PROVE HistoriesInOrder'
  <2> DEFINE x == [farm[f] EXCEPT !.minWindow = w]
  <2>1. farm' = [farm EXCEPT ![f] = x] /\ slot' = slot
    BY <1>5 DEF SetMinSnapshotWindow
  <2>2. x.snapshots = farm[f].snapshots /\ x.harvests = farm[f].harvests
    BY <1>2 DEF FarmOf
  <2> HIDE DEF x
  <2>3. QED
    BY <1>3, <2>1, <2>2, OneFarmInOrder, Zenon
<1>6. QED
  BY <1>4, <1>5

\* A farm with other harvests, all of them in order.
LEMMA OtherHarvestsInOrder ==
  ASSUME Typed, HistoriesInOrder, NEW f \in Farms, FarmExists(f), NEW h,
         \A m \in DOMAIN h : OrderAt(h[m], slot)
  PROVE  FarmInOrder([farm[f] EXCEPT !.harvests = h], slot)
<1>1. PICK hs \in SUBSET Mints : farm[f] \in FarmOf(hs)
  BY ExistingFarm
<1> DEFINE x == [farm[f] EXCEPT !.harvests = h]
<1>2. x.snapshots = farm[f].snapshots /\ x.harvests = h
  BY <1>1 DEF FarmOf
<1> HIDE DEF x
<1>3. FarmInOrder(x, slot)
  BY <1>2 DEF HistoriesInOrder, FarmInOrder
<1>4. QED
  BY <1>3 DEF x

\* A new harvest has no periods; the others keep theirs.
LEMMA HarvestsInOrder ==
  ASSUME Typed, HistoriesInOrder, NEW f \in Farms, NEW m \in Mints,
         AddHarvest(f, m) \/ RemoveHarvest(f, m)
  PROVE  HistoriesInOrder'
<1> DEFINE old == farm[f].harvests
<1>1. FarmExists(f)
  BY DEF AddHarvest, RemoveHarvest, HasHarvest
<1>2. \A k \in DOMAIN old : OrderAt(old[k], slot)
  BY <1>1 DEF HistoriesInOrder, FarmInOrder
<1>3. CASE AddHarvest(f, m)
  <2> DEFINE h == [k \in DOMAIN old \cup {m} |-> IF k = m THEN NoPeriods ELSE old[k]]
             x == [farm[f] EXCEPT !.harvests = h]
  <2>1. farm' = [farm EXCEPT ![f] = x] /\ slot' = slot
    BY <1>3 DEF AddHarvest
  <2>2. \A k \in DOMAIN h : OrderAt(h[k], slot)
    BY <1>2, NoPeriodsInOrder
  <2> HIDE DEF h
  <2>3. FarmInOrder(x, slot)
    BY <1>1, <2>2, OtherHarvestsInOrder, Zenon
  <2> HIDE DEF x
  <2>4. QED
    BY <2>1, <2>3, OneFarmInOrder, Zenon
<1>4. CASE RemoveHarvest(f, m)
  <2> DEFINE h == [k \in DOMAIN old \ {m} |-> old[k]]
             x == [farm[f] EXCEPT !.harvests = h]
  <2>1. farm' = [farm EXCEPT ![f] = x] /\ slot' = slot
    BY <1>4 DEF RemoveHarvest
  <2>2. \A k \in DOMAIN h : OrderAt(h[k], slot)
    BY <1>2
  <2> HIDE DEF h
  <2>3. FarmInOrder(x, slot)
    BY <1>1, <2>2, OtherHarvestsInOrder, Zenon
  <2> HIDE DEF x
  <2>4. QED
    BY <2>1, <2>3, OneFarmInOrder, Zenon
<1>5. QED
  BY <1>3, <1>4

\* The endpoint accepts only periods that keep the order.
LEMMA NewHarvestPeriodInOrder ==
  ASSUME Typed, HistoriesInOrder, NEW f \in Farms, NEW m \in Mints, NEW at \in Starts,
         NEW n \in Lengths, NEW tps \in Rates, NewHarvestPeriod(f, m, at, n, tps)
  PROVE  HistoriesInOrder'
<1> DEFINE ps       == farm[f].harvests[m]
           startsAt == IF at = 0 THEN slot ELSE at
           p        == [tps |-> tps, startsAt |-> startsAt, endsAt |-> startsAt + n - 1]
           new      == SetPeriod(ps, slot, p)
           h        == [farm[f].harvests EXCEPT ![m] = new]
           x        == [farm[f] EXCEPT !.harvests = h]
           oldest   == Oldest(farm[f].snapshots).startedAt
<1>1. /\ HasHarvest(f, m) /\ n # 0 /\ startsAt >= slot
      /\ AcceptsPeriod(ps, slot, p, oldest)
      /\ farm' = [farm EXCEPT ![f] = x] /\ slot' = slot
  BY DEF NewHarvestPeriod
<1>2. FarmExists(f) /\ m \in DOMAIN farm[f].harvests
  BY <1>1 DEF HasHarvest
<1>3. PICK hs \in SUBSET Mints : farm[f] \in FarmOf(hs)
  BY <1>2, ExistingFarm
<1>4. /\ farm[f].harvests \in [hs -> Periods] /\ m \in hs /\ ps \in Periods
      /\ \A k \in hs : OrderAt(farm[f].harvests[k], slot)
  BY <1>2, <1>3 DEF FarmOf, HistoriesInOrder, FarmInOrder
<1>5. n \in Nat /\ tps \in Nat /\ slot \in Nat /\ slot > 0 /\ at \in Int
  <2>1. slot \in Nat /\ slot > 0
    BY DEF Typed, BalancesTyped
  <2>2. at \in Int
    BY <2>1 DEF Starts
  <2>3. QED
    BY <2>1, <2>2
<1>6. p \in Period /\ p.startsAt >= slot
  <2>1. startsAt \in Int
    BY <1>5
  <2>2. startsAt >= slot /\ n # 0
    BY <1>1
  <2> HIDE DEF startsAt
  <2>3. startsAt \in Nat /\ startsAt + n - 1 \in Nat
    BY <1>5, <2>1, <2>2
  <2>4. QED
    BY <1>5, <2>2, <2>3 DEF Period
<1>7. OrderAt(new, slot)
  <2> HIDE DEF p, ps, oldest
  <2>1. OrderAt(ps, slot)
    BY <1>4 DEF ps
  <2>2. QED
    BY <1>1, <1>4, <1>5, <1>6, <2>1, SetPeriodKeepsOrder
<1> HIDE DEF new
<1>8. \A k \in DOMAIN h : OrderAt(h[k], slot)
  BY <1>4, <1>7
<1> HIDE DEF h
<1>9. FarmInOrder(x, slot)
  BY <1>2, <1>8, OtherHarvestsInOrder, Zenon
<1> HIDE DEF x
<1>10. QED
  BY <1>1, <1>9, OneFarmInOrder, Zenon

\* take_snapshot adds a snapshot only when it is later than all others.
LEMMA TakeSnapshotInOrder ==
  ASSUME Typed, HistoriesInOrder, NEW f \in Farms, TakeSnapshot(f)
  PROVE  HistoriesInOrder'
<1> DEFINE b == Push(farm[f].snapshots, stakeVault[f], slot)
           x == [farm[f] EXCEPT !.snapshots = b]
<1>1. /\ farm' = [farm EXCEPT ![f] = x] /\ slot' = slot /\ FarmExists(f)
      /\ SufficientTimePassed(farm[f].snapshots, farm[f].minWindow, slot)
  BY DEF TakeSnapshot
<1>2. PICK hs \in SUBSET Mints : farm[f] \in FarmOf(hs)
  BY <1>1, ExistingFarm
<1>3. /\ farm[f].snapshots \in Buffer /\ farm[f].minWindow \in Nat
      /\ RingInOrder(farm[f].snapshots, slot)
      /\ \A m \in DOMAIN farm[f].harvests : OrderAt(farm[f].harvests[m], slot)
  BY <1>1, <1>2 DEF FarmOf, HistoriesInOrder, FarmInOrder
<1>4. stakeVault[f] \in Nat /\ slot \in Nat
  BY DEF Typed, BalancesTyped
<1>5. RingInOrder(b, slot)
  BY <1>1, <1>3, <1>4, PushKeepsRingOrder
<1> HIDE DEF b
<1>6. x.snapshots = b /\ x.harvests = farm[f].harvests
  BY <1>2 DEF FarmOf
<1> HIDE DEF x
<1>7. FarmInOrder(x, slot)
  BY <1>3, <1>5, <1>6 DEF FarmInOrder
<1>8. QED
  BY <1>1, <1>7, OneFarmInOrder, Zenon

\* Time passes.
LEMMA TickInOrder ==
  ASSUME Typed, HistoriesInOrder, Tick PROVE HistoriesInOrder'
<1>1. slot \in Nat /\ slot' \in Nat /\ slot <= slot' /\ farm' = farm
  BY DEF Tick, Typed, BalancesTyped
<1>2. ASSUME NEW f \in Farms, FarmExists(f) PROVE FarmInOrder(farm[f], slot')
  <2>1. PICK hs \in SUBSET Mints : farm[f] \in FarmOf(hs)
    BY <1>2, ExistingFarm
  <2>2. /\ farm[f].snapshots \in Buffer /\ farm[f].harvests \in [hs -> Periods]
        /\ RingInOrder(farm[f].snapshots, slot)
        /\ \A m \in hs : OrderAt(farm[f].harvests[m], slot)
    BY <1>2, <2>1 DEF FarmOf, HistoriesInOrder, FarmInOrder
  <2>3. RingInOrder(farm[f].snapshots, slot')
    BY <1>1, <2>2, RingStaysInOrder
  <2>4. \A m \in hs : OrderAt(farm[f].harvests[m], slot')
    BY <1>1, <2>2, PeriodsStillInOrder
  <2>5. QED
    BY <2>2, <2>3, <2>4 DEF FarmInOrder
<1>3. QED
  BY <1>1, <1>2 DEF HistoriesInOrder, FarmExists

\* Every transaction keeps histories in order.
LEMMA HistoriesInOrderStep ==
  ASSUME Typed, HistoriesInOrder, [Next]_vars PROVE HistoriesInOrder'
<1>1. ASSUME NEW f \in Farms, AdminNext(f) PROVE HistoriesInOrder'
  <2>1. CASE \E a \in Admins : CreateFarm(f, a)
    BY <2>1, CreateFarmInOrder
  <2>2. CASE \/ \E a \in Admins : SetFarmOwner(f, a)
             \/ \E w \in Windows : SetMinSnapshotWindow(f, w)
    BY <2>2, SettingsInOrder
  <2>3. CASE \E m \in Mints : AddHarvest(f, m) \/ RemoveHarvest(f, m)
    BY <2>3, HarvestsInOrder
  <2>4. CASE \E m \in Mints, at \in Starts, n \in Lengths, tps \in Rates :
               NewHarvestPeriod(f, m, at, n, tps)
    BY <2>4, NewHarvestPeriodInOrder
  <2>5. CASE \/ \E g \in {t \in Farms : <<f, t>> \in Pairs} : WhitelistFarmForCompounding(f, g)
             \/ \E g \in Farms : DewhitelistFarmForCompounding(f, g)
    <3>1. UNCHANGED <<slot, farm>>
      BY <2>5, Zenon DEF WhitelistFarmForCompounding, DewhitelistFarmForCompounding
    <3>2. QED
      BY <3>1, SameHistories
  <2>6. QED
    BY <1>1, <2>1, <2>2, <2>3, <2>4, <2>5 DEF AdminNext
<1>2. ASSUME NEW f \in Farms, NEW u \in Users, FarmerNext(f, u) PROVE UNCHANGED <<slot, farm>>
  BY <1>2 DEF FarmerNext, CreateFarmer, UpdateEligibleHarvestUntil, StartFarming, StopFarming,
              ClaimEligibleHarvest, Airdrop, CompoundSameFarm, CloseFarmer
<1>3. ASSUME NEW f, NEW g, NEW u, CompoundAcrossFarms(f, g, u) PROVE UNCHANGED <<slot, farm>>
  BY <1>3 DEF CompoundAcrossFarms
<1>4. CASE UNCHANGED vars
  BY <1>4, SameHistories DEF vars
<1>5. QED
  BY <1>1, <1>2, <1>3, <1>4, TakeSnapshotInOrder, TickInOrder, SameHistories DEF Next

\* The computation of a farmer's harvest never fails, whatever the order of
\* transactions and wherever it is asked to stop: a farmer can always be
\* updated, and so can always get the stake out.
THEOREM UpdatesSucceed == Spec => []UpdateNeverFails
<1>1. Init => HistoriesInOrder
  BY DEF Init, HistoriesInOrder, FarmExists
<1>2. Typed /\ HistoriesInOrder /\ [Next]_vars => HistoriesInOrder'
  BY HistoriesInOrderStep
<1>3. Typed /\ HistoriesInOrder => UpdateNeverFails
  <2>1. ASSUME Typed, HistoriesInOrder, NEW f \in Farms, NEW u \in Farmers(f),
               NEW until \in 0 .. slot
        PROVE  Updated(f, u, until).ok
    <3>1. u \in Users /\ FarmerExists(f, u)
      BY DEF Farmers
    <3>2. FarmExists(f) /\ \E ms \in SUBSET Mints : farmer[f][u] \in FarmerOf(ms)
      BY <2>1, <3>1, ExistingFarmer
    <3>3. PICK ms \in SUBSET Mints : farmer[f][u] \in FarmerOf(ms)
      BY <3>2
    <3>4. PICK hs \in SUBSET Mints : farm[f] \in FarmOf(hs)
      BY <2>1, <3>2, ExistingFarm
    <3>5. FarmInOrder(farm[f], slot) /\ until \in Nat
      BY <2>1, <3>2 DEF HistoriesInOrder
    <3>6. CheckVestedAndUpdate(farmer[f][u], farm[f], until).ok
      BY <3>3, <3>4, <3>5, UpdateSucceeds
    <3>7. QED
      BY <3>6 DEF Updated
  <2>2. QED
    BY <2>1 DEF UpdateNeverFails
<1>4. QED
  BY AlwaysTyped, <1>1, <1>2, <1>3, PTL DEF Spec

-----------------------------------------------------------------------------
(* Solvency.  A harvest vault is to pay what farmers were credited, what   *)
(* they earned since their last update, and what is still to be released.  *)
(* First one account: what it earned and was not credited, before it is    *)
(* rounded, counts in units of 1 / Wad of a token.                         *)

USE WadAssumption, UsersAssumption

\* The snapshot that ends a farmer's vesting, as a function of the ring.
VestingOver(fr, b) == IF fr.vested = 0 THEN {} ELSE FirstSnapshotAfter(b, fr.vestedAt)

\* The slot from which the farmer's vested tokens earn, as seen from a slot.
EarnsFrom(fr, b, upto) ==
  IF \E s \in VestingOver(fr, b) : s.startedAt <= upto
    THEN (CHOOSE s \in VestingOver(fr, b) : TRUE).startedAt
    ELSE upto + 1

\* What a farmer earned up to a slot and was not credited, before rounding.
Unpaid(fr, b, ps, upto) ==
  LET at == EarnsFrom(fr, b, upto)
  IN  Earned(b, ps, fr.nextFrom, at - 1, fr.staked)
        + Earned(b, ps, at, upto, fr.staked + fr.vested)

\* All harvest up to before the slot is computed, but none of what follows the
\* end of vesting.
Near(fr, b, upto) ==
  /\ fr.nextFrom <= upto + 1
  /\ \A s \in VestingOver(fr, b) : fr.nextFrom <= s.startedAt

\* Of a farm, only the ring decides when vesting ends.
LEMMA EndOfVestingByRing ==
  ASSUME NEW fr, NEW fm
  PROVE  EndOfVesting(fr, fm) = VestingOver(fr, fm.snapshots)
BY DEF EndOfVesting, VestingOver

\* The numbers of a farmer account.
LEMMA AccountType ==
  ASSUME NEW ms, NEW fr \in FarmerOf(ms)
  PROVE  /\ fr.staked \in Nat /\ fr.vested \in Nat /\ fr.vestedAt \in Nat /\ fr.nextFrom \in Nat
         /\ fr.staked + fr.vested \in Nat
         /\ \A m : Credit(fr, m) \in Nat
<1>1. /\ fr.staked \in Nat /\ fr.vested \in Nat /\ fr.vestedAt \in Nat /\ fr.nextFrom \in Nat
      /\ fr.harvests \in [ms -> Nat]
  BY DEF FarmerOf
<1>2. QED
  BY <1>1 DEF Credit

\* Vesting ends with one snapshot at most, written after the deposit.
LEMMA VestingOverType ==
  ASSUME NEW ms, NEW fr \in FarmerOf(ms), NEW b \in Buffer, NEW s \in VestingOver(fr, b)
  PROVE  /\ s.startedAt \in Nat /\ s.startedAt > fr.vestedAt /\ VestingOver(fr, b) = {s}
         /\ \E a \in Index : s = Nth(b, a)
<1>1. fr.vestedAt \in Nat
  BY AccountType
<1>2. /\ VestingOver(fr, b) = FirstSnapshotAfter(b, fr.vestedAt)
      /\ s \in FirstSnapshotAfter(b, fr.vestedAt)
  BY DEF VestingOver
<1>3. s \in Snapshot /\ s.startedAt > fr.vestedAt /\ VestingOver(fr, b) = {s}
  BY <1>1, <1>2, FirstAfterType
<1>4. \E a \in Index : s = Nth(b, a)
  <2> DEFINE y == Youngest(AgesUpTo(b, fr.vestedAt))
  <2>1. y - 1 \in Index /\ FirstSnapshotAfter(b, fr.vestedAt) = {Nth(b, y - 1)}
    BY <1>1, <1>2, FirstAfterIsNeighbour
  <2> HIDE DEF y
  <2>2. QED
    BY <1>2, <2>1
<1>5. QED
  BY <1>3, <1>4 DEF Snapshot, Slot

\* The snapshots of a ring in order are of the past.
LEMMA NthIsPast ==
  ASSUME NEW b \in Buffer, NEW now \in Nat, RingInOrder(b, now), NEW a \in Index
  PROVE  Nth(b, a).startedAt \in Nat /\ Nth(b, a).startedAt <= now
<1>1. /\ 0 \in Index /\ Nth(b, 0) = Latest(b)
      /\ Nth(b, a).startedAt \in Nat /\ Nth(b, 0).startedAt \in Nat
  BY EndsOfRing, NthType DEF Snapshot, Slot
<1>2. Nth(b, 0).startedAt <= now
  BY <1>1 DEF RingInOrder
<1>3. a = 0 \/ 0 < a
  BY DEF Index
<1>4. CASE 0 < a
  <2>1. Nth(b, 0).startedAt > Nth(b, a).startedAt \/ Nth(b, a).startedAt = 0
    BY <1>1, <1>4 DEF RingInOrder
  <2>2. QED
    BY <1>1, <1>2, <2>1
<1>5. QED
  BY <1>1, <1>2, <1>3, <1>4

\* The vested tokens earn from the snapshot on, or not yet.
LEMMA EarnsFromType ==
  ASSUME NEW ms, NEW fr \in FarmerOf(ms), NEW b \in Buffer, NEW upto \in Nat
  PROVE  /\ EarnsFrom(fr, b, upto) \in Nat
         /\ EarnsFrom(fr, b, upto) <= upto + 1
         /\ \A s \in VestingOver(fr, b) :
              EarnsFrom(fr, b, upto) = IF s.startedAt <= upto THEN s.startedAt ELSE upto + 1
         /\ VestingOver(fr, b) = {} => EarnsFrom(fr, b, upto) = upto + 1
         /\ Near(fr, b, upto) => fr.nextFrom <= EarnsFrom(fr, b, upto)
<1>0. fr.nextFrom \in Nat /\ upto + 1 \in Nat
  BY AccountType
<1>1. CASE VestingOver(fr, b) = {}
  BY <1>0, <1>1 DEF EarnsFrom, Near
<1>2. ASSUME NEW s \in VestingOver(fr, b)
      PROVE  /\ s.startedAt \in Nat
             /\ EarnsFrom(fr, b, upto) = IF s.startedAt <= upto THEN s.startedAt ELSE upto + 1
             /\ \A t \in VestingOver(fr, b) : t = s
  <2>1. s.startedAt \in Nat /\ VestingOver(fr, b) = {s}
    BY VestingOverType
  <2>2. (CHOOSE t \in VestingOver(fr, b) : TRUE) = s
    BY <2>1
  <2>3. QED
    BY <2>1, <2>2 DEF EarnsFrom
<1>3. CASE VestingOver(fr, b) # {}
  <2>1. PICK s : s \in VestingOver(fr, b)
    BY <1>3
  <2>2. /\ s.startedAt \in Nat
        /\ EarnsFrom(fr, b, upto) = IF s.startedAt <= upto THEN s.startedAt ELSE upto + 1
        /\ \A t \in VestingOver(fr, b) : t = s
    BY <1>2, <2>1
  <2>3. EarnsFrom(fr, b, upto) \in Nat /\ EarnsFrom(fr, b, upto) <= upto + 1
    BY <1>0, <2>2
  <2>4. Near(fr, b, upto) => fr.nextFrom <= EarnsFrom(fr, b, upto)
    BY <1>0, <2>1, <2>2 DEF Near
  <2>5. QED
    BY <1>2, <1>3, <2>3, <2>4
<1>4. QED
  BY <1>1, <1>3

\* What is unpaid is a number.
LEMMA UnpaidType ==
  ASSUME NEW ms, NEW fr \in FarmerOf(ms), NEW b \in Buffer, NEW ps \in Periods, NEW upto \in Nat
  PROVE  Unpaid(fr, b, ps, upto) \in Nat
<1> DEFINE at == EarnsFrom(fr, b, upto)
           both == fr.staked + fr.vested
<1>1. at \in Nat /\ fr.nextFrom \in Nat /\ fr.staked \in Nat /\ both \in Nat
  BY EarnsFromType, AccountType
<1>2. Unpaid(fr, b, ps, upto) = Earned(b, ps, fr.nextFrom, at - 1, fr.staked)
                                  + Earned(b, ps, at, upto, both)
  BY DEF Unpaid
<1> HIDE DEF at, both
<1>3. at - 1 \in Int /\ at \in Int /\ fr.nextFrom \in Int /\ upto \in Int
  BY <1>1
<1>4. Earned(b, ps, fr.nextFrom, at - 1, fr.staked) \in Nat
  BY <1>1, <1>3, EarnedType
<1>5. Earned(b, ps, at, upto, both) \in Nat
  BY <1>1, <1>3, EarnedType
<1>6. QED
  BY <1>2, <1>4, <1>5

\* Less stake, or stake that vests for longer, earns less.
LEMMA UnpaidShrinks ==
  ASSUME NEW ms, NEW fr \in FarmerOf(ms), NEW ms2, NEW new \in FarmerOf(ms2),
         NEW b \in Buffer, NEW c \in Buffer, NEW ps \in Periods, NEW upto \in Nat,
         Near(fr, b, upto), new.nextFrom = fr.nextFrom, new.staked <= fr.staked,
         EarnsFrom(fr, b, upto) <= EarnsFrom(new, c, upto),
         \/ new.staked + new.vested <= fr.staked + fr.vested
         \/ EarnsFrom(new, c, upto) = upto + 1
  PROVE  LET at == EarnsFrom(new, c, upto)
         IN  Earned(b, ps, new.nextFrom, at - 1, new.staked)
               + Earned(b, ps, at, upto, new.staked + new.vested) <= Unpaid(fr, b, ps, upto)
<1> DEFINE at    == EarnsFrom(fr, b, upto)
           later == EarnsFrom(new, c, upto)
           since == fr.nextFrom
           less  == fr.staked
           more  == fr.staked + fr.vested
           less2 == new.staked
           more2 == new.staked + new.vested
<1>1. /\ at \in Nat /\ since <= at
  BY EarnsFromType
<1>2. later \in Nat /\ later <= upto + 1
  BY EarnsFromType
<1>3. since \in Nat /\ less \in Nat /\ more \in Nat /\ less <= more
  BY AccountType
<1>4. less2 \in Nat /\ more2 \in Nat
  BY AccountType
<1>5. Unpaid(fr, b, ps, upto) = Earned(b, ps, since, at - 1, less) + Earned(b, ps, at, upto, more)
  BY DEF Unpaid
<1>6. at <= later /\ less2 <= less /\ (more2 <= more \/ later = upto + 1) /\ new.nextFrom = since
  OBVIOUS
<1>7. since \in Int /\ at \in Int /\ later \in Int /\ upto \in Int /\ b \in Buffer /\ ps \in Periods
  BY <1>1, <1>2, <1>3
<1> HIDE DEF at, later, since, less, more, less2, more2
<1>8. Earned(b, ps, since, later - 1, less2) + Earned(b, ps, later, upto, more2)
        <= Earned(b, ps, since, at - 1, less) + Earned(b, ps, at, upto, more)
  BY ONLY <1>1, <1>2, <1>3, <1>4, <1>6, <1>7, EarnedLater, Zenon
<1>9. QED
  BY <1>5, <1>6, <1>8 DEF later, less2, more2

\* The same of one ring.
LEMMA UnpaidOfLess ==
  ASSUME NEW ms, NEW fr \in FarmerOf(ms), NEW ms2, NEW new \in FarmerOf(ms2),
         NEW b \in Buffer, NEW ps \in Periods, NEW upto \in Nat,
         Near(fr, b, upto), new.nextFrom = fr.nextFrom, new.staked <= fr.staked,
         EarnsFrom(fr, b, upto) <= EarnsFrom(new, b, upto),
         \/ new.staked + new.vested <= fr.staked + fr.vested
         \/ EarnsFrom(new, b, upto) = upto + 1
  PROVE  Unpaid(new, b, ps, upto) <= Unpaid(fr, b, ps, upto)
BY UnpaidShrinks DEF Unpaid

\* A snapshot ends vesting no earlier than it would have ended.
LEMMA UnpaidAfterPush ==
  ASSUME NEW ms, NEW fr \in FarmerOf(ms), NEW b \in Buffer, NEW ps \in Periods, NEW upto \in Nat,
         Near(fr, b, upto), NEW amount \in Nat, NEW clock \in Nat, upto < clock
  PROVE  Unpaid(fr, Push(b, amount, clock), ps, upto) <= Unpaid(fr, b, ps, upto)
<1> DEFINE c == Push(b, amount, clock)
           at == EarnsFrom(fr, b, upto)
           later == EarnsFrom(fr, c, upto)
           before == later - 1
           since == fr.nextFrom
           less == fr.staked
           more == fr.staked + fr.vested
<1>1. c \in Buffer
  BY PushType
<1>2. ASSUME NEW s \in VestingOver(fr, c)
      PROVE  s.startedAt = clock \/ s \in VestingOver(fr, b)
  <2>1. fr.vested # 0 /\ s \in FirstSnapshotAfter(c, fr.vestedAt) /\ fr.vestedAt \in Nat
    BY <1>2, AccountType DEF VestingOver
  <2>2. s = [staked |-> amount, startedAt |-> clock] \/ s \in FirstSnapshotAfter(b, fr.vestedAt)
    BY <2>1, FirstAfterPush
  <2>3. QED
    BY <2>1, <2>2 DEF VestingOver
<1> HIDE DEF c
<1>3. at <= later
  <2>1. at \in Nat /\ at <= upto + 1
    BY EarnsFromType
  <2>2. CASE VestingOver(fr, c) = {}
    <3>1. later = upto + 1
      BY <1>1, <2>2, EarnsFromType
    <3>2. QED
      BY <2>1, <3>1
  <2>3. CASE VestingOver(fr, c) # {}
    <3>1. PICK s : s \in VestingOver(fr, c)
      BY <2>3
    <3>2. later = IF s.startedAt <= upto THEN s.startedAt ELSE upto + 1
      BY <1>1, <3>1, EarnsFromType
    <3>3. CASE s.startedAt = clock
      BY <2>1, <3>2, <3>3
    <3>4. CASE s \in VestingOver(fr, b)
      <4>1. at = IF s.startedAt <= upto THEN s.startedAt ELSE upto + 1
        BY <3>4, EarnsFromType
      <4>2. QED
        BY <2>1, <3>2, <4>1
    <3>5. QED
      BY <1>2, <3>1, <3>3, <3>4
  <2>4. QED
    BY <2>2, <2>3
<1>4. later \in Nat /\ later <= upto + 1
  BY <1>1, EarnsFromType
<1>5. since \in Nat /\ less \in Nat /\ more \in Nat
  BY AccountType
<1>6. Earned(b, ps, since, later - 1, less) + Earned(b, ps, later, upto, more) <= Unpaid(fr, b, ps, upto)
  <2>1. fr.staked <= fr.staked /\ fr.staked + fr.vested <= fr.staked + fr.vested
    BY <1>5
  <2>2. QED
    BY <1>1, <1>3, <2>1, UnpaidShrinks
<1>7. Unpaid(fr, c, ps, upto) = Earned(c, ps, since, before, less) + Earned(c, ps, later, upto, more)
  BY DEF Unpaid
<1> HIDE DEF at, later, since, less, more
<1>8. before \in Int /\ before < clock /\ since \in Int /\ later \in Int /\ upto \in Int
  BY <1>4, <1>5
<1> HIDE DEF before
<1>9. Earned(c, ps, since, before, less) <= Earned(b, ps, since, before, less)
  BY <1>5, <1>8, EarnedAfterPush DEF c
<1>10. Earned(c, ps, later, upto, more) <= Earned(b, ps, later, upto, more)
  BY <1>5, <1>8, EarnedAfterPush DEF c
<1>11. /\ Earned(c, ps, since, before, less) \in Nat /\ Earned(b, ps, since, before, less) \in Nat
       /\ Earned(c, ps, later, upto, more) \in Nat /\ Earned(b, ps, later, upto, more) \in Nat
  <2>1. Earned(c, ps, since, before, less) \in Nat /\ Earned(b, ps, since, before, less) \in Nat
    BY <1>1, <1>5, <1>8, EarnedType
  <2>2. Earned(c, ps, later, upto, more) \in Nat /\ Earned(b, ps, later, upto, more) \in Nat
    BY <1>1, <1>5, <1>8, EarnedType
  <2>3. QED
    BY <2>1, <2>2
<1>12. Unpaid(fr, b, ps, upto) \in Nat
  BY UnpaidType
<1>13. QED
  BY <1>6, <1>7, <1>9, <1>10, <1>11, <1>12 DEF c, before

\* Periods that release no more up to a slot pay no more.
LEMMA UnpaidAtLowerRates ==
  ASSUME NEW ms, NEW fr \in FarmerOf(ms), NEW b \in Buffer, NEW ps \in Periods,
         NEW qs \in Periods, NEW upto \in Nat,
         \A s \in Int : s <= upto => TpsAt(qs, s) <= TpsAt(ps, s)
  PROVE  Unpaid(fr, b, qs, upto) <= Unpaid(fr, b, ps, upto)
<1> DEFINE at == EarnsFrom(fr, b, upto)
           before == at - 1
           since == fr.nextFrom
           less == fr.staked
           more == fr.staked + fr.vested
<1>1. /\ since \in Int /\ at \in Int /\ at <= upto + 1 /\ before \in Int /\ upto \in Int
      /\ less \in Nat /\ more \in Nat /\ before <= upto
  BY AccountType, EarnsFromType
<1>2. /\ Unpaid(fr, b, ps, upto) = Earned(b, ps, since, before, less) + Earned(b, ps, at, upto, more)
      /\ Unpaid(fr, b, qs, upto) = Earned(b, qs, since, before, less) + Earned(b, qs, at, upto, more)
  BY DEF Unpaid
<1> HIDE DEF at, before, since, less, more
<1>3. Earned(b, qs, since, before, less) <= Earned(b, ps, since, before, less)
  <2>1. \A s \in since .. before : TpsAt(qs, s) <= TpsAt(ps, s)
    BY <1>1
  <2>2. QED
    BY <1>1, <2>1, EarnedAtLowerRates
<1>4. Earned(b, qs, at, upto, more) <= Earned(b, ps, at, upto, more)
  <2>1. \A s \in at .. upto : TpsAt(qs, s) <= TpsAt(ps, s)
    BY <1>1
  <2>2. QED
    BY <1>1, <2>1, EarnedAtLowerRates
<1>5. /\ Earned(b, qs, since, before, less) \in Nat /\ Earned(b, ps, since, before, less) \in Nat
  BY <1>1, EarnedType
<1>6. /\ Earned(b, qs, at, upto, more) \in Nat /\ Earned(b, ps, at, upto, more) \in Nat
  BY <1>1, EarnedType
<1>7. QED
  BY <1>2, <1>3, <1>4, <1>5, <1>6

\* A farmer's stake that earns in the open window.
Earning(fr, b) == IF VestingOver(fr, b) = {} THEN fr.staked ELSE fr.staked + fr.vested

\* One slot more earns a part of its rate.
LEMMA OneSlotMore ==
  ASSUME NEW ms, NEW fr \in FarmerOf(ms), NEW b \in Buffer, NEW ps \in Periods,
         NEW upto \in Nat, NEW next \in Nat, next = upto + 1, RingInOrder(b, next),
         Near(fr, b, upto)
  PROVE  Unpaid(fr, b, ps, next)
           = Unpaid(fr, b, ps, upto) + TpsAt(ps, next) * PartOf(b, Earning(fr, b))
<1> DEFINE since == fr.nextFrom
           less == fr.staked
           more == fr.staked + fr.vested
<1>1. since \in Int /\ less \in Nat /\ more \in Nat /\ since <= next /\ upto \in Int /\ next \in Int
  BY AccountType DEF Near
<1>2. CASE VestingOver(fr, b) = {}
  <2> DEFINE at == EarnsFrom(fr, b, upto)
             later == EarnsFrom(fr, b, next)
             before == at - 1
             last == later - 1
  <2>1. at = next /\ later = next + 1 /\ before = upto /\ last = next
    <3>1. EarnsFrom(fr, b, upto) = upto + 1
      BY <1>2, EarnsFromType
    <3>2. EarnsFrom(fr, b, next) = next + 1
      BY <1>2, EarnsFromType
    <3>3. QED
      BY <3>1, <3>2
  <2>2. /\ Unpaid(fr, b, ps, upto) = Earned(b, ps, since, before, less) + Earned(b, ps, at, upto, more)
        /\ Unpaid(fr, b, ps, next) = Earned(b, ps, since, last, less) + Earned(b, ps, later, next, more)
    BY DEF Unpaid
  <2> HIDE DEF at, later, before, last, since, less, more
  <2>3. Earned(b, ps, at, upto, more) = 0
    BY <1>1, <2>1, NothingEarned
  <2>4. Earned(b, ps, later, next, more) = 0
    BY <1>1, <2>1, NothingEarned
  <2>5. Earned(b, ps, since, next, less) = Earned(b, ps, since, upto, less) + Earned(b, ps, next, next, less)
    <3>1. upto <= next /\ next \in Int
      BY <1>1
    <3>2. QED
      BY <1>1, <3>1, EarnedSplits
  <2>6. Earned(b, ps, next, next, less) = TpsAt(ps, next) * PartOf(b, less)
    BY <1>1, EarnedNow
  <2>7. Earning(fr, b) = less
    BY <1>2 DEF Earning, less
  <2>8. Earned(b, ps, since, upto, less) \in Nat /\ Earned(b, ps, next, next, less) \in Nat
    BY <1>1, EarnedType
  <2>9. QED
    BY <2>1, <2>2, <2>3, <2>4, <2>5, <2>6, <2>7, <2>8
<1>3. CASE VestingOver(fr, b) # {}
  <2>1. PICK s : s \in VestingOver(fr, b)
    BY <1>3
  <2>2. s.startedAt \in Nat /\ s.startedAt <= next
    <3>1. PICK a \in Index : s = Nth(b, a)
      BY <2>1, VestingOverType
    <3>2. QED
      BY <3>1, NthIsPast
  <2> DEFINE at == s.startedAt
             before == at - 1
  <2>3. EarnsFrom(fr, b, upto) = at /\ EarnsFrom(fr, b, next) = at
    <3>1. EarnsFrom(fr, b, upto) = IF s.startedAt <= upto THEN s.startedAt ELSE upto + 1
      BY <2>1, EarnsFromType
    <3>2. EarnsFrom(fr, b, next) = IF s.startedAt <= next THEN s.startedAt ELSE next + 1
      BY <2>1, EarnsFromType
    <3>3. QED
      BY <2>2, <3>1, <3>2
  <2>4. /\ Unpaid(fr, b, ps, upto) = Earned(b, ps, since, before, less) + Earned(b, ps, at, upto, more)
        /\ Unpaid(fr, b, ps, next) = Earned(b, ps, since, before, less) + Earned(b, ps, at, next, more)
    BY <2>3 DEF Unpaid
  <2>5. at \in Int /\ before \in Int /\ at <= next
    BY <2>2
  <2> HIDE DEF at, before, since, less, more
  <2>6. Earned(b, ps, at, next, more) = Earned(b, ps, at, upto, more) + Earned(b, ps, next, next, more)
    <3>1. upto <= next /\ next \in Int
      BY <1>1
    <3>2. QED
      BY <1>1, <2>5, <3>1, EarnedSplits
  <2>7. Earned(b, ps, next, next, more) = TpsAt(ps, next) * PartOf(b, more)
    BY <1>1, EarnedNow
  <2>8. Earning(fr, b) = more
    BY <1>3 DEF Earning, more
  <2>9. /\ Earned(b, ps, at, upto, more) \in Nat /\ Earned(b, ps, next, next, more) \in Nat
    BY <1>1, <2>5, EarnedType
  <2>10. Earned(b, ps, since, before, less) \in Nat
    BY <1>1, <2>5, EarnedType
  <2>11. QED
    BY <2>4, <2>6, <2>7, <2>8, <2>9, <2>10
<1>4. QED
  BY <1>2, <1>3

\* Nothing is unpaid after a harvest up to the slot itself.
LEMMA NothingUnpaid ==
  ASSUME NEW ms, NEW fr \in FarmerOf(ms), NEW b \in Buffer, NEW ps \in Periods,
         NEW upto \in Nat, Near(fr, b, upto), fr.nextFrom = upto + 1
  PROVE  Unpaid(fr, b, ps, upto) = 0
<1> DEFINE since == fr.nextFrom
           at == EarnsFrom(fr, b, upto)
           before == at - 1
           less == fr.staked
           more == fr.staked + fr.vested
<1>1. less \in Nat /\ more \in Nat /\ since \in Int
  BY AccountType
<1>2. at = upto + 1
  <2>1. at \in Nat /\ at <= upto + 1 /\ fr.nextFrom <= at
    BY EarnsFromType
  <2>2. QED
    BY <2>1
<1>3. at \in Int /\ before \in Int /\ upto \in Int /\ before < since /\ upto < at
  BY <1>2
<1>4. Unpaid(fr, b, ps, upto) = Earned(b, ps, since, before, less) + Earned(b, ps, at, upto, more)
  BY DEF Unpaid
<1> HIDE DEF at, before, since, less, more
<1>5. Earned(b, ps, since, before, less) = 0
  BY <1>1, <1>3, NothingEarned
<1>6. Earned(b, ps, at, upto, more) = 0
  BY <1>1, <1>3, NothingEarned
<1>7. QED
  BY <1>4, <1>5, <1>6

\* What the stakes e of S earn of one slot's rate.
PartsOf(b, rate, e, S) == [x \in S |-> rate * PartOf(b, e[x])]

\* The parts of a slot are no more than the slot's rate.
LEMMA SharesOfOneSlot ==
  ASSUME NEW S, IsFiniteSet(S), NEW b \in Buffer, NEW e, \A x \in S : e[x] \in Nat,
         Latest(b).startedAt > 0 => SumFunctionOnSet(e, S) <= Latest(b).staked,
         NEW rate \in Nat
  PROVE  /\ \A x \in S : PartsOf(b, rate, e, S)[x] \in Nat
         /\ SumFunctionOnSet(PartsOf(b, rate, e, S), S) <= Wad * rate
<1> DEFINE total == Latest(b).staked
           share == [x \in S |-> PartOf(b, e[x])]
           parts == PartsOf(b, rate, e, S)
<1>1. 0 \in Index /\ Nth(b, 0) = Latest(b) /\ total \in Nat
  BY EndsOfRing DEF Snapshot
<1>2. \A x \in S : share[x] \in Nat
  <2>1. ASSUME NEW x \in S PROVE share[x] \in Nat
    <3>1. CASE 0 \in StakedAges(b)
      BY <1>1, <3>1, StakedShare DEF PartOf
    <3>2. CASE 0 \notin StakedAges(b)
      BY <3>2 DEF PartOf
    <3>3. QED
      BY <3>1, <3>2
  <2>2. QED
    BY <2>1
<1>3. \A x \in S : parts[x] = rate * share[x] /\ parts[x] \in Nat
  <2>1. ASSUME NEW x \in S PROVE parts[x] = rate * share[x] /\ parts[x] \in Nat
    <3>1. parts[x] = rate * share[x]
      BY DEF PartsOf
    <3>2. share[x] \in Nat
      BY <1>2
    <3> HIDE DEF parts, share
    <3>3. QED
      BY <3>1, <3>2, Products
  <2>2. QED
    BY <2>1
<1>4. CASE 0 \in StakedAges(b)
  <2> DEFINE scaled == [x \in S |-> total * share[x]]
             limits == [x \in S |-> Wad * e[x]]
  <2>1. total > 0 /\ SumFunctionOnSet(e, S) <= total
    BY <1>1, <1>4 DEF StakedAges
  <2>2. ASSUME NEW x \in S
        PROVE  /\ scaled[x] = total * share[x] /\ scaled[x] \in Nat
               /\ limits[x] = Wad * e[x] /\ limits[x] \in Nat /\ scaled[x] <= limits[x]
    <3> DEFINE n == e[x] * Wad
               h == share[x]
    <3>1. h = n \div total
      BY <1>1, <1>4 DEF PartOf, Share
    <3>2. scaled[x] = total * h /\ limits[x] = Wad * e[x]
      OBVIOUS
    <3>3. e[x] \in Nat /\ h \in Nat
      BY <1>2
    <3>4. n \in Nat /\ Wad * e[x] = n
      BY <3>3
    <3> HIDE DEF n, h, scaled, limits, total
    <3>5. total \in Nat \ {0}
      BY <1>1, <2>1
    <3>6. total * (n \div total) <= n /\ total * h \in Nat
      BY <3>3, <3>4, <3>5, Truncates, Products
    <3>7. QED
      BY <3>1, <3>2, <3>4, <3>6 DEF h
  <2> HIDE DEF scaled, limits, share, parts, total
  <2>3. SumFunctionOnSet(scaled, S) = total * SumFunctionOnSet(share, S)
    BY <1>1, <1>2, <2>2, SumOfMultiples
  <2>4. SumFunctionOnSet(limits, S) = Wad * SumFunctionOnSet(e, S)
    BY <2>2, SumOfMultiples, Zenon
  <2>5. SumFunctionOnSet(scaled, S) <= SumFunctionOnSet(limits, S)
    BY <2>2, SumMonotone
  <2>6. SumFunctionOnSet(parts, S) = rate * SumFunctionOnSet(share, S)
    BY <1>2, <1>3, SumOfMultiples, Zenon
  <2> DEFINE A == SumFunctionOnSet(share, S)
             B == SumFunctionOnSet(e, S)
  <2>7. A \in Nat /\ B \in Nat
    BY <1>2, SumUnfolds
  <2> HIDE DEF A, B
  <2>8. Wad * B <= Wad * total
    BY <1>1, <2>1, <2>7, Products DEF B
  <2>9. total * A <= total * Wad
    <3>1. total * A <= Wad * B /\ Wad * total = total * Wad
      BY <1>1, <2>3, <2>4, <2>5, Products DEF A, B
    <3>2. total * A \in Nat /\ Wad * B \in Nat /\ Wad * total \in Nat
      BY <1>1, <2>7, Products
    <3>3. QED
      BY <2>8, <3>1, <3>2
  <2>10. A <= Wad
    <3>1. total \in Nat \ {0}
      BY <1>1, <2>1
    <3>2. QED
      BY <2>7, <2>9, <3>1, Cancels
  <2>11. rate * A <= rate * Wad /\ rate * Wad = Wad * rate
    BY <2>7, <2>10, Products
  <2>12. QED
    BY <1>3, <2>6, <2>11 DEF A, parts
<1>5. CASE 0 \notin StakedAges(b)
  <2>1. ASSUME NEW x \in S PROVE parts[x] = 0
    <3>1. share[x] = 0
      BY <1>5 DEF PartOf
    <3>2. parts[x] = rate * share[x]
      BY <1>3
    <3> HIDE DEF parts, share
    <3>3. QED
      BY <3>1, <3>2
  <2> HIDE DEF parts, share
  <2>2. SumFunctionOnSet(parts, S) = 0
    BY <2>1, SumOfZeros
  <2>3. Wad * rate \in Nat
    BY Products
  <2>4. QED
    BY <1>3, <2>2, <2>3 DEF parts
<1>6. QED
  BY <1>4, <1>5

-----------------------------------------------------------------------------
(* What an update pays.                                                    *)

\* Computing the harvest credits what was earned, rounded down.
LEMMA AccruePays ==
  ASSUME NEW ms, NEW fr \in FarmerOf(ms), NEW hs, NEW fm \in FarmOf(hs),
         NEW now, FarmInOrder(fm, now), NEW until \in Int,
         \/ until \in Nat /\ fr.nextFrom <= until
         \/ \E a \in Index : /\ until < Nth(fm.snapshots, a).startedAt
                             /\ Nth(fm.snapshots, a).startedAt <= fr.nextFrom,
         NEW m \in hs
  PROVE  /\ Accrue(fr, fm, until).farmer \in FarmerOf(hs)
         /\ Keeps(fr, Accrue(fr, fm, until).farmer)
         /\ \E t \in Nat :
              /\ Credit(Accrue(fr, fm, until).farmer, m) = Credit(fr, m) + t
              /\ Wad * t <= Earned(fm.snapshots, fm.harvests[m], fr.nextFrom, until, fr.staked)
<1> DEFINE known == SyncHarvestMints(fr.harvests, DOMAIN fm.harvests)
           earned == [k \in DOMAIN fm.harvests |->
                        EligibleHarvest(fm.snapshots, fm.harvests[k], fr.nextFrom, until,
                                        fr.staked)]
           sums == [k \in DOMAIN known |-> known[k] + earned[k].tokens]
           b == fm.snapshots
           ps == fm.harvests[m]
           since == fr.nextFrom
           staked == fr.staked
           t == earned[m].tokens
<1>1. /\ b \in Buffer /\ fm.harvests \in [hs -> Periods] /\ DOMAIN fm.harvests = hs
      /\ ps \in Periods /\ RingInOrder(b, now) /\ OrderAt(ps, now)
  BY DEF FarmOf, FarmInOrder
<1>2. since \in Nat /\ staked \in Nat /\ fr \in FarmerOf(ms)
  BY DEF FarmerOf
<1>3. Accrue(fr, fm, until).ok
  BY AccrueSucceeds
<1>4. Accrue(fr, fm, until).farmer \in FarmerOf(hs) /\ Keeps(fr, Accrue(fr, fm, until).farmer)
  BY <1>3, AccrueEffect
<1>5. Accrue(fr, fm, until).farmer = [fr EXCEPT !.harvests = sums]
  BY DEF Accrue, SetHarvests
<1>6. earned[m] = EligibleHarvest(b, ps, since, until, staked)
  BY <1>1
<1>7. known[m] = Credit(fr, m) /\ DOMAIN known = hs
  BY <1>1 DEF SyncHarvestMints, Credit
<1>8. Credit(Accrue(fr, fm, until).farmer, m) = Credit(fr, m) + t
  <2>1. sums[m] = known[m] + t /\ DOMAIN sums = hs
    BY <1>7
  <2> HIDE DEF sums, known, t
  <2>2. [fr EXCEPT !.harvests = sums].harvests = sums
    BY <1>2 DEF FarmerOf
  <2>3. QED
    BY <1>5, <1>7, <2>1, <2>2 DEF Credit
<1>9. t \in Nat /\ Wad * t <= Earned(b, ps, since, until, staked)
  <2>0. t = EligibleHarvest(b, ps, since, until, staked).tokens
    BY <1>6
  <2> HIDE DEF t, b, ps, since, staked
  <2>1. CASE until \in Nat /\ since <= until
    <3>1. IsPaid(EligibleHarvest(b, ps, since, until, staked), b, ps, since, until, staked)
      BY <1>1, <1>2, <2>1, HarvestIsExact
    <3>2. t = Owed(b, ps, since, until, staked)
      BY <2>0, <3>1 DEF IsPaid
    <3>3. /\ Owed(b, ps, since, until, staked) \in Nat
          /\ Wad * Owed(b, ps, since, until, staked) <= Earned(b, ps, since, until, staked)
      <4>1. since \in Int
        BY <1>2
      <4>2. QED
        BY <1>1, <1>2, <4>1, OwedIsEarned
    <3>4. QED
      BY <3>2, <3>3
  <2>2. CASE \E a \in Index : until < Nth(b, a).startedAt /\ Nth(b, a).startedAt <= since
    <3>0. PICK a \in Index : until < Nth(b, a).startedAt /\ Nth(b, a).startedAt <= since
      BY <2>2
    <3>1. t = 0
      <4>1. b \in Buffer /\ RingInOrder(b, now) /\ ps \in Periods /\ since \in Nat /\ staked \in Nat
        BY <1>1, <1>2
      <4>2. until \in Int /\ a \in Index
        OBVIOUS
      <4>3. EligibleHarvest(b, ps, since, until, staked).tokens = 0
        BY ONLY <3>0, <4>1, <4>2, NothingIsDue, Zenon
      <4>4. QED
        BY <2>0, <4>3
    <3>2. Earned(b, ps, since, until, staked) \in Nat
      <4>1. since \in Int
        BY <1>2
      <4>2. QED
        BY <1>1, <1>2, <4>1, EarnedType
    <3>3. QED
      BY <3>1, <3>2
  <2>3. QED
    BY <2>1, <2>2 DEF b, since
<1>10. QED
  BY <1>4, <1>8, <1>9

-----------------------------------------------------------------------------
(* What one account is due, and what an update makes of it.                *)

\* What a farmer is owed of a mint, credited or not, in units of 1 / Wad.
Due(fr, b, ps, m, upto) == IF fr = None THEN 0 ELSE Wad * Credit(fr, m) + Unpaid(fr, b, ps, upto)

\* What is due is a number, and nothing is due to an account that does not exist.
LEMMA DueType ==
  ASSUME NEW x, x = None \/ IsFarmer(x, Mints), NEW b \in Buffer, NEW ps \in Periods, NEW m,
         NEW upto \in Nat
  PROVE  Due(x, b, ps, m, upto) \in Nat
<1>1. CASE x = None
  BY <1>1 DEF Due
<1>2. CASE x # None
  <2>1. PICK ms \in SUBSET Mints : x \in FarmerOf(ms)
    BY <1>2 DEF IsFarmer
  <2>2. Credit(x, m) \in Nat
    BY <2>1, AccountType
  <2>3. Unpaid(x, b, ps, upto) \in Nat
    BY <2>1, UnpaidType
  <2>4. Wad * Credit(x, m) \in Nat
    BY <2>2, Products
  <2>5. QED
    BY <1>2, <2>3, <2>4 DEF Due
<1>3. QED
  BY <1>1, <1>2

\* What is unpaid does not depend on the credit.
LEMMA UnpaidOfSame ==
  ASSUME NEW fr, NEW new, Keeps(fr, new), NEW b, NEW ps, NEW upto
  PROVE  /\ VestingOver(new, b) = VestingOver(fr, b)
         /\ Unpaid(new, b, ps, upto) = Unpaid(fr, b, ps, upto)
<1>1. VestingOver(new, b) = VestingOver(fr, b)
  BY DEF Keeps, VestingOver
<1>2. EarnsFrom(new, b, upto) = EarnsFrom(fr, b, upto)
  BY <1>1 DEF EarnsFrom
<1>3. QED
  BY <1>1, <1>2 DEF Keeps, Unpaid

\* Nobody is paid more than what is due.
PaysWithin(fr, new, b, ps, m, upto) ==
  Wad * Credit(new, m) + Unpaid(new, b, ps, upto) <= Wad * Credit(fr, m) + Unpaid(fr, b, ps, upto)

\* Two operations that each pay no more than what is due do so together.
LEMMA PaysWithinTrans ==
  ASSUME NEW fr, NEW mid, NEW new, NEW ms1, NEW ms2, NEW ms3,
         fr \in FarmerOf(ms1), mid \in FarmerOf(ms2), new \in FarmerOf(ms3),
         NEW b \in Buffer, NEW ps \in Periods, NEW m, NEW upto \in Nat,
         PaysWithin(fr, mid, b, ps, m, upto), PaysWithin(mid, new, b, ps, m, upto)
  PROVE  PaysWithin(fr, new, b, ps, m, upto)
<1> DEFINE A == Wad * Credit(fr, m) + Unpaid(fr, b, ps, upto)
           B == Wad * Credit(mid, m) + Unpaid(mid, b, ps, upto)
           C == Wad * Credit(new, m) + Unpaid(new, b, ps, upto)
<1>1. ASSUME NEW ms, NEW x \in FarmerOf(ms)
      PROVE  Wad * Credit(x, m) + Unpaid(x, b, ps, upto) \in Nat
  <2>1. Credit(x, m) \in Nat /\ Unpaid(x, b, ps, upto) \in Nat
    BY AccountType, UnpaidType
  <2>2. Wad * Credit(x, m) \in Nat
    BY <2>1, Products
  <2>3. QED
    BY <2>1, <2>2
<1>2. A \in Nat /\ B \in Nat /\ C \in Nat
  BY <1>1
<1>3. B <= A /\ C <= B
  BY DEF PaysWithin
<1> HIDE DEF A, B, C
<1>4. C <= A
  BY <1>2, <1>3
<1>5. QED
  BY <1>4 DEF PaysWithin, A, C

\* Staking what vested pays what was earned without it.
LEMMA PromotePays ==
  ASSUME NEW ms, ms \subseteq Mints, NEW fr \in FarmerOf(ms),
         NEW hs, hs \subseteq Mints, NEW fm \in FarmOf(hs),
         NEW now, FarmInOrder(fm, now), NEW upto \in Nat, Near(fr, fm.snapshots, upto),
         Promote(fr, fm).farmer.nextFrom <= upto + 1
  PROVE  LET p == Promote(fr, fm).farmer
         IN  /\ IsFarmer(p, Mints) /\ VestingOver(p, fm.snapshots) = {}
             /\ p.nextFrom >= fr.nextFrom
             /\ \A m \in hs : PaysWithin(fr, p, fm.snapshots, fm.harvests[m], m, upto)
             /\ \A m : m \notin hs => Credit(p, m) \in {0, Credit(fr, m)}
<1> DEFINE b == fm.snapshots
           p == Promote(fr, fm).farmer
<1>0. b \in Buffer /\ fm.harvests \in [hs -> Periods] /\ DOMAIN fm.harvests = hs
  BY DEF FarmOf
<1>1. CASE VestingOver(fr, b) = {}
  <2>1. p = fr
    BY <1>1, EndOfVestingByRing DEF Promote
  <2>2. \A m \in hs : PaysWithin(fr, fr, b, fm.harvests[m], m, upto)
    <3>1. ASSUME NEW m \in hs PROVE PaysWithin(fr, fr, b, fm.harvests[m], m, upto)
      <4> DEFINE D == Wad * Credit(fr, m) + Unpaid(fr, b, fm.harvests[m], upto)
      <4>1. D \in Nat
        <5>1. Credit(fr, m) \in Nat /\ Unpaid(fr, b, fm.harvests[m], upto) \in Nat
          BY <1>0, AccountType, UnpaidType
        <5>2. Wad * Credit(fr, m) \in Nat
          BY <5>1, Products
        <5>3. QED
          BY <5>1, <5>2
      <4> HIDE DEF D
      <4>2. D <= D
        BY <4>1
      <4>3. QED
        BY <4>2 DEF D, PaysWithin
    <3>2. QED
      BY <3>1
  <2>3. fr.nextFrom \in Nat
    BY AccountType
  <2>4. QED
    BY <1>1, <2>1, <2>2, <2>3 DEF IsFarmer
<1>2. CASE VestingOver(fr, b) # {}
  <2> DEFINE s == CHOOSE s \in EndOfVesting(fr, fm) : TRUE
             until == s.startedAt - 1
             a == Accrue(fr, fm, until)
             since == fr.nextFrom
             less == fr.staked
             more == fr.staked + fr.vested
  <2>1. s \in EndOfVesting(fr, fm) /\ s \in VestingOver(fr, b)
    BY <1>2, EndOfVestingByRing
  <2>2. /\ s.startedAt \in Nat /\ until \in Int /\ since \in Nat /\ less \in Nat /\ more \in Nat
        /\ fr.vested \in Nat /\ since <= s.startedAt
    BY <1>0, <2>1, VestingOverType, AccountType DEF Near
  <2>3. Promote(fr, fm) = [a EXCEPT !.farmer.nextFrom = s.startedAt,
                                    !.farmer.staked   = @ + fr.vested,
                                    !.farmer.vested   = 0]
    BY <2>1 DEF Promote
  <2>4. a = [ok |-> a.ok, farmer |-> a.farmer]
    BY DEF Accrue, SetHarvests
  <2> HIDE DEF a, s
  <2>5. PICK k \in Index : s = Nth(b, k)
    BY <1>0, <2>1, VestingOverType
  <2>6. \/ until \in Nat /\ fr.nextFrom <= until
        \/ \E j \in Index : /\ until < Nth(fm.snapshots, j).startedAt
                            /\ Nth(fm.snapshots, j).startedAt <= fr.nextFrom
    <3>1. CASE since = s.startedAt
      <4>1. until < Nth(b, k).startedAt /\ Nth(b, k).startedAt <= since
        BY <2>2, <2>5, <3>1
      <4>2. QED
        BY <4>1
    <3>2. CASE since # s.startedAt
      <4>1. until \in Nat /\ since <= until
        BY ONLY <2>2, <3>2
      <4>2. QED
        BY <4>1
    <3>3. QED
      BY <3>1, <3>2
  <2>7. \A m \in hs :
          /\ a.farmer \in FarmerOf(hs) /\ Keeps(fr, a.farmer)
          /\ \E t \in Nat : /\ Credit(a.farmer, m) = Credit(fr, m) + t
                            /\ Wad * t <= Earned(b, fm.harvests[m], since, until, less)
    <3> HIDE DEF until
    <3>1. ASSUME NEW m \in hs
          PROVE  /\ a.farmer \in FarmerOf(hs) /\ Keeps(fr, a.farmer)
                 /\ \E t \in Nat : /\ Credit(a.farmer, m) = Credit(fr, m) + t
                                   /\ Wad * t <= Earned(b, fm.harvests[m], since, until, less)
      BY <2>2, <2>6, AccruePays DEF a
    <3>2. QED
      BY <3>1
  <2>8. a.farmer \in FarmerOf(hs) /\ Keeps(fr, a.farmer)
    <3>1. a.ok
      <4>1. \/ fr.nextFrom <= until
            \/ \E j \in Index : /\ until < Nth(fm.snapshots, j).startedAt
                                /\ Nth(fm.snapshots, j).startedAt <= fr.nextFrom
        BY <2>6
      <4>2. QED
        BY <2>2, <4>1, AccrueSucceeds DEF a
    <3>2. QED
      BY <2>2, <3>1, AccrueEffect DEF a
  <2>9. p = [a.farmer EXCEPT !.nextFrom = s.startedAt, !.staked = @ + fr.vested, !.vested = 0]
    <3>1. QED
      BY <2>3, <2>4
  <2> HIDE DEF p, until
  <2>10. /\ p.nextFrom = s.startedAt /\ p.staked = more /\ p.vested = 0
         /\ p.vestedAt = fr.vestedAt /\ p.harvests = a.farmer.harvests
         /\ p \in FarmerOf(hs)
    <3> DEFINE q == a.farmer
    <3>1. /\ q \in [staked : Nat, vested : Nat, vestedAt : Nat, nextFrom : Nat,
                    harvests : [hs -> Nat]]
          /\ q.staked = less /\ q.vestedAt = fr.vestedAt
      BY <2>8 DEF FarmerOf, Keeps
    <3> HIDE DEF q
    <3>2. p = [q EXCEPT !.nextFrom = s.startedAt, !.staked = @ + fr.vested, !.vested = 0]
      BY <2>9 DEF q
    <3>3. /\ p.nextFrom = s.startedAt /\ p.staked = more /\ p.vested = 0
          /\ p.vestedAt = fr.vestedAt /\ p.harvests = q.harvests
      BY <3>1, <3>2
    <3>4. p = [staked |-> p.staked, vested |-> p.vested, vestedAt |-> p.vestedAt,
               nextFrom |-> p.nextFrom, harvests |-> p.harvests]
      BY <3>1, <3>2, Zenon
    <3>5. /\ p.staked \in Nat /\ p.vested \in Nat /\ p.vestedAt \in Nat /\ p.nextFrom \in Nat
          /\ p.harvests \in [hs -> Nat]
      BY <2>2, <3>1, <3>3
    <3> HIDE DEF p
    <3>6. p \in FarmerOf(hs)
      BY <3>4, <3>5 DEF FarmerOf
    <3>7. QED
      BY <3>3, <3>6 DEF q
  <2>11. VestingOver(p, b) = {}
    BY <2>10 DEF VestingOver
  <2>12. ASSUME NEW m \in hs PROVE PaysWithin(fr, p, b, fm.harvests[m], m, upto)
    <3> DEFINE ps == fm.harvests[m]
               next == upto + 1
               E1 == Earned(b, ps, since, until, less)
               E2 == Earned(b, ps, s.startedAt, upto, more)
               E3 == Earned(b, ps, next, upto, more)
    <3>0. ps \in Periods
      BY <1>0
    <3>1. PICK t \in Nat : Credit(a.farmer, m) = Credit(fr, m) + t /\ Wad * t <= E1
      BY <2>7
    <3>2. Credit(p, m) = Credit(fr, m) + t
      BY <2>10, <3>1 DEF Credit
    <3>3. s.startedAt <= upto + 1
      BY <2>10 DEF p
    <3>4. EarnsFrom(fr, b, upto) = s.startedAt
      <4>1. EarnsFrom(fr, b, upto) = IF s.startedAt <= upto THEN s.startedAt ELSE upto + 1
        BY <1>0, <2>1, EarnsFromType
      <4>2. upto \in Nat
        OBVIOUS
      <4>3. QED
        BY ONLY <2>2, <3>3, <4>1, <4>2
    <3>5. Unpaid(fr, b, ps, upto) = E1 + E2
      BY <3>4 DEF Unpaid, until
    <3>6. Unpaid(p, b, ps, upto) = E2 + E3
      <4>1. EarnsFrom(p, b, upto) = next
        BY <1>0, <2>10, <2>11, EarnsFromType
      <4>2. next - 1 = upto /\ p.staked + p.vested = more
        BY <2>2, <2>10
      <4>3. Unpaid(p, b, ps, upto) = Earned(b, ps, p.nextFrom, next - 1, p.staked)
                                       + Earned(b, ps, next, upto, p.staked + p.vested)
        BY <4>1 DEF Unpaid
      <4>4. QED
        BY <2>10, <4>2, <4>3
    <3>7. next \in Int /\ upto \in Int /\ upto < next /\ since \in Int /\ s.startedAt \in Int
      BY <2>2
    <3>8. E3 = 0
      <4> HIDE DEF next
      <4>1. QED
        BY <1>0, <2>2, <3>0, <3>7, NothingEarned
    <3>9. E1 \in Nat
      BY <1>0, <2>2, <3>0, <3>7, EarnedType
    <3>10. E2 \in Nat
      BY <1>0, <2>2, <3>0, <3>7, EarnedType
    <3>11. Credit(fr, m) \in Nat
      BY AccountType
    <3> DEFINE cr == Credit(fr, m)
    <3> HIDE DEF E1, E2, E3, ps, cr
    <3>12. Wad * (cr + t) = Wad * cr + Wad * t /\ Wad * cr \in Nat /\ Wad * t \in Nat
      BY <3>11, Products DEF cr
    <3>13. Wad * Credit(p, m) = Wad * cr + Wad * t
      BY <3>2, <3>12 DEF cr
    <3>14. Wad * Credit(p, m) + Unpaid(p, b, ps, upto) <= Wad * cr + Unpaid(fr, b, ps, upto)
      BY <3>1, <3>5, <3>6, <3>8, <3>9, <3>10, <3>12, <3>13
    <3>15. QED
      BY <3>14 DEF PaysWithin, cr, ps
  <2>13. ASSUME NEW m, m \notin hs PROVE Credit(p, m) = 0
    <3>1. DOMAIN p.harvests = hs
      BY <2>10 DEF FarmerOf
    <3>2. QED
      BY <2>13, <3>1 DEF Credit
  <2>14. IsFarmer(p, Mints) /\ p.nextFrom >= fr.nextFrom
    BY <2>2, <2>10 DEF IsFarmer
  <2>15. QED
    BY <2>11, <2>12, <2>13, <2>14 DEF p
<1>3. QED
  BY <1>1, <1>2

\* Harvesting up to a slot pays what was earned up to it.
LEMMA UpdateEligiblePays ==
  ASSUME NEW ms, ms \subseteq Mints, NEW fr \in FarmerOf(ms),
         NEW hs, hs \subseteq Mints, NEW fm \in FarmOf(hs),
         NEW now, FarmInOrder(fm, now), NEW current \in Nat, NEW upto \in Nat,
         VestingOver(fr, fm.snapshots) = {},
         UpdateEligible(fr, fm, current).farmer.nextFrom <= upto + 1
  PROVE  LET new == UpdateEligible(fr, fm, current).farmer
         IN  /\ IsFarmer(new, Mints) /\ VestingOver(new, fm.snapshots) = {}
             /\ new.nextFrom >= fr.nextFrom
             /\ new.nextFrom = fr.nextFrom \/ new.nextFrom = current + 1
             /\ \A m \in hs : PaysWithin(fr, new, fm.snapshots, fm.harvests[m], m, upto)
             /\ \A m : m \notin hs => Credit(new, m) \in {0, Credit(fr, m)}
<1> DEFINE b == fm.snapshots
           new == UpdateEligible(fr, fm, current).farmer
           since == fr.nextFrom
           less == fr.staked
           more == fr.staked + fr.vested
<1>0. /\ b \in Buffer /\ fm.harvests \in [hs -> Periods] /\ DOMAIN fm.harvests = hs
      /\ since \in Nat /\ less \in Nat /\ more \in Nat
  BY AccountType DEF FarmOf
<1>1. CASE since >= current
  <2>1. new = fr
    BY <1>1 DEF UpdateEligible
  <2>2. ASSUME NEW m \in hs PROVE PaysWithin(fr, fr, b, fm.harvests[m], m, upto)
    <3> DEFINE D == Wad * Credit(fr, m) + Unpaid(fr, b, fm.harvests[m], upto)
    <3>1. D \in Nat
      <4>1. Credit(fr, m) \in Nat /\ Unpaid(fr, b, fm.harvests[m], upto) \in Nat
        BY <1>0, AccountType, UnpaidType
      <4>2. Wad * Credit(fr, m) \in Nat
        BY <4>1, Products
      <4>3. QED
        BY <4>1, <4>2
    <3> HIDE DEF D
    <3>2. D <= D
      BY <3>1
    <3>3. QED
      BY <3>2 DEF D, PaysWithin
  <2>3. QED
    BY <1>0, <2>1, <2>2 DEF IsFarmer
<1>2. CASE ~(since >= current)
  <2> DEFINE a == Accrue(fr, fm, current)
             next == current + 1
  <2>1. UpdateEligible(fr, fm, current) = [a EXCEPT !.farmer.nextFrom = current + 1]
    BY <1>2 DEF UpdateEligible
  <2>2. a = [ok |-> a.ok, farmer |-> a.farmer]
    BY DEF Accrue, SetHarvests
  <2> HIDE DEF a
  <2>3. new = [a.farmer EXCEPT !.nextFrom = next]
    BY <2>1, <2>2
  <2>4. since <= current /\ current \in Int /\ next \in Nat
    BY <1>0, <1>2
  <2>5. ASSUME NEW m \in hs
        PROVE  \E t \in Nat : /\ Credit(a.farmer, m) = Credit(fr, m) + t
                              /\ Wad * t <= Earned(b, fm.harvests[m], since, current, less)
    BY <2>4, AccruePays DEF a
  <2>6. a.farmer \in FarmerOf(hs) /\ Keeps(fr, a.farmer)
    <3>1. a.ok
      BY <2>4, AccrueSucceeds DEF a
    <3>2. QED
      BY <2>4, <3>1, AccrueEffect DEF a
  <2> HIDE DEF new
  <2>7. /\ new.nextFrom = next /\ new.staked = less /\ new.vested = fr.vested
        /\ new.vestedAt = fr.vestedAt /\ new.harvests = a.farmer.harvests
        /\ new \in FarmerOf(hs)
    <3> DEFINE q == a.farmer
    <3>1. /\ q \in [staked : Nat, vested : Nat, vestedAt : Nat, nextFrom : Nat,
                    harvests : [hs -> Nat]]
          /\ q.staked = less /\ q.vestedAt = fr.vestedAt /\ q.vested = fr.vested
      BY <2>6 DEF FarmerOf, Keeps
    <3>2. new = [q EXCEPT !.nextFrom = next]
      BY <2>3
    <3> HIDE DEF q, next
    <3>3. QED
      BY <2>4, <3>1, <3>2 DEF FarmerOf, q
  <2>8. VestingOver(new, b) = {}
    <3>1. VestingOver(fr, b) = {}
      OBVIOUS
    <3>2. QED
      BY <2>7, <3>1 DEF VestingOver
  <2>9. next <= upto + 1
    BY <2>7 DEF new
  <2>10. ASSUME NEW m \in hs PROVE PaysWithin(fr, new, b, fm.harvests[m], m, upto)
    <3> DEFINE ps == fm.harvests[m]
               last == upto + 1
               cr == Credit(fr, m)
               E1 == Earned(b, ps, since, current, less)
               E2 == Earned(b, ps, next, upto, less)
               E3 == Earned(b, ps, last, upto, more)
               E4 == Earned(b, ps, since, upto, less)
    <3>0. ps \in Periods
      BY <1>0
    <3>1. PICK t \in Nat : Credit(a.farmer, m) = Credit(fr, m) + t /\ Wad * t <= E1
      BY <2>5
    <3>2. Credit(new, m) = cr + t
      BY <2>7, <3>1 DEF Credit
    <3>3. last - 1 = upto /\ last \in Int /\ upto \in Int /\ upto < last
      OBVIOUS
    <3>4. EarnsFrom(fr, b, upto) = last /\ EarnsFrom(new, b, upto) = last
      BY <1>0, <2>7, <2>8, EarnsFromType
    <3>5. Unpaid(fr, b, ps, upto) = E4 + E3
      BY <3>3, <3>4 DEF Unpaid
    <3>6. Unpaid(new, b, ps, upto) = E2 + E3
      BY <2>7, <3>3, <3>4 DEF Unpaid
    <3>7. E3 = 0
      <4> HIDE DEF last
      <4>1. QED
        BY <1>0, <3>0, <3>3, NothingEarned
    <3>8. E4 = E1 + E2
      <4>1. since \in Int /\ next \in Int /\ since <= next /\ current <= upto /\ next = current + 1
        BY <1>0, <2>4, <2>9
      <4> HIDE DEF next, since, less, b, ps
      <4>2. QED
        BY <1>0, <2>4, <3>0, <3>3, <4>1, EarnedSplits
    <3>9. E1 \in Nat
      BY <1>0, <3>0, <3>3, <2>4, EarnedType
    <3>10. E2 \in Nat
      <4>1. next \in Int
        BY <2>4
      <4> HIDE DEF next
      <4>2. QED
        BY <1>0, <3>0, <3>3, <4>1, EarnedType
    <3>11. cr \in Nat
      BY AccountType
    <3> HIDE DEF E1, E2, E3, E4, ps, cr
    <3>12. Wad * (cr + t) = Wad * cr + Wad * t /\ Wad * cr \in Nat /\ Wad * t \in Nat
      <4>1. Wad * cr \in Nat /\ Wad * t \in Nat
        BY <3>11, Products
      <4>2. Wad * (cr + t) = Wad * cr + Wad * t
        BY ONLY <3>11, WadAssumption, t \in Nat
      <4>3. QED
        BY <4>1, <4>2
    <3>13. Wad * Credit(new, m) = Wad * cr + Wad * t
      BY <3>2, <3>12
    <3>14. Wad * Credit(new, m) + Unpaid(new, b, ps, upto) <= Wad * cr + Unpaid(fr, b, ps, upto)
      BY <3>1, <3>5, <3>6, <3>7, <3>8, <3>9, <3>10, <3>12, <3>13
    <3>15. QED
      BY <3>14 DEF PaysWithin, cr, ps
  <2>11. ASSUME NEW m, m \notin hs PROVE Credit(new, m) = 0
    <3>1. DOMAIN new.harvests = hs
      BY <2>7 DEF FarmerOf
    <3>2. QED
      BY <2>11, <3>1 DEF Credit
  <2>12. IsFarmer(new, Mints) /\ new.nextFrom >= fr.nextFrom
    BY <1>0, <2>4, <2>7 DEF IsFarmer
  <2>13. QED
    BY <2>7, <2>8, <2>10, <2>11, <2>12 DEF new
<1>3. QED
  BY <1>1, <1>2

\* A farmer after check_vested_period_and_update_harvest: nobody is paid more
\* than what is due, and what is due up to the slot is all paid or unpaid still.
IsPaidUpdate(fr, fm, upto, new) ==
  /\ IsFarmer(new, Mints) /\ VestingOver(new, fm.snapshots) = {}
  /\ new.nextFrom >= fr.nextFrom
  /\ \A m \in DOMAIN fm.harvests : PaysWithin(fr, new, fm.snapshots, fm.harvests[m], m, upto)
  /\ \A m : m \notin DOMAIN fm.harvests => Credit(new, m) \in {0, Credit(fr, m)}

\* check_vested_period_and_update_harvest pays no more than what is due.
LEMMA UpdatePays ==
  ASSUME NEW ms, ms \subseteq Mints, NEW fr \in FarmerOf(ms),
         NEW hs, hs \subseteq Mints, NEW fm \in FarmOf(hs),
         NEW now, FarmInOrder(fm, now), NEW current \in Nat, NEW upto \in Nat,
         Near(fr, fm.snapshots, upto),
         CheckVestedAndUpdate(fr, fm, current).farmer.nextFrom <= upto + 1
  PROVE  IsPaidUpdate(fr, fm, upto, CheckVestedAndUpdate(fr, fm, current).farmer)
<1> DEFINE b == fm.snapshots
           pr == Promote(fr, fm)
           p == pr.farmer
           up == UpdateEligible(p, fm, current)
           new == up.farmer
           all == CheckVestedAndUpdate(fr, fm, current)
<1>1. all.farmer = new
  <2>1. up = [ok |-> up.ok, farmer |-> up.farmer]
    BY Zenon DEF UpdateEligible, Accrue, SetHarvests
  <2>2. all = [up EXCEPT !.ok = @ /\ pr.ok]
    BY DEF CheckVestedAndUpdate, UpdatePromoted
  <2> HIDE DEF up, pr, all
  <2>3. QED
    BY <2>1, <2>2
<1>2. b \in Buffer /\ fm.harvests \in [hs -> Periods] /\ DOMAIN fm.harvests = hs
  BY DEF FarmOf
<1>3. PICK ks \in SUBSET Mints : p \in FarmerOf(ks)
  <2>1. pr.ok
    <3>1. CASE EndOfVesting(fr, fm) = {}
      BY <3>1 DEF Promote
    <3>2. CASE EndOfVesting(fr, fm) # {}
      <4>1. CheckVestedAndUpdate(fr, fm, 0).ok
        BY UpdateSucceeds
      <4>2. UpdateEligible(p, fm, 0) = [ok |-> UpdateEligible(p, fm, 0).ok,
                                        farmer |-> UpdateEligible(p, fm, 0).farmer]
        BY Zenon DEF UpdateEligible, Accrue, SetHarvests
      <4>3. CheckVestedAndUpdate(fr, fm, 0) = [UpdateEligible(p, fm, 0) EXCEPT !.ok = @ /\ pr.ok]
        BY DEF CheckVestedAndUpdate, UpdatePromoted
      <4> HIDE DEF pr
      <4>4. QED
        BY <4>1, <4>2, <4>3, Zenon
    <3>3. QED
      BY <3>1, <3>2
  <2>2. QED
    BY <2>1, PromoteEffect DEF IsFarmer
<1>4. p.nextFrom <= upto + 1
  <2> HIDE DEF pr
  <2>1. p.nextFrom \in Nat /\ new.nextFrom <= upto + 1
    BY <1>1, <1>3 DEF FarmerOf
  <2>2. CASE p.nextFrom >= current
    <3>1. new = p
      BY <2>2 DEF UpdateEligible
    <3>2. QED
      BY <2>1, <3>1
  <2>3. CASE ~(p.nextFrom >= current)
    <3>1. CheckVestedAndUpdate(fr, fm, current).ok
      BY UpdateSucceeds
    <3>2. IsUpdateOf(fr, fm, current, new)
      BY <1>1, <3>1, UpdateEffect
    <3>3. new.nextFrom >= current
      BY <3>2 DEF IsUpdateOf
    <3>4. new.nextFrom \in Nat
      BY <3>2 DEF IsUpdateOf, IsFarmer, FarmerOf
    <3> HIDE DEF new
    <3>5. QED
      BY <2>1, <2>3, <3>3, <3>4
  <2>4. QED
    BY <2>2, <2>3
<1>5. /\ IsFarmer(p, Mints) /\ VestingOver(p, b) = {} /\ p.nextFrom >= fr.nextFrom
      /\ \A m \in hs : PaysWithin(fr, p, b, fm.harvests[m], m, upto)
      /\ \A m : m \notin hs => Credit(p, m) \in {0, Credit(fr, m)}
  BY <1>4, PromotePays, Zenon
<1>6. new.nextFrom <= upto + 1
  BY <1>1
<1> HIDE DEF all, pr, p
<1>7. /\ IsFarmer(new, Mints) /\ VestingOver(new, b) = {} /\ new.nextFrom >= p.nextFrom
      /\ \A m \in hs : PaysWithin(p, new, b, fm.harvests[m], m, upto)
      /\ \A m : m \notin hs => Credit(new, m) \in {0, Credit(p, m)}
  BY <1>3, <1>5, <1>6, UpdateEligiblePays, Zenon
<1> HIDE DEF up
<1>8. PICK ks2 \in SUBSET Mints : new \in FarmerOf(ks2)
  BY <1>7 DEF IsFarmer
<1>9. ASSUME NEW m \in hs PROVE PaysWithin(fr, new, b, fm.harvests[m], m, upto)
  <2>1. fm.harvests[m] \in Periods
    BY <1>2
  <2>2. PaysWithin(fr, p, b, fm.harvests[m], m, upto) /\ PaysWithin(p, new, b, fm.harvests[m], m, upto)
    BY <1>5, <1>7
  <2>3. QED
    BY <1>2, <1>3, <1>8, <2>1, <2>2, PaysWithinTrans
<1>10. new.nextFrom >= fr.nextFrom
  <2>1. new.nextFrom \in Nat /\ p.nextFrom \in Nat /\ fr.nextFrom \in Nat
    BY <1>3, <1>8, AccountType
  <2>2. QED
    BY <1>5, <1>7, <2>1
<1>11. \A m : m \notin hs => Credit(new, m) \in {0, Credit(fr, m)}
  BY <1>5, <1>7
<1>12. QED
  BY <1>1, <1>2, <1>7, <1>9, <1>10, <1>11 DEF IsPaidUpdate, all

-----------------------------------------------------------------------------
(* A transaction settles an account when the account is then due no more   *)
(* than before, but for what the vault got or paid.                        *)

\* An update up to a slot of the past or to this one leaves no cursor beyond
\* the next slot.
LEMMA UpdateInTime ==
  ASSUME NEW ms, ms \subseteq Mints, NEW fr \in FarmerOf(ms),
         NEW hs, hs \subseteq Mints, NEW fm \in FarmOf(hs),
         NEW now \in Nat, FarmInOrder(fm, now), NEW current \in Nat, current <= now,
         fr.nextFrom <= now + 1
  PROVE  CheckVestedAndUpdate(fr, fm, current).farmer.nextFrom <= now + 1
<1> DEFINE pr == Promote(fr, fm)
           p == pr.farmer
           up == UpdateEligible(p, fm, current)
           new == up.farmer
           all == CheckVestedAndUpdate(fr, fm, current)
<1>1. all.ok
  BY UpdateSucceeds
<1>2. up = [ok |-> up.ok, farmer |-> up.farmer]
  BY Zenon DEF UpdateEligible, Accrue, SetHarvests
<1>3. all = [up EXCEPT !.ok = @ /\ pr.ok]
  BY DEF CheckVestedAndUpdate, UpdatePromoted
<1>4. all.farmer = new /\ pr.ok
  <2> HIDE DEF up, pr, all
  <2>1. QED
    BY <1>1, <1>2, <1>3, Zenon
<1>5. p.nextFrom \in Nat /\ p.nextFrom <= now + 1
  <2>1. /\ IsFarmer(p, Mints)
        /\ \/ p = fr
           \/ \E s \in EndOfVesting(fr, fm) : p.nextFrom = s.startedAt
    BY <1>4, PromoteEffect
  <2> HIDE DEF pr
  <2>2. p.nextFrom \in Nat
    BY <2>1 DEF IsFarmer, FarmerOf
  <2>3. CASE \E s \in EndOfVesting(fr, fm) : p.nextFrom = s.startedAt
    <3>1. fm.snapshots \in Buffer /\ RingInOrder(fm.snapshots, now)
      BY DEF FarmOf, FarmInOrder
    <3>2. PICK s \in EndOfVesting(fr, fm) : p.nextFrom = s.startedAt
      BY <2>3
    <3>3. s \in VestingOver(fr, fm.snapshots)
      BY <3>2, EndOfVestingByRing
    <3>4. PICK a \in Index : s = Nth(fm.snapshots, a)
      BY <3>1, <3>3, VestingOverType
    <3>5. s.startedAt \in Nat /\ s.startedAt <= now
      BY <3>1, <3>4, NthIsPast
    <3>6. QED
      BY <2>2, <3>2, <3>5
  <2>4. QED
    BY <2>1, <2>2, <2>3
<1> HIDE DEF pr, p
<1>6. CASE p.nextFrom >= current
  <2>1. new = p
    BY <1>6 DEF UpdateEligible
  <2>2. QED
    BY <1>4, <1>5, <2>1
<1>7. CASE ~(p.nextFrom >= current)
  <2> DEFINE a == Accrue(p, fm, current)
  <2>1. up = [a EXCEPT !.farmer.nextFrom = current + 1]
    BY <1>7 DEF UpdateEligible
  <2>2. a = [ok |-> a.ok, farmer |-> a.farmer]
    BY DEF Accrue, SetHarvests
  <2>3. "nextFrom" \in DOMAIN a.farmer
    <3>1. PICK ks \in SUBSET Mints : p \in FarmerOf(ks)
      BY <1>4, PromoteEffect DEF IsFarmer, p, pr
    <3>2. a.farmer = [p EXCEPT !.harvests = a.farmer.harvests]
      <4> DEFINE known == SyncHarvestMints(p.harvests, DOMAIN fm.harvests)
                 earned == [k \in DOMAIN fm.harvests |->
                              EligibleHarvest(fm.snapshots, fm.harvests[k], p.nextFrom, current,
                                              p.staked)]
                 sums == [k \in DOMAIN known |-> known[k] + earned[k].tokens]
      <4>1. a.farmer = [p EXCEPT !.harvests = sums]
        BY DEF Accrue, SetHarvests
      <4> HIDE DEF sums, a
      <4>2. a.farmer.harvests = sums
        BY <3>1, <4>1 DEF FarmerOf
      <4>3. QED
        BY <4>1, <4>2
    <3> HIDE DEF a
    <3>3. QED
      BY <3>1, <3>2 DEF FarmerOf
  <2> HIDE DEF a
  <2>4. new.nextFrom = current + 1
    BY <2>1, <2>2, <2>3
  <2> HIDE DEF up
  <2>5. QED
    BY <1>4, <2>4
<1>8. QED
  BY <1>6, <1>7

-----------------------------------------------------------------------------
(* What a transaction makes of one farmer's account.                       *)

\* The vault covers what the farmer is owed as it did before, seen from this
\* slot and, as long as nobody is updated in it, from the slot before.
Settles(old, new, fm, now, vault, vault2) ==
  /\ new = None \/ (IsFarmer(new, Mints) /\ new.nextFrom <= now + 1)
  /\ \A m \in DOMAIN fm.harvests, upto \in {now - 1, now} :
       /\ old # None => Near(old, fm.snapshots, upto)
       /\ new # None => new.nextFrom <= upto + 1
       => Due(new, fm.snapshots, fm.harvests[m], m, upto) + Wad * vault[m]
            <= Due(old, fm.snapshots, fm.harvests[m], m, upto) + Wad * vault2[m]
  /\ \A m \in Mints \ DOMAIN fm.harvests :
       (old # None => Credit(old, m) = 0) => (new # None => Credit(new, m) = 0)

\* A farmer and its farm, as they are between transactions.
InFarm(fr, fm, now) ==
  /\ now \in Nat \ {0} /\ IsFarmer(fr, Mints) /\ IsFarm(fm) /\ FarmInOrder(fm, now)
  /\ Near(fr, fm.snapshots, now)

\* Between transactions the numbers are these.
LEMMA InFarmTypes ==
  ASSUME NEW fr, NEW fm, NEW now, InFarm(fr, fm, now), NEW m \in DOMAIN fm.harvests,
         NEW upto \in {now - 1, now}, NEW vault \in [Mints -> Nat]
  PROVE  /\ fm.snapshots \in Buffer /\ fm.harvests[m] \in Periods /\ m \in Mints
         /\ upto \in Nat /\ now \in Nat
         /\ vault[m] \in Nat /\ Wad * vault[m] \in Nat
<1>1. PICK hs \in SUBSET Mints : fm \in FarmOf(hs)
  BY DEF InFarm, IsFarm
<1>2. fm.snapshots \in Buffer /\ fm.harvests[m] \in Periods /\ m \in Mints
  BY <1>1 DEF FarmOf
<1>3. upto \in Nat /\ now \in Nat
  BY DEF InFarm
<1>4. vault[m] \in Nat
  BY <1>2
<1>5. Wad * vault[m] \in Nat
  <2> DEFINE v == vault[m]
  <2> HIDE DEF v
  <2>1. Wad * v \in Nat
    BY <1>4, Products DEF v
  <2>2. QED
    BY <2>1 DEF v
<1>6. QED
  BY <1>2, <1>3, <1>4, <1>5

\* check_vested_period_and_update_harvest.
LEMMA SettlesUpdate ==
  ASSUME NEW fr, NEW fm, NEW now, InFarm(fr, fm, now), NEW current \in Nat, current <= now,
         NEW vault \in [Mints -> Nat]
  PROVE  LET new == CheckVestedAndUpdate(fr, fm, current).farmer
         IN  /\ Settles(fr, new, fm, now, vault, vault)
             /\ IsFarmer(new, Mints) /\ VestingOver(new, fm.snapshots) = {}
<1> DEFINE all == CheckVestedAndUpdate(fr, fm, current)
           new == all.farmer
           b == fm.snapshots
<1>1. PICK ms \in SUBSET Mints : fr \in FarmerOf(ms)
  BY DEF InFarm, IsFarmer
<1>2. PICK hs \in SUBSET Mints : fm \in FarmOf(hs)
  BY DEF InFarm, IsFarm
<1>3. FarmInOrder(fm, now) /\ now \in Nat /\ fr.nextFrom <= now + 1 /\ Near(fr, b, now)
  BY DEF InFarm, Near
<1>4. all.ok
  BY <1>1, <1>2, <1>3, UpdateSucceeds
<1>5. IsUpdateOf(fr, fm, current, new)
  BY <1>1, <1>2, <1>4, UpdateEffect
<1>6. new.nextFrom <= now + 1
  BY <1>1, <1>2, <1>3, UpdateInTime
<1>7. \A upto \in Nat : Near(fr, b, upto) /\ new.nextFrom <= upto + 1 => IsPaidUpdate(fr, fm, upto, new)
  BY <1>1, <1>2, <1>3, UpdatePays
<1> HIDE DEF all
<1>8. IsFarmer(new, Mints) /\ new # None /\ fr # None
  BY <1>5, RecordsExist DEF IsUpdateOf, InFarm
<1>9. VestingOver(new, b) = {}
  <2>1. \/ EndOfVesting(fr, fm) = {} /\ new.vested = fr.vested /\ new.vestedAt = fr.vestedAt
        \/ new.vested = 0
    BY <1>5 DEF IsUpdateOf
  <2>2. QED
    BY <2>1 DEF EndOfVesting, VestingOver
<1>10. ASSUME NEW m \in DOMAIN fm.harvests, NEW upto \in {now - 1, now}, Near(fr, b, upto),
              new.nextFrom <= upto + 1
       PROVE  Due(new, b, fm.harvests[m], m, upto) + Wad * vault[m]
                <= Due(fr, b, fm.harvests[m], m, upto) + Wad * vault[m]
  <2> DEFINE D == Due(new, b, fm.harvests[m], m, upto)
             E == Due(fr, b, fm.harvests[m], m, upto)
             V == Wad * vault[m]
  <2>1. b \in Buffer /\ fm.harvests[m] \in Periods /\ upto \in Nat /\ V \in Nat
    BY InFarmTypes
  <2>2. PaysWithin(fr, new, b, fm.harvests[m], m, upto)
    <3>1. IsPaidUpdate(fr, fm, upto, new)
      BY <1>7, <1>10, <2>1
    <3>2. QED
      BY <3>1 DEF IsPaidUpdate
  <2>3. D <= E
    BY <1>8, <2>2 DEF Due, PaysWithin
  <2>4. D \in Nat
    BY <1>8, <2>1, DueType
  <2>5. E \in Nat
    BY <2>1, DueType DEF InFarm
  <2> HIDE DEF D, E, V
  <2>6. D + V <= E + V
    BY <2>1, <2>3, <2>4, <2>5
  <2>7. QED
    BY <2>6 DEF D, E, V
<1>11. ASSUME NEW m \in Mints \ DOMAIN fm.harvests, Credit(fr, m) = 0 PROVE Credit(new, m) = 0
  <2>1. IsPaidUpdate(fr, fm, now, new)
    BY <1>3, <1>6, <1>7
  <2>2. Credit(new, m) \in {0, Credit(fr, m)}
    BY <2>1 DEF IsPaidUpdate
  <2>3. QED
    BY <1>11, <2>2
<1> HIDE DEF new
<1>12. Settles(fr, new, fm, now, vault, vault)
  BY <1>6, <1>8, <1>10, <1>11 DEF Settles, b
<1>13. QED
  BY <1>8, <1>9, <1>12 DEF all, new

\* An update, followed by an operation that does not move the cursor.
LEMMA SettlesTrans ==
  ASSUME NEW fr, NEW fm, NEW now, InFarm(fr, fm, now), NEW mid, NEW new,
         IsFarmer(mid, Mints), VestingOver(mid, fm.snapshots) = {},
         NEW vault \in [Mints -> Nat], NEW vault1 \in [Mints -> Nat],
         NEW vault2 \in [Mints -> Nat],
         Settles(fr, mid, fm, now, vault, vault1), Settles(mid, new, fm, now, vault1, vault2),
         new # None, new.nextFrom = mid.nextFrom
  PROVE  Settles(fr, new, fm, now, vault, vault2)
<1>1. mid # None /\ fr # None
  BY RecordsExist DEF InFarm
<1>2. ASSUME NEW m \in DOMAIN fm.harvests, NEW upto \in {now - 1, now},
             Near(fr, fm.snapshots, upto), new.nextFrom <= upto + 1
      PROVE  Due(new, fm.snapshots, fm.harvests[m], m, upto) + Wad * vault[m]
                <= Due(fr, fm.snapshots, fm.harvests[m], m, upto) + Wad * vault2[m]
  <2> DEFINE A == Due(fr, fm.snapshots, fm.harvests[m], m, upto)
             B == Due(mid, fm.snapshots, fm.harvests[m], m, upto)
             C == Due(new, fm.snapshots, fm.harvests[m], m, upto)
             U == Wad * vault[m]
             V == Wad * vault1[m]
             W == Wad * vault2[m]
  <2>1. /\ fm.snapshots \in Buffer /\ fm.harvests[m] \in Periods /\ upto \in Nat
        /\ U \in Nat
    BY InFarmTypes
  <2>2. V \in Nat
    BY InFarmTypes
  <2>10. W \in Nat
    BY InFarmTypes
  <2>3. Near(mid, fm.snapshots, upto) /\ mid.nextFrom <= upto + 1
    BY <1>2 DEF Near
  <2>4. B + U <= A + V
    BY <1>1, <1>2, <2>3 DEF Settles
  <2>5. C + V <= B + W
    BY <1>1, <1>2, <2>3 DEF Settles
  <2>6. A \in Nat
    BY <2>1, DueType DEF InFarm
  <2>7. B \in Nat
    BY <2>1, DueType
  <2>8. C \in Nat
    BY <2>1, DueType DEF Settles
  <2> HIDE DEF A, B, C, U, V, W
  <2>9. C + U <= A + W
    BY <2>1, <2>2, <2>4, <2>5, <2>6, <2>7, <2>8, <2>10
  <2>11. QED
    BY <2>9 DEF A, C, U, W
<1>3. ASSUME NEW m \in Mints \ DOMAIN fm.harvests, Credit(fr, m) = 0 PROVE Credit(new, m) = 0
  BY <1>1, <1>3 DEF Settles
<1>4. IsFarmer(new, Mints) /\ new.nextFrom <= now + 1
  BY DEF Settles
<1>5. QED
  BY <1>1, <1>2, <1>3, <1>4 DEF Settles

\* What is needed of an operation that leaves the credit alone.
LEMMA SettlesStake ==
  ASSUME NEW fr, NEW fm, NEW now, InFarm(fr, fm, now), NEW new, IsFarmer(new, Mints),
         new.nextFrom = fr.nextFrom, \A m : Credit(new, m) = Credit(fr, m),
         \A ps \in Periods, upto \in Nat :
           Near(fr, fm.snapshots, upto)
             => Unpaid(new, fm.snapshots, ps, upto) <= Unpaid(fr, fm.snapshots, ps, upto),
         NEW vault \in [Mints -> Nat]
  PROVE  Settles(fr, new, fm, now, vault, vault)
<1>1. new # None /\ fr # None /\ new.nextFrom <= now + 1
  BY RecordsExist DEF InFarm, Near
<1>2. ASSUME NEW m \in DOMAIN fm.harvests, NEW upto \in {now - 1, now},
             Near(fr, fm.snapshots, upto)
      PROVE  Due(new, fm.snapshots, fm.harvests[m], m, upto) + Wad * vault[m]
                <= Due(fr, fm.snapshots, fm.harvests[m], m, upto) + Wad * vault[m]
  <2> DEFINE A == Due(fr, fm.snapshots, fm.harvests[m], m, upto)
             C == Due(new, fm.snapshots, fm.harvests[m], m, upto)
             V == Wad * vault[m]
             K == Wad * Credit(fr, m)
             X == Unpaid(fr, fm.snapshots, fm.harvests[m], upto)
             Y == Unpaid(new, fm.snapshots, fm.harvests[m], upto)
  <2>1. /\ fm.snapshots \in Buffer /\ fm.harvests[m] \in Periods /\ upto \in Nat
        /\ V \in Nat
    BY InFarmTypes
  <2>2. Y <= X
    BY <1>2, <2>1
  <2>3. A = K + X /\ C = K + Y
    BY <1>1 DEF Due
  <2>4. PICK ms \in SUBSET Mints : fr \in FarmerOf(ms)
    BY DEF InFarm, IsFarmer
  <2>5. PICK ks \in SUBSET Mints : new \in FarmerOf(ks)
    BY DEF IsFarmer
  <2>6. X \in Nat
    BY <2>1, <2>4, UnpaidType
  <2>7. Y \in Nat
    BY <2>1, <2>5, UnpaidType
  <2>8. Credit(fr, m) \in Nat
    BY <2>4, AccountType
  <2>9. K \in Nat
    BY <2>8, Products
  <2> HIDE DEF A, C, V, K, X, Y
  <2>10. C + V <= A + V
    BY <2>1, <2>2, <2>3, <2>6, <2>7, <2>9
  <2>11. QED
    BY <2>10 DEF A, C, V
<1>3. QED
  BY <1>1, <1>2 DEF Settles

\* Tokens that vest from now on.
LEMMA SettlesDeposit ==
  ASSUME NEW fr, NEW fm, NEW now, InFarm(fr, fm, now), NEW tokens \in Nat,
         NEW vault \in [Mints -> Nat]
  PROVE  /\ IsFarmer(AddToVested(fr, now, tokens), Mints)
         /\ Settles(fr, AddToVested(fr, now, tokens), fm, now, vault, vault)
         /\ AddToVested(fr, now, tokens).nextFrom = fr.nextFrom
<1> DEFINE new == AddToVested(fr, now, tokens)
           b == fm.snapshots
<1>1. PICK ms \in SUBSET Mints : fr \in FarmerOf(ms)
  BY DEF InFarm, IsFarmer
<1>2. PICK hs \in SUBSET Mints : fm \in FarmOf(hs)
  BY DEF InFarm, IsFarm
<1>3. b \in Buffer /\ RingInOrder(b, now) /\ now \in Nat
  BY <1>2 DEF FarmOf, FarmInOrder, InFarm
<1>4. /\ new \in FarmerOf(ms) /\ new.staked = fr.staked
      /\ new.vestedAt = now /\ new.nextFrom = fr.nextFrom
  BY <1>1, <1>3, AddToVestedEffect
<1>5. new.harvests = fr.harvests
  BY <1>1 DEF AddToVested, FarmerOf
<1> HIDE DEF new
<1>6. VestingOver(new, b) = {}
  <2>1. Latest(b).startedAt <= now
    BY <1>3 DEF RingInOrder
  <2>2. QED
    BY <1>4, <2>1, NothingAfterLatest DEF VestingOver
<1>7. ASSUME NEW ps \in Periods, NEW upto \in Nat, Near(fr, b, upto)
      PROVE  Unpaid(new, b, ps, upto) <= Unpaid(fr, b, ps, upto)
  <2>1. EarnsFrom(new, b, upto) = upto + 1
    BY <1>3, <1>4, <1>6, EarnsFromType
  <2>2. EarnsFrom(fr, b, upto) <= upto + 1
    BY <1>1, <1>3, EarnsFromType
  <2>3. new.staked <= fr.staked
    BY <1>1, <1>4, AccountType
  <2>4. QED
    BY <1>1, <1>3, <1>4, <1>7, <2>1, <2>2, <2>3, UnpaidOfLess
<1>8. IsFarmer(new, Mints) /\ \A m : Credit(new, m) = Credit(fr, m)
  BY <1>4, <1>5 DEF IsFarmer, Credit
<1>9. Settles(fr, new, fm, now, vault, vault)
  BY <1>4, <1>7, <1>8, SettlesStake
<1>10. QED
  BY <1>4, <1>8, <1>9 DEF new

\* Tokens that are taken out.
LEMMA SettlesUnstake ==
  ASSUME NEW fr, NEW fm, NEW now, InFarm(fr, fm, now), NEW max \in Nat,
         NEW vault \in [Mints -> Nat]
  PROVE  /\ IsFarmer(Unstake(fr, max), Mints)
         /\ Settles(fr, Unstake(fr, max), fm, now, vault, vault)
         /\ Unstake(fr, max).nextFrom = fr.nextFrom
<1> DEFINE new == Unstake(fr, max)
           b == fm.snapshots
<1>1. PICK ms \in SUBSET Mints : fr \in FarmerOf(ms)
  BY DEF InFarm, IsFarmer
<1>2. PICK hs \in SUBSET Mints : fm \in FarmOf(hs)
  BY DEF InFarm, IsFarm
<1>3. b \in Buffer
  BY <1>2 DEF FarmOf
<1>4. /\ new \in FarmerOf(ms) /\ new.staked <= fr.staked /\ new.vested <= fr.vested
      /\ new.vestedAt = fr.vestedAt /\ new.nextFrom = fr.nextFrom
  BY <1>1, UnstakeEffect
<1>5. new.harvests = fr.harvests
  BY <1>1 DEF Unstake, FarmerOf
<1> HIDE DEF new
<1>6. /\ fr.staked \in Nat /\ fr.vested \in Nat /\ new.staked \in Nat /\ new.vested \in Nat
      /\ new.staked + new.vested <= fr.staked + fr.vested
  <2>1. fr.staked \in Nat /\ fr.vested \in Nat
    BY <1>1, AccountType
  <2>2. new.staked \in Nat /\ new.vested \in Nat
    BY <1>4, AccountType
  <2>3. QED
    BY <1>4, <2>1, <2>2
<1>7. ASSUME NEW ps \in Periods, NEW upto \in Nat, Near(fr, b, upto)
      PROVE  Unpaid(new, b, ps, upto) <= Unpaid(fr, b, ps, upto)
  <2>1. EarnsFrom(fr, b, upto) <= EarnsFrom(new, b, upto)
    <3>1. EarnsFrom(fr, b, upto) \in Nat /\ EarnsFrom(fr, b, upto) <= upto + 1
      BY <1>1, <1>3, EarnsFromType
    <3>2. CASE new.vested = 0
      <4>1. VestingOver(new, b) = {}
        BY <3>2 DEF VestingOver
      <4>2. EarnsFrom(new, b, upto) = upto + 1
        BY <1>3, <1>4, <4>1, EarnsFromType
      <4>3. QED
        BY <3>1, <4>2
    <3>3. CASE new.vested # 0
      <4>1. fr.vested # 0
        BY <1>4, <1>6, <3>3
      <4>2. VestingOver(new, b) = VestingOver(fr, b)
        BY <1>4, <3>3, <4>1 DEF VestingOver
      <4>3. EarnsFrom(new, b, upto) = EarnsFrom(fr, b, upto)
        BY <4>2 DEF EarnsFrom
      <4>4. QED
        BY <3>1, <4>3
    <3>4. QED
      BY <3>2, <3>3
  <2>2. QED
    BY <1>1, <1>3, <1>4, <1>6, <1>7, <2>1, UnpaidOfLess
<1>8. IsFarmer(new, Mints) /\ \A m : Credit(new, m) = Credit(fr, m)
  BY <1>4, <1>5 DEF IsFarmer, Credit
<1>9. Settles(fr, new, fm, now, vault, vault)
  BY <1>4, <1>7, <1>8, SettlesStake
<1>10. QED
  BY <1>4, <1>8, <1>9 DEF new

\* Credit that is paid out of the vault, or into it.
LEMMA SettlesCredit ==
  ASSUME NEW fr, NEW fm, NEW now, InFarm(fr, fm, now), NEW new, IsFarmer(new, Mints),
         Keeps(fr, new), NEW vault \in [Mints -> Nat], NEW vault2 \in [Mints -> Nat],
         \A m \in Mints : Credit(new, m) + vault[m] <= Credit(fr, m) + vault2[m],
         \A m \in Mints \ DOMAIN fm.harvests : Credit(fr, m) = 0 => Credit(new, m) = 0
  PROVE  Settles(fr, new, fm, now, vault, vault2)
<1>1. new # None /\ fr # None /\ new.nextFrom <= now + 1
  BY RecordsExist DEF InFarm, Near, Keeps
<1>2. ASSUME NEW m \in DOMAIN fm.harvests, NEW upto \in {now - 1, now}
      PROVE  Due(new, fm.snapshots, fm.harvests[m], m, upto) + Wad * vault[m]
                <= Due(fr, fm.snapshots, fm.harvests[m], m, upto) + Wad * vault2[m]
  <2> DEFINE A == Due(fr, fm.snapshots, fm.harvests[m], m, upto)
             C == Due(new, fm.snapshots, fm.harvests[m], m, upto)
             v == vault[m]
             w == vault2[m]
             k == Credit(fr, m)
             l == Credit(new, m)
             X == Unpaid(fr, fm.snapshots, fm.harvests[m], upto)
  <2>1. /\ fm.snapshots \in Buffer /\ fm.harvests[m] \in Periods /\ upto \in Nat
        /\ v \in Nat /\ m \in Mints
    BY InFarmTypes
  <2>2. w \in Nat
    BY InFarmTypes
  <2>3. A = Wad * k + X /\ C = Wad * l + X
    BY <1>1, UnpaidOfSame DEF Due
  <2>4. PICK ms \in SUBSET Mints : fr \in FarmerOf(ms)
    BY DEF InFarm, IsFarmer
  <2>5. PICK ks \in SUBSET Mints : new \in FarmerOf(ks)
    BY DEF IsFarmer
  <2>6. X \in Nat /\ k \in Nat
    BY <2>1, <2>4, UnpaidType, AccountType
  <2>7. l \in Nat
    BY <2>5, AccountType
  <2>8. l + v <= k + w
    BY <2>1
  <2> HIDE DEF A, C, v, w, k, l, X
  <2>9. Wad * (l + v) <= Wad * (k + w)
    <3>1. l + v \in Nat /\ k + w \in Nat
      BY <2>1, <2>2, <2>6, <2>7
    <3>2. QED
      BY <2>8, <3>1, Products, Zenon
  <2>10. Wad * (l + v) = Wad * l + Wad * v /\ Wad * (k + w) = Wad * k + Wad * w
    BY <2>1, <2>2, <2>6, <2>7
  <2>11. Wad * l \in Nat /\ Wad * v \in Nat /\ Wad * k \in Nat /\ Wad * w \in Nat
    BY <2>1, <2>2, <2>6, <2>7, Products
  <2>12. C + Wad * v <= A + Wad * w
    BY <2>3, <2>6, <2>9, <2>10, <2>11
  <2>13. QED
    BY <2>12 DEF A, C, v, w
<1>3. QED
  BY <1>1, <1>2 DEF Settles

\* An account that is opened, and one that is closed.
LEMMA SettlesNew ==
  ASSUME NEW fm, NEW now \in Nat \ {0}, IsFarm(fm), NEW vault \in [Mints -> Nat]
  PROVE  /\ IsFarmer(NewFarmer(DOMAIN fm.harvests), Mints)
         /\ Settles(None, NewFarmer(DOMAIN fm.harvests), fm, now, vault, vault)
<1> DEFINE new == NewFarmer(DOMAIN fm.harvests)
           b == fm.snapshots
<1>1. PICK hs \in SUBSET Mints : fm \in FarmOf(hs)
  BY DEF IsFarm
<1>2. DOMAIN fm.harvests = hs /\ b \in Buffer /\ fm.harvests \in [hs -> Periods]
  BY <1>1 DEF FarmOf
<1>3. /\ new \in FarmerOf(hs) /\ new.staked = 0 /\ new.vested = 0 /\ new.nextFrom = 0
      /\ \A m : Credit(new, m) = 0
  BY <1>2 DEF NewFarmer, FarmerOf, Credit
<1> HIDE DEF new
<1>4. IsFarmer(new, Mints) /\ new # None
  BY <1>3, RecordsExist DEF IsFarmer
<1>5. ASSUME NEW m \in DOMAIN fm.harvests, NEW upto \in {now - 1, now}
      PROVE  Due(new, b, fm.harvests[m], m, upto) + Wad * vault[m]
                <= Due(None, b, fm.harvests[m], m, upto) + Wad * vault[m]
  <2> DEFINE ps == fm.harvests[m]
             at == EarnsFrom(new, b, upto)
             before == at - 1
             since == new.nextFrom
             V == Wad * vault[m]
  <2>1. upto \in Nat /\ ps \in Periods
    BY <1>2
  <2>2. at \in Int /\ before \in Int /\ since \in Int /\ upto \in Int
    BY <1>2, <1>3, <2>1, EarnsFromType
  <2>3. new.staked = 0 /\ new.staked + new.vested = 0
    BY <1>3
  <2>4. Unpaid(new, b, ps, upto) = Earned(b, ps, since, before, 0) + Earned(b, ps, at, upto, 0)
    BY <2>3 DEF Unpaid
  <2> DEFINE none == new.staked
  <2>5. Unpaid(new, b, ps, upto) = Earned(b, ps, since, before, none) + Earned(b, ps, at, upto, none)
    BY <2>3, <2>4
  <2>6. none \in Nat /\ none = 0
    BY <2>3
  <2> HIDE DEF none, at, before, since, ps
  <2>7. Earned(b, ps, since, before, none) = 0
    BY <1>2, <2>1, <2>2, <2>6, NothingEarned
  <2>8. Earned(b, ps, at, upto, none) = 0
    BY <1>2, <2>1, <2>2, <2>6, NothingEarned
  <2>9. Due(new, b, ps, m, upto) = 0
    BY <1>3, <1>4, <2>5, <2>7, <2>8 DEF Due
  <2>10. Due(None, b, ps, m, upto) = 0
    BY DEF Due
  <2>11. V \in Nat
    <3>1. m \in Mints
      BY <1>2
    <3>2. vault[m] \in Nat
      BY <3>1
    <3>3. QED
      BY <3>2, Products
  <2> HIDE DEF V
  <2>12. Due(new, b, ps, m, upto) + V <= Due(None, b, ps, m, upto) + V
    BY <2>9, <2>10, <2>11
  <2>13. QED
    BY <2>12 DEF ps, V
<1>6. new.nextFrom <= now + 1
  BY <1>3
<1>7. Settles(None, new, fm, now, vault, vault)
  BY <1>3, <1>4, <1>5, <1>6 DEF Settles
<1>8. QED
  BY <1>4, <1>7 DEF new

\* An account is closed only when its credit was claimed.
LEMMA SettlesClose ==
  ASSUME NEW fr, NEW fm, NEW now, InFarm(fr, fm, now), NEW vault \in [Mints -> Nat]
  PROVE  Settles(fr, None, fm, now, vault, vault)
<1>1. ASSUME NEW m \in DOMAIN fm.harvests, NEW upto \in {now - 1, now}
      PROVE  Due(None, fm.snapshots, fm.harvests[m], m, upto) + Wad * vault[m]
                <= Due(fr, fm.snapshots, fm.harvests[m], m, upto) + Wad * vault[m]
  <2> DEFINE A == Due(fr, fm.snapshots, fm.harvests[m], m, upto)
             C == Due(None, fm.snapshots, fm.harvests[m], m, upto)
             V == Wad * vault[m]
  <2>1. /\ fm.snapshots \in Buffer /\ fm.harvests[m] \in Periods /\ upto \in Nat /\ V \in Nat
    BY InFarmTypes
  <2>2. A \in Nat
    BY <2>1, DueType DEF InFarm
  <2>3. C = 0
    BY DEF Due
  <2> HIDE DEF A, C, V
  <2>4. C + V <= A + V
    BY <2>1, <2>2, <2>3
  <2>5. QED
    BY <2>4 DEF A, C, V
<1>2. ASSUME NEW new, new = None PROVE Settles(fr, new, fm, now, vault, vault)
  BY <1>1, <1>2 DEF Settles
<1>3. QED
  BY <1>2

-----------------------------------------------------------------------------
(* All accounts of a farm, and the invariant.  A vault is in funds when it *)
(* covers the dues up to this slot and what the periods release after it;  *)
(* and, until somebody is updated in this slot, also when the two are seen *)
(* from the slot before: a snapshot or a period that starts now changes    *)
(* what this slot pays, and that part is then still ahead.                 *)

Dues(accounts, b, ps, m, upto) == [u \in Users |-> Due(accounts[u], b, ps, m, upto)]

\* A vault covers what all users are owed up to a slot, and what the periods
\* release after it.
Backs(vault, accounts, b, ps, m, upto) ==
  SumFunctionOnSet(Dues(accounts, b, ps, m, upto), Users) + Wad * Ahead(ps, upto + 1) <= Wad * vault

\* Nobody was updated in the slot.
IsFresh(accounts, now) == \A u \in Users : accounts[u] # None => accounts[u].nextFrom <= now

\* The vault of a mint that a farm has, seen from this slot and, until somebody
\* is updated in it, from the slot before; nobody has credit of other mints.
Funds(fm, accounts, vault, m, now) ==
  IF fm # None /\ m \in DOMAIN fm.harvests
    THEN /\ Backs(vault, accounts, fm.snapshots, fm.harvests[m], m, now)
         /\ IsFresh(accounts, now)
              => Backs(vault, accounts, fm.snapshots, fm.harvests[m], m, now - 1)
    ELSE \A u \in Users : accounts[u] # None => Credit(accounts[u], m) = 0

\* The accounts of a farm, as they are between transactions.
AreInFarm(accounts, fm, now) ==
  /\ now \in Nat \ {0} /\ IsFarm(fm) /\ FarmInOrder(fm, now)
  /\ \A u \in Users : accounts[u] = None \/ InFarm(accounts[u], fm, now)

\* The dues of all users are numbers, and so is their sum.
LEMMA DuesType ==
  ASSUME NEW accounts, \A u \in Users : accounts[u] = None \/ IsFarmer(accounts[u], Mints),
         NEW b \in Buffer, NEW ps \in Periods, NEW m, NEW upto \in Nat
  PROVE  /\ \A u \in Users : Dues(accounts, b, ps, m, upto)[u] \in Nat
         /\ SumFunctionOnSet(Dues(accounts, b, ps, m, upto), Users) \in Nat
<1> DEFINE d == Dues(accounts, b, ps, m, upto)
<1>1. ASSUME NEW u \in Users PROVE d[u] \in Nat
  BY DueType DEF Dues
<1> HIDE DEF d
<1>2. SumFunctionOnSet(d, Users) \in Nat
  BY <1>1, SumUnfolds
<1>3. QED
  BY <1>1, <1>2 DEF d

\* One account and the vault change together.
LEMMA BacksAfterOne ==
  ASSUME NEW accounts, NEW accounts2, NEW u \in Users,
         \A v \in Users : accounts[v] = None \/ IsFarmer(accounts[v], Mints),
         accounts2[u] = None \/ IsFarmer(accounts2[u], Mints),
         \A v \in Users \ {u} : accounts2[v] = accounts[v],
         NEW b \in Buffer, NEW ps \in Periods, NEW m, NEW upto \in Nat,
         NEW vault \in Nat, NEW vault2 \in Nat,
         Due(accounts2[u], b, ps, m, upto) + Wad * vault
           <= Due(accounts[u], b, ps, m, upto) + Wad * vault2,
         Backs(vault, accounts, b, ps, m, upto)
  PROVE  Backs(vault2, accounts2, b, ps, m, upto)
<1> DEFINE f == Dues(accounts, b, ps, m, upto)
           e == Dues(accounts2, b, ps, m, upto)
           A == Wad * Ahead(ps, upto + 1)
           V == Wad * vault
           W == Wad * vault2
<1>1. \A v \in Users : accounts2[v] = None \/ IsFarmer(accounts2[v], Mints)
  OBVIOUS
<1>2. \A v \in Users : f[v] \in Nat
  BY DuesType
<1>3. \A v \in Users : e[v] \in Nat
  BY <1>1, DuesType
<1>4. \A v \in Users \ {u} : e[v] = f[v]
  BY DEF Dues
<1>5. e[u] + V <= f[u] + W
  BY DEF Dues
<1>6. SumFunctionOnSet(f, Users) + A <= V
  BY DEF Backs
<1>7. V \in Nat /\ W \in Nat
  BY Products
<1>8. A \in Nat
  <2> DEFINE next == upto + 1
             a == Ahead(ps, next)
  <2>1. next \in Nat
    OBVIOUS
  <2>2. a \in Nat
    <3> HIDE DEF next
    <3>1. QED
      BY <2>1, AheadType
  <2> HIDE DEF a
  <2>3. Wad * a \in Nat
    BY <2>2, Products
  <2>4. QED
    BY <2>3 DEF a
<1> HIDE DEF f, e, A, V, W
<1>9. SumFunctionOnSet(e, Users) + f[u] = SumFunctionOnSet(f, Users) + e[u]
  BY <1>2, <1>3, <1>4, SumChanges
<1>10. SumFunctionOnSet(e, Users) \in Nat /\ SumFunctionOnSet(f, Users) \in Nat
  BY <1>2, <1>3, SumUnfolds
<1>11. SumFunctionOnSet(e, Users) + A <= W
  BY <1>2, <1>3, <1>5, <1>6, <1>7, <1>8, <1>9, <1>10
<1>12. QED
  BY <1>11 DEF Backs, e, A, W

\* A transaction that settles one account keeps the vault in funds.
LEMMA FundsAfterOne ==
  ASSUME NEW fm, NEW accounts, NEW accounts2, NEW now, AreInFarm(accounts, fm, now),
         NEW u \in Users, NEW vault \in [Mints -> Nat], NEW vault2 \in [Mints -> Nat],
         Settles(accounts[u], accounts2[u], fm, now, vault, vault2),
         \A v \in Users \ {u} : accounts2[v] = accounts[v],
         IsFresh(accounts2, now) => IsFresh(accounts, now),
         NEW m \in Mints, Funds(fm, accounts, vault[m], m, now)
  PROVE  Funds(fm, accounts2, vault2[m], m, now)
<1> DEFINE b == fm.snapshots
<1>1. PICK hs \in SUBSET Mints : fm \in FarmOf(hs)
  BY DEF AreInFarm, IsFarm
<1>2. b \in Buffer /\ fm.harvests \in [hs -> Periods] /\ DOMAIN fm.harvests = hs /\ fm # None
  BY <1>1, NoneAssumption, Zenon DEF FarmOf
<1>3. now \in Nat /\ now - 1 \in Nat /\ vault[m] \in Nat /\ vault2[m] \in Nat
  BY DEF AreInFarm
<1>4. /\ \A v \in Users : accounts[v] = None \/ IsFarmer(accounts[v], Mints)
      /\ accounts2[u] = None \/ IsFarmer(accounts2[u], Mints)
  BY DEF AreInFarm, InFarm, Settles
<1>5. CASE m \in hs
  <2> DEFINE ps == fm.harvests[m]
  <2>1. ps \in Periods
    BY <1>2, <1>5
  <2>2. ASSUME NEW upto \in {now - 1, now},
               accounts[u] # None => Near(accounts[u], b, upto),
               accounts2[u] # None => accounts2[u].nextFrom <= upto + 1,
               Backs(vault[m], accounts, b, ps, m, upto)
        PROVE  Backs(vault2[m], accounts2, b, ps, m, upto)
    <3> DEFINE v1 == vault[m]
               v2 == vault2[m]
    <3>1. Due(accounts2[u], b, ps, m, upto) + Wad * v1
            <= Due(accounts[u], b, ps, m, upto) + Wad * v2
      BY <1>2, <1>5, <2>2 DEF Settles
    <3>2. upto \in Nat /\ v1 \in Nat /\ v2 \in Nat
      BY <1>3
    <3>3. Backs(v1, accounts, b, ps, m, upto)
      BY <2>2
    <3> HIDE DEF v1, v2, ps, b
    <3>4. Backs(v2, accounts2, b, ps, m, upto)
      BY <1>2, <1>4, <2>1, <3>1, <3>2, <3>3, BacksAfterOne, Zenon
    <3>5. QED
      BY <3>4 DEF v2, ps, b
  <2>3. /\ Backs(vault[m], accounts, b, ps, m, now)
        /\ IsFresh(accounts, now) => Backs(vault[m], accounts, b, ps, m, now - 1)
    BY <1>2, <1>5 DEF Funds
  <2>4. Backs(vault2[m], accounts2, b, ps, m, now)
    <3>1. accounts[u] # None => Near(accounts[u], b, now)
      BY DEF AreInFarm, InFarm
    <3>2. accounts2[u] # None => accounts2[u].nextFrom <= now + 1
      BY DEF Settles
    <3>3. QED
      BY <2>2, <2>3, <3>1, <3>2
  <2>5. ASSUME IsFresh(accounts2, now) PROVE Backs(vault2[m], accounts2, b, ps, m, now - 1)
    <3>1. IsFresh(accounts, now)
      BY <2>5
    <3>2. accounts[u] # None => Near(accounts[u], b, now - 1)
      <4>1. ASSUME accounts[u] # None PROVE Near(accounts[u], b, now - 1)
        <5>1. Near(accounts[u], b, now) /\ accounts[u].nextFrom <= now
          BY <3>1, <4>1 DEF AreInFarm, InFarm, IsFresh
        <5>2. (now - 1) + 1 = now
          BY <1>3
        <5>3. QED
          BY <5>1, <5>2 DEF Near
      <4>2. QED
        BY <4>1
    <3>3. accounts2[u] # None => accounts2[u].nextFrom <= (now - 1) + 1
      BY <1>3, <2>5 DEF IsFresh
    <3>4. QED
      BY <2>2, <2>3, <3>1, <3>2, <3>3
  <2>6. QED
    BY <1>2, <1>5, <2>4, <2>5 DEF Funds
<1>6. CASE m \notin hs
  <2>1. \A v \in Users : accounts[v] # None => Credit(accounts[v], m) = 0
    BY <1>2, <1>6 DEF Funds
  <2>2. accounts2[u] # None => Credit(accounts2[u], m) = 0
    BY <1>2, <1>6, <2>1 DEF Settles
  <2>3. \A v \in Users : accounts2[v] # None => Credit(accounts2[v], m) = 0
    BY <2>1, <2>2
  <2>4. QED
    BY <1>2, <1>6, <2>3 DEF Funds
<1>7. QED
  BY <1>5, <1>6

\* Every harvest vault covers what it is to pay.
Funded ==
  \A f \in Farms, m \in Mints : Funds(farm[f], farmer[f], harvestVault[f][m], m, slot)

\* Nobody harvested more than up to this slot.
InTime == \A f \in Farms : \A u \in Farmers(f) : farmer[f][u].nextFrom <= slot + 1

\* What the proof of Funded knows of a state.
Orderly == Typed /\ HistoriesInOrder /\ EndsAhead /\ InTime

\* The accounts of a farm in an orderly state.
LEMMA OrderlyFarm ==
  ASSUME Orderly, NEW f \in Farms, FarmExists(f)
  PROVE  AreInFarm(farmer[f], farm[f], slot)
<1>1. slot \in Nat \ {0} /\ IsFarm(farm[f]) /\ FarmInOrder(farm[f], slot)
  BY DEF Orderly, Typed, BalancesTyped, FarmsTyped, HistoriesInOrder, FarmExists
<1>2. ASSUME NEW u \in Users, farmer[f][u] # None PROVE InFarm(farmer[f][u], farm[f], slot)
  <2>1. IsFarmer(farmer[f][u], Mints) /\ u \in Farmers(f)
    BY <1>2 DEF Orderly, Typed, FarmersTyped, Farmers, FarmerExists
  <2>2. farmer[f][u].nextFrom <= slot + 1
    BY <2>1 DEF Orderly, InTime
  <2>3. \A s \in VestingOver(farmer[f][u], farm[f].snapshots) : farmer[f][u].nextFrom <= s.startedAt
    BY <2>1, EndOfVestingByRing DEF Orderly, EndsAhead
  <2>4. QED
    BY <1>1, <2>1, <2>2, <2>3 DEF InFarm, Near
<1>3. QED
  BY <1>1, <1>2 DEF AreInFarm

\* A farmer and its farm in an orderly state.
LEMMA OrderlyFarmer ==
  ASSUME Orderly, NEW f \in Farms, NEW u \in Users, FarmerExists(f, u)
  PROVE  /\ FarmExists(f) /\ InFarm(farmer[f][u], farm[f], slot)
         /\ slot \in Nat /\ harvestVault[f] \in [Mints -> Nat]
<1>1. FarmExists(f)
  BY DEF Orderly, Typed, FarmersHaveFarms
<1>2. AreInFarm(farmer[f], farm[f], slot)
  BY <1>1, OrderlyFarm
<1>3. QED
  BY <1>1, <1>2 DEF AreInFarm, FarmerExists, Orderly, Typed, BalancesTyped

\* At most one account of a farm changes, and the vaults with it.
Settled(f) ==
  \/ farmer'[f] = farmer[f] /\ harvestVault'[f] = harvestVault[f]
  \/ /\ FarmExists(f)
     /\ \E u \in Users :
          /\ \A v \in Users \ {u} : farmer'[f][v] = farmer[f][v]
          /\ Settles(farmer[f][u], farmer'[f][u], farm[f], slot, harvestVault[f], harvestVault'[f])

\* The cursor of a farmer that was updated stays beyond the slot.
LEMMA FreshBefore ==
  ASSUME Orderly, Step, SnapshotsComeFirst, slot' = slot, NEW f \in Farms,
         IsFresh(farmer'[f], slot)
  PROVE  IsFresh(farmer[f], slot)
<1>1. SUFFICES ASSUME NEW u \in Users, farmer[f][u] # None PROVE farmer[f][u].nextFrom <= slot
  BY DEF IsFresh
<1>2. FarmerExists(f, u)
  BY <1>1 DEF FarmerExists
<1>3. CASE farmer'[f][u] = None
  BY <1>2, <1>3 DEF SnapshotsComeFirst, NotUpdatedYet
<1>4. CASE farmer'[f][u] # None
  <2>1. farmer'[f][u].nextFrom >= farmer[f][u].nextFrom
    BY <1>2, <1>4, CursorStep DEF Orderly
  <2>2. farmer'[f][u].nextFrom <= slot
    BY <1>4 DEF IsFresh
  <2>3. farmer[f][u].nextFrom \in Nat
    BY <1>2, VestingTypes DEF Orderly
  <2>4. farmer'[f][u].nextFrom \in Nat
    <3>1. IsFarmer(farmer'[f][u], Mints)
      BY <1>4 DEF Step, Typed, FarmersTyped
    <3>2. QED
      BY <3>1, AccountType DEF IsFarmer
  <2>5. slot \in Nat
    BY DEF Orderly, Typed, BalancesTyped
  <2>6. QED
    BY <2>1, <2>2, <2>3, <2>4, <2>5
<1>5. QED
  BY <1>3, <1>4

\* The vaults stay in funds when each farm settles at most one account.
LEMMA SettledStep ==
  ASSUME Orderly, Funded, Step, SnapshotsComeFirst, UNCHANGED <<slot, farm>>,
         \A f \in Farms : Settled(f)
  PROVE  Funded' /\ InTime'
<1>1. ASSUME NEW f \in Farms, NEW m \in Mints
      PROVE  Funds(farm[f], farmer'[f], harvestVault'[f][m], m, slot)
  <2>1. Funds(farm[f], farmer[f], harvestVault[f][m], m, slot)
    BY DEF Funded
  <2>2. CASE farmer'[f] = farmer[f] /\ harvestVault'[f] = harvestVault[f]
    BY <2>1, <2>2
  <2>3. ASSUME NEW u \in Users, FarmExists(f),
               \A v \in Users \ {u} : farmer'[f][v] = farmer[f][v],
               Settles(farmer[f][u], farmer'[f][u], farm[f], slot, harvestVault[f], harvestVault'[f])
        PROVE  Funds(farm[f], farmer'[f], harvestVault'[f][m], m, slot)
    <3> DEFINE fm == farm[f]
               x == farmer[f]
               y == farmer'[f]
               v == harvestVault[f]
               w == harvestVault'[f]
               now == slot
    <3>1. AreInFarm(x, fm, now)
      BY <2>3, OrderlyFarm
    <3>2. v \in [Mints -> Nat] /\ w \in [Mints -> Nat]
      BY DEF Orderly, Step, Typed, BalancesTyped
    <3>3. IsFresh(y, now) => IsFresh(x, now)
      BY FreshBefore
    <3>4. Settles(x[u], y[u], fm, now, v, w) /\ \A i \in Users \ {u} : y[i] = x[i]
      BY <2>3
    <3>5. Funds(fm, x, v[m], m, now)
      BY <2>1
    <3> HIDE DEF fm, x, y, v, w, now
    <3>6. Funds(fm, y, w[m], m, now)
      BY <3>1, <3>2, <3>3, <3>4, <3>5, FundsAfterOne
    <3>7. QED
      BY <3>6 DEF fm, y, w, now
  <2>4. QED
    BY <2>2, <2>3 DEF Settled
<1>2. ASSUME NEW f \in Farms, NEW u \in Users, farmer'[f][u] # None
      PROVE  farmer'[f][u].nextFrom <= slot + 1
  <2>1. farmer'[f][u] = farmer[f][u] => farmer'[f][u].nextFrom <= slot + 1
    BY <1>2 DEF Orderly, InTime, Farmers, FarmerExists
  <2>2. QED
    BY <1>2, <2>1 DEF Settled, Settles
<1>3. InTime'
  BY <1>2 DEF InTime, Farmers, FarmerExists
<1>4. Funded'
  BY <1>1 DEF Funded
<1>5. QED
  BY <1>3, <1>4

-----------------------------------------------------------------------------
(* The users' endpoints settle accounts.                                   *)

\* A farmer whose vested tokens are staked is as between transactions.
LEMMA InFarmWhenStaked ==
  ASSUME NEW fr, NEW fm, NEW now, InFarm(fr, fm, now), NEW new, IsFarmer(new, Mints),
         VestingOver(new, fm.snapshots) = {}, new.nextFrom <= now + 1
  PROVE  InFarm(new, fm, now)
BY DEF InFarm, Near

\* A transaction that writes one farmer.
LEMMA OneSettles ==
  ASSUME Orderly, NEW f \in Farms, NEW u \in Users, NEW x,
         farmer' = [farmer EXCEPT ![f][u] = x], FarmExists(f),
         \A g \in Farms \ {f} : harvestVault'[g] = harvestVault[g],
         Settles(farmer[f][u], x, farm[f], slot, harvestVault[f], harvestVault'[f])
  PROVE  \A g \in Farms : Settled(g)
<1>1. DOMAIN farmer = Farms /\ DOMAIN farmer[f] = Users
  BY DEF Orderly, Typed, FarmersTyped
<1>2. farmer'[f][u] = x /\ \A v \in Users \ {u} : farmer'[f][v] = farmer[f][v]
  BY <1>1
<1>3. \A g \in Farms \ {f} : farmer'[g] = farmer[g]
  BY <1>1
<1>4. Settled(f)
  BY <1>2 DEF Settled
<1>5. \A g \in Farms \ {f} : Settled(g)
  BY <1>3 DEF Settled
<1>6. QED
  BY <1>4, <1>5

\* create_farmer: a new farmer is due nothing.
LEMMA CreateFarmerSettles ==
  ASSUME Orderly, NEW f \in Farms, NEW u \in Users, CreateFarmer(f, u)
  PROVE  \A g \in Farms : Settled(g)
<1> DEFINE x == NewFarmer(DOMAIN farm[f].harvests)
<1>1. /\ FarmExists(f) /\ farmer[f][u] = None /\ farmer' = [farmer EXCEPT ![f][u] = x]
      /\ harvestVault' = harvestVault
  BY DEF CreateFarmer, FarmerExists
<1>2. IsFarm(farm[f]) /\ slot \in Nat \ {0} /\ harvestVault[f] \in [Mints -> Nat]
  BY <1>1 DEF Orderly, Typed, FarmsTyped, BalancesTyped, FarmExists
<1>3. Settles(None, x, farm[f], slot, harvestVault[f], harvestVault[f])
  BY <1>2, SettlesNew
<1> HIDE DEF x
<1>4. QED
  BY <1>1, <1>3, OneSettles, Zenon

\* close_farmer.
LEMMA CloseFarmerSettles ==
  ASSUME Orderly, NEW f \in Farms, NEW u \in Users, CloseFarmer(f, u)
  PROVE  \A g \in Farms : Settled(g)
<1>1. /\ FarmerExists(f, u) /\ farmer' = [farmer EXCEPT ![f][u] = None]
      /\ harvestVault' = harvestVault
  BY DEF CloseFarmer
<1>2. /\ FarmExists(f) /\ InFarm(farmer[f][u], farm[f], slot)
      /\ slot \in Nat /\ harvestVault[f] \in [Mints -> Nat]
  BY <1>1, OrderlyFarmer
<1>3. Settles(farmer[f][u], None, farm[f], slot, harvestVault[f], harvestVault[f])
  BY <1>2, SettlesClose
<1>4. QED
  BY <1>1, <1>2, <1>3, OneSettles, Zenon

\* What an update is to the vault.
LEMMA UpdatedSettles ==
  ASSUME Orderly, NEW f \in Farms, NEW u \in Users, FarmerExists(f, u), NEW current \in Nat,
         current <= slot
  PROVE  LET mid == Updated(f, u, current).farmer
         IN  /\ Settles(farmer[f][u], mid, farm[f], slot, harvestVault[f], harvestVault[f])
             /\ IsFarmer(mid, Mints) /\ VestingOver(mid, farm[f].snapshots) = {}
             /\ InFarm(mid, farm[f], slot)
<1> DEFINE fr == farmer[f][u]
           fm == farm[f]
           mid == CheckVestedAndUpdate(fr, fm, current).farmer
           now == slot
           v == harvestVault[f]
<1>1. InFarm(fr, fm, now) /\ now \in Nat /\ v \in [Mints -> Nat]
  BY OrderlyFarmer
<1>2. /\ Settles(fr, mid, fm, now, v, v)
      /\ IsFarmer(mid, Mints) /\ VestingOver(mid, fm.snapshots) = {}
  <2>1. current <= now
    OBVIOUS
  <2> HIDE DEF fr, fm, now, v
  <2>2. QED
    BY <1>1, <2>1, SettlesUpdate, Zenon
<1> HIDE DEF mid
<1>3. InFarm(mid, fm, now)
  <2>1. mid.nextFrom <= now + 1
    BY <1>2, RecordsExist DEF Settles
  <2>2. QED
    BY <1>1, <1>2, <2>1, InFarmWhenStaked, Zenon
<1>4. QED
  BY <1>2, <1>3 DEF mid, Updated

\* update_eligible_harvest and update_eligible_harvest_until.
LEMMA UpdateEligibleSettles ==
  ASSUME Orderly, NEW f \in Farms, NEW u \in Users, NEW until \in Nat,
         UpdateEligibleHarvestUntil(f, u, until)
  PROVE  \A g \in Farms : Settled(g)
<1> DEFINE current == Smaller(slot, until)
           x == Updated(f, u, current).farmer
<1>1. /\ FarmerExists(f, u) /\ farmer' = [farmer EXCEPT ![f][u] = x]
      /\ harvestVault' = harvestVault
  BY DEF UpdateEligibleHarvestUntil
<1>2. FarmExists(f) /\ slot \in Nat
  BY <1>1, OrderlyFarmer
<1>3. current \in Nat /\ current <= slot
  BY <1>2 DEF Smaller
<1> HIDE DEF current
<1>4. Settles(farmer[f][u], x, farm[f], slot, harvestVault[f], harvestVault[f])
  BY <1>1, <1>3, UpdatedSettles
<1> HIDE DEF x
<1>5. QED
  BY <1>1, <1>2, <1>4, OneSettles, Zenon

\* start_farming: an update, then a deposit that earns from the next snapshot on.
LEMMA StartFarmingSettles ==
  ASSUME Orderly, NEW f \in Farms, NEW u \in Users, NEW stake \in StakeAmounts,
         StartFarming(f, u, stake)
  PROVE  \A g \in Farms : Settled(g)
<1> DEFINE fr == farmer[f][u]
           fm == farm[f]
           now == slot
           v == harvestVault[f]
           mid == Updated(f, u, slot).farmer
           x == AddToVested(mid, now, stake)
<1>1. /\ FarmerExists(f, u) /\ farmer' = [farmer EXCEPT ![f][u] = x]
      /\ harvestVault' = harvestVault /\ stake \in Nat
  BY DEF StartFarming
<1>2. FarmExists(f) /\ InFarm(fr, fm, now) /\ now \in Nat /\ v \in [Mints -> Nat]
  BY <1>1, OrderlyFarmer
<1>3. /\ Settles(fr, mid, fm, now, v, v) /\ InFarm(mid, fm, now)
      /\ IsFarmer(mid, Mints) /\ VestingOver(mid, fm.snapshots) = {}
  <2>1. Orderly /\ FarmerExists(f, u) /\ slot \in Nat /\ slot <= slot
    BY <1>1, <1>2
  <2>2. QED
    BY ONLY <2>1, f \in Farms, u \in Users, UpdatedSettles
<1> HIDE DEF mid, fr, fm, now, v
<1>4. /\ IsFarmer(x, Mints) /\ Settles(mid, x, fm, now, v, v) /\ x.nextFrom = mid.nextFrom
  BY <1>1, <1>2, <1>3, SettlesDeposit
<1>5. x # None
  BY <1>4, RecordsExist
<1> HIDE DEF x
<1>6. Settles(fr, x, fm, now, v, v)
  BY <1>2, <1>3, <1>4, <1>5, SettlesTrans
<1>7. QED
  BY <1>1, <1>2, <1>6, OneSettles, Zenon DEF fr, fm, now, v

\* stop_farming: an update, then less stake.
LEMMA StopFarmingSettles ==
  ASSUME Orderly, NEW f \in Farms, NEW u \in Users, NEW max \in UnstakeAmounts,
         StopFarming(f, u, max)
  PROVE  \A g \in Farms : Settled(g)
<1> DEFINE fr == farmer[f][u]
           fm == farm[f]
           now == slot
           v == harvestVault[f]
           mid == Updated(f, u, slot).farmer
           x == Unstake(mid, max)
<1>1. /\ FarmerExists(f, u) /\ farmer' = [farmer EXCEPT ![f][u] = x]
      /\ harvestVault' = harvestVault /\ max \in Nat
  BY DEF StopFarming
<1>2. FarmExists(f) /\ InFarm(fr, fm, now) /\ now \in Nat /\ v \in [Mints -> Nat]
  BY <1>1, OrderlyFarmer
<1>3. /\ Settles(fr, mid, fm, now, v, v) /\ InFarm(mid, fm, now)
      /\ IsFarmer(mid, Mints) /\ VestingOver(mid, fm.snapshots) = {}
  <2>1. Orderly /\ FarmerExists(f, u) /\ slot \in Nat /\ slot <= slot
    BY <1>1, <1>2
  <2>2. QED
    BY ONLY <2>1, f \in Farms, u \in Users, UpdatedSettles
<1> HIDE DEF mid, fr, fm, now, v
<1>4. /\ IsFarmer(x, Mints) /\ Settles(mid, x, fm, now, v, v) /\ x.nextFrom = mid.nextFrom
  BY <1>1, <1>2, <1>3, SettlesUnstake
<1>5. x # None
  BY <1>4, RecordsExist
<1> HIDE DEF x
<1>6. Settles(fr, x, fm, now, v, v)
  BY <1>2, <1>3, <1>4, <1>5, SettlesTrans
<1>7. QED
  BY <1>1, <1>2, <1>6, OneSettles, Zenon DEF fr, fm, now, v

\* A farmer with other credit.
LEMMA CreditOf ==
  ASSUME NEW ms, NEW fr \in FarmerOf(ms), NEW h \in [ms -> Nat]
  PROVE  LET new == [fr EXCEPT !.harvests = h]
         IN  /\ new \in FarmerOf(ms) /\ Keeps(fr, new)
             /\ \A m \in ms : Credit(fr, m) = fr.harvests[m] /\ Credit(new, m) = h[m]
             /\ \A m : m \notin ms => Credit(fr, m) = 0 /\ Credit(new, m) = 0
BY DEF FarmerOf, Keeps, Credit

\* A transaction that writes a farmer's credit, and the vaults as much.
LEMMA CreditSettles ==
  ASSUME Orderly, Step, NEW f \in Farms, NEW u \in Users, NEW h, WritesCredit(f, u, h),
         NEW ms, ms \subseteq Mints, farmer[f][u] \in FarmerOf(ms), h \in [ms -> Nat],
         \A g \in Farms \ {f} : harvestVault'[g] = harvestVault[g],
         \A m \in ms : h[m] + harvestVault[f][m] <= farmer[f][u].harvests[m] + harvestVault'[f][m],
         \A m \in Mints \ ms : harvestVault'[f][m] >= harvestVault[f][m],
         \A m \in Mints \ DOMAIN farm[f].harvests :
           m \in ms /\ farmer[f][u].harvests[m] = 0 => h[m] = 0
  PROVE  \A g \in Farms : Settled(g)
<1> DEFINE fr == farmer[f][u]
           fm == farm[f]
           now == slot
           v == harvestVault[f]
           w == harvestVault'[f]
           x == [fr EXCEPT !.harvests = h]
<1>1. FarmerExists(f, u) /\ farmer' = [farmer EXCEPT ![f][u] = x]
  BY DEF WritesCredit
<1>2. FarmExists(f) /\ InFarm(fr, fm, now) /\ v \in [Mints -> Nat] /\ w \in [Mints -> Nat]
  <2>1. w \in [Mints -> Nat]
    BY DEF Step, Typed, BalancesTyped
  <2>2. QED
    BY <1>1, <2>1, OrderlyFarmer
<1>3. /\ x \in FarmerOf(ms) /\ Keeps(fr, x)
      /\ \A m \in ms : Credit(fr, m) = fr.harvests[m] /\ Credit(x, m) = h[m]
      /\ \A m : m \notin ms => Credit(fr, m) = 0 /\ Credit(x, m) = 0
  <2>1. fr \in FarmerOf(ms) /\ h \in [ms -> Nat]
    OBVIOUS
  <2> HIDE DEF fr
  <2>2. QED
    BY ONLY <2>1, CreditOf
<1>4. /\ \A m \in ms : h[m] + v[m] <= fr.harvests[m] + w[m]
      /\ \A m \in Mints \ ms : w[m] >= v[m]
      /\ \A m \in Mints \ DOMAIN fm.harvests : m \in ms /\ fr.harvests[m] = 0 => h[m] = 0
  OBVIOUS
<1> HIDE DEF fr, fm, now, v, w, x
<1>5. IsFarmer(x, Mints)
  BY <1>3 DEF IsFarmer
<1>6. \A m \in Mints : Credit(x, m) + v[m] <= Credit(fr, m) + w[m]
  <2>1. TAKE m \in Mints
  <2>2. CASE m \in ms
    BY <1>3, <1>4, <2>2
  <2>3. CASE m \notin ms
    <3>1. Credit(fr, m) = 0 /\ Credit(x, m) = 0 /\ w[m] >= v[m] /\ v[m] \in Nat /\ w[m] \in Nat
      BY <1>2, <1>3, <1>4, <2>3
    <3>2. QED
      BY <3>1
  <2>4. QED
    BY <2>2, <2>3
<1>7. \A m \in Mints \ DOMAIN fm.harvests : Credit(fr, m) = 0 => Credit(x, m) = 0
  BY <1>3, <1>4
<1>8. Settles(fr, x, fm, now, v, w)
  BY <1>2, <1>3, <1>5, <1>6, <1>7, SettlesCredit
<1>9. QED
  BY <1>1, <1>2, <1>8, OneSettles, Zenon DEF fr, fm, now, v, w

\* airdrop: the vault gets what the farmer is credited.
LEMMA AirdropSettles ==
  ASSUME Orderly, Step, NEW f \in Farms, NEW u \in Users, NEW m \in Mints,
         NEW amount \in AirdropAmounts, NEW payer \in Admins, Airdrop(f, u, m, amount, payer)
  PROVE  \A g \in Farms : Settled(g)
<1>1. /\ FarmerExists(f, u) /\ m \in DOMAIN farmer[f][u].harvests /\ HasHarvest(f, m)
      /\ farmer' = [farmer EXCEPT ![f][u].harvests[m] = @ + amount]
      /\ harvestVault' = [harvestVault EXCEPT ![f][m] = @ + amount]
      /\ UNCHANGED <<slot, farm, stakeVault>>
  BY DEF Airdrop
<1>2. PICK ms \in SUBSET Mints : farmer[f][u] \in FarmerOf(ms)
  BY <1>1, ExistingFarmer DEF Orderly
<1>3. /\ farmer[f][u].harvests \in [ms -> Nat] /\ m \in ms /\ amount \in Nat
      /\ harvestVault \in [Farms -> [Mints -> Nat]]
  BY <1>1, <1>2 DEF FarmerOf, Orderly, Typed, BalancesTyped
<1> DEFINE h == [farmer[f][u].harvests EXCEPT ![m] = @ + amount]
<1>4. /\ h \in [ms -> Nat] /\ h[m] = farmer[f][u].harvests[m] + amount
      /\ \A k \in ms \ {m} : h[k] = farmer[f][u].harvests[k]
  BY <1>3
<1>5. farmer' = [farmer EXCEPT ![f][u].harvests = h]
  BY <1>1
<1> HIDE DEF h
<1>6. WritesCredit(f, u, h)
  BY <1>1, <1>2, <1>4, <1>5, Zenon DEF WritesCredit
<1>7. /\ \A g \in Farms \ {f} : harvestVault'[g] = harvestVault[g]
      /\ harvestVault'[f][m] = harvestVault[f][m] + amount
      /\ \A k \in Mints \ {m} : harvestVault'[f][k] = harvestVault[f][k]
  BY <1>1, <1>3
<1>8. /\ \A k \in ms : h[k] + harvestVault[f][k] <= farmer[f][u].harvests[k] + harvestVault'[f][k]
      /\ \A k \in Mints \ ms : harvestVault'[f][k] >= harvestVault[f][k]
  <2>1. \A k \in Mints : harvestVault[f][k] \in Nat
    BY <1>3
  <2>2. \A k \in ms : h[k] + harvestVault[f][k] <= farmer[f][u].harvests[k] + harvestVault'[f][k]
    <3>1. TAKE k \in ms
    <3>2. k \in Mints /\ farmer[f][u].harvests[k] \in Nat /\ harvestVault[f][k] \in Nat
      BY <1>2, <1>3, <2>1
    <3>3. CASE k = m
      BY <1>3, <1>4, <1>7, <3>2, <3>3
    <3>4. CASE k # m
      BY <1>4, <1>7, <3>2, <3>4
    <3>5. QED
      BY <3>3, <3>4
  <2>3. \A k \in Mints \ ms : harvestVault'[f][k] >= harvestVault[f][k]
    BY <1>3, <1>7, <2>1
  <2>4. QED
    BY <2>2, <2>3
<1>9. \A k \in Mints \ DOMAIN farm[f].harvests :
        k \in ms /\ farmer[f][u].harvests[k] = 0 => h[k] = 0
  <2>1. m \in DOMAIN farm[f].harvests
    BY <1>1 DEF HasHarvest
  <2>2. QED
    BY <1>4, <2>1
<1>10. ms \subseteq Mints
  BY <1>2
<1>11. QED
  BY <1>2, <1>4, <1>6, <1>7, <1>8, <1>9, <1>10, CreditSettles

\* claim_eligible_harvest: the vault pays the credit.
LEMMA ClaimSettles ==
  ASSUME Orderly, Step, NEW f \in Farms, NEW u \in Users, NEW ks \in SUBSET Mints,
         ClaimEligibleHarvest(f, u, ks)
  PROVE  \A g \in Farms : Settled(g)
<1> DEFINE got == [m \in Mints |->
                     IF FarmerExists(f, u) /\ m \in ks \cap DOMAIN farmer[f][u].harvests
                       THEN farmer[f][u].harvests[m] ELSE 0]
           h == [m \in DOMAIN farmer[f][u].harvests |->
                   IF m \in ks THEN 0 ELSE farmer[f][u].harvests[m]]
<1>1. /\ FarmerExists(f, u)
      /\ farmer' = [farmer EXCEPT ![f][u].harvests = h]
      /\ harvestVault' = [harvestVault EXCEPT ![f] = [m \in Mints |-> @[m] - got[m]]]
      /\ UNCHANGED <<slot, farm, stakeVault>>
  BY DEF ClaimEligibleHarvest
<1>2. PICK ms \in SUBSET Mints : farmer[f][u] \in FarmerOf(ms)
  BY <1>1, ExistingFarmer DEF Orderly
<1>3. /\ farmer[f][u].harvests \in [ms -> Nat]
      /\ harvestVault \in [Farms -> [Mints -> Nat]]
  BY <1>2 DEF FarmerOf, Orderly, Typed, BalancesTyped
<1>4. /\ h \in [ms -> Nat]
      /\ \A m \in ms : h[m] + got[m] = farmer[f][u].harvests[m] /\ h[m] <= farmer[f][u].harvests[m]
      /\ \A m \in Mints \ ms : got[m] = 0
      /\ \A m \in Mints : got[m] \in Nat
  BY <1>1, <1>2, <1>3
<1> HIDE DEF h, got
<1>5. WritesCredit(f, u, h)
  BY <1>1, <1>2, <1>4 DEF WritesCredit
<1>6. /\ \A g \in Farms \ {f} : harvestVault'[g] = harvestVault[g]
      /\ \A m \in Mints : harvestVault'[f][m] = harvestVault[f][m] - got[m]
  BY <1>1, <1>3
<1>7. /\ \A k \in ms : h[k] + harvestVault[f][k] <= farmer[f][u].harvests[k] + harvestVault'[f][k]
      /\ \A k \in Mints \ ms : harvestVault'[f][k] >= harvestVault[f][k]
  <2>1. \A k \in Mints : harvestVault[f][k] \in Nat
    BY <1>3
  <2>2. \A k \in ms : h[k] + harvestVault[f][k] <= farmer[f][u].harvests[k] + harvestVault'[f][k]
    <3>1. TAKE k \in ms
    <3>2. /\ k \in Mints /\ farmer[f][u].harvests[k] \in Nat /\ harvestVault[f][k] \in Nat
          /\ h[k] \in Nat /\ got[k] \in Nat
      BY <1>2, <1>3, <1>4, <2>1
    <3>3. QED
      BY <1>4, <1>6, <3>2
  <2>3. \A k \in Mints \ ms : harvestVault'[f][k] >= harvestVault[f][k]
    BY <1>4, <1>6, <2>1
  <2>4. QED
    BY <2>2, <2>3
<1>8. \A k \in Mints \ DOMAIN farm[f].harvests :
        k \in ms /\ farmer[f][u].harvests[k] = 0 => h[k] = 0
  <2>1. SUFFICES ASSUME NEW k \in Mints, k \in ms, farmer[f][u].harvests[k] = 0 PROVE h[k] = 0
    OBVIOUS
  <2>2. h[k] \in Nat /\ h[k] <= 0
    BY <1>4, <2>1
  <2>3. QED
    BY <2>2
<1>9. ms \subseteq Mints
  BY <1>2
<1>10. QED
  BY <1>2, <1>4, <1>5, <1>6, <1>7, <1>8, <1>9, CreditSettles

\* An update, and a claim of one mint.
LEMMA SettlesClaim ==
  ASSUME NEW fr, NEW fm, NEW now, InFarm(fr, fm, now), NEW mid, InFarm(mid, fm, now),
         VestingOver(mid, fm.snapshots) = {}, NEW m \in DOMAIN mid.harvests,
         NEW vault \in [Mints -> Nat], NEW vault2 \in [Mints -> Nat],
         Settles(fr, mid, fm, now, vault, vault),
         vault2[m] = vault[m] - mid.harvests[m],
         \A k \in Mints \ {m} : vault2[k] = vault[k]
  PROVE  LET new == ClaimHarvest(mid, m)
         IN  /\ Settles(fr, new, fm, now, vault, vault2)
             /\ IsFarmer(new, Mints) /\ InFarm(new, fm, now)
             /\ VestingOver(new, fm.snapshots) = {} /\ mid.harvests[m] \in Nat
<1> DEFINE new == ClaimHarvest(mid, m)
<1>1. PICK ms \in SUBSET Mints : mid \in FarmerOf(ms)
  BY DEF InFarm, IsFarmer
<1>2. m \in ms /\ m \in Mints /\ IsFarmer(mid, Mints)
  BY <1>1 DEF FarmerOf, IsFarmer
<1>3. new \in FarmerOf(ms) /\ Keeps(mid, new) /\ mid.harvests[m] \in Nat
  BY <1>1, <1>2, ClaimHarvestEffect
<1>4. \A k : Credit(new, k) = IF k = m THEN 0 ELSE Credit(mid, k)
  BY <1>1, <1>2 DEF ClaimHarvest, Credit, FarmerOf
<1>5. Credit(mid, m) = mid.harvests[m] /\ \A k : Credit(mid, k) \in Nat
  BY <1>1, <1>2, AccountType DEF Credit
<1> HIDE DEF new
<1>6. IsFarmer(new, Mints)
  BY <1>3 DEF IsFarmer
<1>7. \A k \in Mints : Credit(new, k) + vault[k] <= Credit(mid, k) + vault2[k]
  <2>1. TAKE k \in Mints
  <2>2. vault[k] \in Nat /\ Credit(mid, k) \in Nat
    BY <1>5
  <2>3. CASE k = m
    BY <1>4, <1>5, <2>2, <2>3
  <2>4. CASE k # m
    <3>1. Credit(new, k) = Credit(mid, k) /\ vault2[k] = vault[k]
      BY <1>4, <2>4
    <3>2. QED
      BY <2>2, <3>1
  <2>5. QED
    BY <2>3, <2>4
<1>8. \A k \in Mints \ DOMAIN fm.harvests : Credit(mid, k) = 0 => Credit(new, k) = 0
  BY <1>4
<1>9. Settles(mid, new, fm, now, vault, vault2)
  BY <1>3, <1>6, <1>7, <1>8, SettlesCredit
<1>10. new # None /\ new.nextFrom = mid.nextFrom
  BY <1>3, <1>6, RecordsExist DEF Keeps
<1>11. Settles(fr, new, fm, now, vault, vault2)
  BY <1>2, <1>9, <1>10, SettlesTrans
<1>12. VestingOver(new, fm.snapshots) = {}
  BY <1>3, UnpaidOfSame
<1>13. InFarm(new, fm, now)
  <2>1. new.nextFrom <= now + 1
    BY <1>10 DEF InFarm, Near
  <2>2. QED
    BY <1>6, <1>12, <2>1, InFarmWhenStaked
<1>14. QED
  BY <1>3, <1>6, <1>11, <1>12, <1>13 DEF new

\* compound_same_farm: an update, a claim, and a deposit.
LEMMA CompoundSameSettles ==
  ASSUME Orderly, Step, NEW f \in Farms, NEW u \in Users, CompoundSameFarm(f, u)
  PROVE  \A g \in Farms : Settled(g)
<1> DEFINE fr == farmer[f][u]
           fm == farm[f]
           now == slot
           v == harvestVault[f]
           w == harvestVault'[f]
           m == StakeMint[f]
           mid == Updated(f, u, slot).farmer
           got == mid.harvests[m]
           claimed == ClaimHarvest(mid, m)
           x == AddToVested(claimed, now, got)
<1>1. /\ FarmerExists(f, u) /\ m \in DOMAIN mid.harvests
      /\ farmer' = [farmer EXCEPT ![f][u] = x]
      /\ harvestVault' = [harvestVault EXCEPT ![f][m] = @ - got]
  BY DEF CompoundSameFarm
<1>2. FarmExists(f) /\ InFarm(fr, fm, now) /\ now \in Nat /\ v \in [Mints -> Nat]
  BY <1>1, OrderlyFarmer
<1>3. /\ Settles(fr, mid, fm, now, v, v) /\ InFarm(mid, fm, now)
      /\ VestingOver(mid, fm.snapshots) = {}
  <2>1. Orderly /\ FarmerExists(f, u) /\ slot \in Nat /\ slot <= slot
    BY <1>1, <1>2
  <2>2. QED
    BY ONLY <2>1, f \in Farms, u \in Users, UpdatedSettles
<1>4. /\ w \in [Mints -> Nat] /\ w[m] = v[m] - got /\ \A k \in Mints \ {m} : w[k] = v[k]
      /\ \A g \in Farms \ {f} : harvestVault'[g] = harvestVault[g]
  <2>1. w \in [Mints -> Nat]
    BY DEF Step, Typed, BalancesTyped
  <2>2. harvestVault \in [Farms -> [Mints -> Nat]] /\ m \in Mints
    BY DEF Orderly, Typed, BalancesTyped
  <2> HIDE DEF got, m
  <2>3. QED
    BY <1>1, <2>1, <2>2
<1> HIDE DEF fr, fm, now, v, w, m, mid
<1>5. /\ Settles(fr, claimed, fm, now, v, w) /\ IsFarmer(claimed, Mints)
      /\ InFarm(claimed, fm, now) /\ VestingOver(claimed, fm.snapshots) = {}
      /\ got \in Nat
  BY <1>1, <1>2, <1>3, <1>4, SettlesClaim, Zenon
<1> HIDE DEF claimed, got
<1>6. /\ IsFarmer(x, Mints) /\ Settles(claimed, x, fm, now, w, w)
      /\ x.nextFrom = claimed.nextFrom
  BY <1>2, <1>4, <1>5, SettlesDeposit
<1>7. x # None
  BY <1>6, RecordsExist
<1> HIDE DEF x
<1>8. Settles(fr, x, fm, now, v, w)
  BY <1>2, <1>4, <1>5, <1>6, <1>7, SettlesTrans
<1>9. QED
  BY <1>1, <1>2, <1>4, <1>8, OneSettles, Zenon DEF fr, fm, now, v, w

\* compound_across_farms: a claim in one farm, a deposit in another.
LEMMA CompoundAcrossSettles ==
  ASSUME Orderly, Step, NEW f \in Farms, NEW g \in Farms, NEW u \in Users,
         CompoundAcrossFarms(f, g, u)
  PROVE  \A h \in Farms : Settled(h)
<1> DEFINE fr == farmer[f][u]
           fm == farm[f]
           now == slot
           v == harvestVault[f]
           w == harvestVault'[f]
           m == StakeMint[g]
           mid == Updated(f, u, slot).farmer
           got == mid.harvests[m]
           claimed == ClaimHarvest(mid, m)
           gr == farmer[g][u]
           gm == farm[g]
           gv == harvestVault[g]
           x == AddToVested(gr, now, got)
<1>1. /\ f # g /\ FarmerExists(f, u) /\ FarmerExists(g, u) /\ m \in DOMAIN mid.harvests
      /\ farmer' = [farmer EXCEPT ![f][u] = claimed, ![g][u] = AddToVested(@, slot, got)]
      /\ harvestVault' = [harvestVault EXCEPT ![f][m] = @ - got]
  BY DEF CompoundAcrossFarms
<1>2. FarmExists(f) /\ InFarm(fr, fm, now) /\ now \in Nat /\ v \in [Mints -> Nat]
  BY <1>1, OrderlyFarmer
<1>3. FarmExists(g) /\ InFarm(gr, gm, now) /\ gv \in [Mints -> Nat]
  BY <1>1, OrderlyFarmer
<1>4. /\ Settles(fr, mid, fm, now, v, v) /\ InFarm(mid, fm, now)
      /\ VestingOver(mid, fm.snapshots) = {}
  <2>1. Orderly /\ FarmerExists(f, u) /\ slot \in Nat /\ slot <= slot
    BY <1>1, <1>2
  <2>2. QED
    BY ONLY <2>1, f \in Farms, u \in Users, UpdatedSettles
<1>5. /\ w \in [Mints -> Nat] /\ w[m] = v[m] - got /\ \A k \in Mints \ {m} : w[k] = v[k]
      /\ \A h \in Farms \ {f} : harvestVault'[h] = harvestVault[h]
  <2>1. w \in [Mints -> Nat]
    BY DEF Step, Typed, BalancesTyped
  <2>2. harvestVault \in [Farms -> [Mints -> Nat]] /\ m \in Mints
    BY DEF Orderly, Typed, BalancesTyped
  <2> HIDE DEF got, m
  <2>3. QED
    BY <1>1, <2>1, <2>2
<1>6. /\ farmer'[f][u] = claimed /\ farmer'[g][u] = x
      /\ \A y \in Users \ {u} : farmer'[f][y] = farmer[f][y] /\ farmer'[g][y] = farmer[g][y]
      /\ \A h \in Farms \ {f, g} : farmer'[h] = farmer[h]
  <2>1. DOMAIN farmer = Farms /\ \A h \in Farms : DOMAIN farmer[h] = Users
    BY DEF Orderly, Typed, FarmersTyped
  <2> HIDE DEF claimed, got
  <2> DEFINE rows == [farmer EXCEPT ![f][u] = claimed]
  <2>2. /\ DOMAIN rows = Farms /\ \A h \in Farms : DOMAIN rows[h] = Users
        /\ rows[f][u] = claimed /\ \A y \in Users \ {u} : rows[f][y] = farmer[f][y]
        /\ \A h \in Farms \ {f} : rows[h] = farmer[h]
    BY <2>1
  <2>3. farmer' = [rows EXCEPT ![g][u] = x]
    BY <1>1, <2>1
  <2> HIDE DEF rows, x
  <2>4. /\ farmer'[g][u] = x /\ \A y \in Users \ {u} : farmer'[g][y] = rows[g][y]
        /\ \A h \in Farms \ {g} : farmer'[h] = rows[h]
    BY <2>2, <2>3
  <2>5. QED
    BY <1>1, <2>2, <2>4, Zenon
<1> HIDE DEF fr, fm, now, v, w, m, mid, gr, gm, gv
<1>7. Settles(fr, claimed, fm, now, v, w) /\ got \in Nat
  BY <1>1, <1>2, <1>4, <1>5, SettlesClaim
<1> HIDE DEF claimed, got
<1>8. Settles(gr, x, gm, now, gv, gv)
  BY <1>2, <1>3, <1>7, SettlesDeposit
<1> HIDE DEF x
<1>9. Settled(f)
  BY <1>2, <1>6, <1>7 DEF Settled, fr, fm, now, v, w
<1>10. Settled(g)
  <2>1. harvestVault'[g] = gv
    BY <1>1, <1>5 DEF gv
  <2>2. QED
    BY <1>3, <1>6, <1>8, <2>1 DEF Settled, gr, gm, now, gv
<1>11. \A h \in Farms \ {f, g} : Settled(h)
  BY <1>5, <1>6 DEF Settled
<1>12. QED
  BY <1>9, <1>10, <1>11

-----------------------------------------------------------------------------
(* The vault of a mint when time passes, a snapshot is taken or a period   *)
(* is set: what becomes due is no more than what was ahead.                *)

AreFarmers(accounts) == \A u \in Users : accounts[u] = None \/ IsFarmer(accounts[u], Mints)

\* What the users' stakes earn in the open window.
EarningOf(accounts, b) ==
  [u \in Users |-> IF accounts[u] = None THEN 0 ELSE Earning(accounts[u], b)]

\* SharesAreParts of one farm.
AreParts(accounts, b) ==
  Latest(b).startedAt > 0 => SumFunctionOnSet(EarningOf(accounts, b), Users) <= Latest(b).staked

\* The stakes that earn are numbers.
LEMMA EarningOfType ==
  ASSUME NEW accounts, AreFarmers(accounts), NEW b
  PROVE  \A u \in Users : EarningOf(accounts, b)[u] \in Nat
<1>1. SUFFICES ASSUME NEW u \in Users, accounts[u] # None PROVE Earning(accounts[u], b) \in Nat
  BY DEF EarningOf
<1>2. PICK ms \in SUBSET Mints : accounts[u] \in FarmerOf(ms)
  BY <1>1 DEF AreFarmers, IsFarmer
<1>3. QED
  BY <1>2, AccountType DEF Earning

\* How much more is due with one slot more.
LEMMA DuesNextSlot ==
  ASSUME NEW accounts, AreFarmers(accounts), NEW b \in Buffer, NEW ps \in Periods, NEW m,
         NEW upto \in Nat, NEW next \in Nat, next = upto + 1, RingInOrder(b, next),
         NEW u \in Users, accounts[u] # None, Near(accounts[u], b, upto)
  PROVE  Dues(accounts, b, ps, m, next)[u]
           = Dues(accounts, b, ps, m, upto)[u]
               + PartsOf(b, TpsAt(ps, next), EarningOf(accounts, b), Users)[u]
<1> DEFINE fr == accounts[u]
           U == Unpaid(fr, b, ps, upto)
           V == Unpaid(fr, b, ps, next)
           P == TpsAt(ps, next) * PartOf(b, Earning(fr, b))
           C == Wad * Credit(fr, m)
<1>1. PICK ms \in SUBSET Mints : fr \in FarmerOf(ms)
  BY DEF AreFarmers, IsFarmer
<1>2. U \in Nat /\ V \in Nat
  BY <1>1, UnpaidType
<1>3. V = U + P
  <2> HIDE DEF fr
  <2>1. Near(fr, b, upto)
    BY DEF fr
  <2>2. QED
    BY <1>1, <2>1, OneSlotMore
<1>4. C \in Nat
  <2> DEFINE c == Credit(fr, m)
  <2>1. c \in Nat
    BY <1>1, AccountType
  <2> HIDE DEF c
  <2>2. Wad * c \in Nat
    BY <2>1, Products
  <2>3. QED
    BY <2>2 DEF c
<1>5. P \in Nat
  <2> DEFINE rate == TpsAt(ps, next)
             e == Earning(fr, b)
             part == PartOf(b, e)
  <2>1. rate \in Nat
    BY RateType
  <2>2. e \in Nat
    BY <1>1, AccountType DEF Earning
  <2>3. part \in Nat
    <3> HIDE DEF e
    <3>1. QED
      BY <2>2, EarnedNow
  <2> HIDE DEF rate, part
  <2>4. rate * part \in Nat
    BY <2>1, <2>3, Products
  <2>5. QED
    BY <2>4 DEF rate, part
<1>6. /\ Dues(accounts, b, ps, m, next)[u] = C + V
      /\ Dues(accounts, b, ps, m, upto)[u] = C + U
      /\ PartsOf(b, TpsAt(ps, next), EarningOf(accounts, b), Users)[u] = P
  BY DEF Dues, Due, PartsOf, EarningOf
<1> HIDE DEF U, V, P, C
<1>7. QED
  BY <1>2, <1>3, <1>4, <1>5, <1>6

\* A vault v that covers the dues D and what is ahead, a, covers as v2 the dues N
\* and what is then ahead, a2, when the dues grow by no more than r tokens that
\* are no longer ahead or that were added.
LEMMA CoverMoves ==
  ASSUME NEW D, NEW N, NEW P,
         \A u \in Users : D[u] \in Nat /\ N[u] \in Nat /\ P[u] \in Nat /\ N[u] <= D[u] + P[u],
         NEW r \in Nat, NEW a \in Nat, NEW a2 \in Nat, NEW v \in Nat, NEW v2 \in Nat,
         SumFunctionOnSet(P, Users) <= Wad * r, r + a2 + v <= a + v2,
         SumFunctionOnSet(D, Users) + Wad * a <= Wad * v
  PROVE  SumFunctionOnSet(N, Users) + Wad * a2 <= Wad * v2
<1> DEFINE sum == [u \in Users |-> D[u] + P[u]]
<1>1. SumFunctionOnSet(N, Users) <= SumFunctionOnSet(D, Users) + SumFunctionOnSet(P, Users)
  <2>1. \A u \in Users : sum[u] \in Nat /\ sum[u] = D[u] + P[u] /\ N[u] <= sum[u] /\ N[u] \in Nat
    OBVIOUS
  <2> HIDE DEF sum
  <2>2. SumFunctionOnSet(N, Users) <= SumFunctionOnSet(sum, Users)
    BY <2>1, SumMonotone
  <2>3. SumFunctionOnSet(sum, Users) = SumFunctionOnSet(D, Users) + SumFunctionOnSet(P, Users)
    BY <2>1, SumOfTwo
  <2>4. QED
    BY <2>2, <2>3
<1>2. SumFunctionOnSet(D, Users) \in Nat /\ SumFunctionOnSet(N, Users) \in Nat
  BY SumUnfolds
<1>3. SumFunctionOnSet(P, Users) \in Nat
  BY SumUnfolds
<1>4. Wad * (r + a2 + v) <= Wad * (a + v2)
  <2>1. r + a2 + v \in Nat /\ a + v2 \in Nat
    OBVIOUS
  <2>2. QED
    BY <2>1, Products
<1>5. /\ Wad * (r + a2 + v) = Wad * r + Wad * a2 + Wad * v
      /\ Wad * (a + v2) = Wad * a + Wad * v2
  OBVIOUS
<1>6. Wad * r \in Nat /\ Wad * a \in Nat /\ Wad * a2 \in Nat /\ Wad * v \in Nat /\ Wad * v2 \in Nat
  BY Products
<1> DEFINE dues == SumFunctionOnSet(D, Users)
           next == SumFunctionOnSet(N, Users)
           part == SumFunctionOnSet(P, Users)
           R == Wad * r
           A == Wad * a
           A2 == Wad * a2
           V == Wad * v
           V2 == Wad * v2
<1>7. /\ dues \in Nat /\ next \in Nat /\ part \in Nat /\ next <= dues + part
      /\ R \in Nat /\ A \in Nat /\ A2 \in Nat /\ V \in Nat /\ V2 \in Nat
      /\ R + A2 + V <= A + V2 /\ part <= R /\ dues + A <= V
  BY <1>1, <1>2, <1>3, <1>4, <1>5, <1>6
<1> HIDE DEF dues, next, part, R, A, A2, V, V2
<1>8. next + A2 <= V2
  BY <1>7
<1>9. QED
  BY <1>8 DEF next, A2, V2

\* Seen from the next slot, the vault covers as much: the slot's rate, which was
\* ahead, covers the parts of it that are earned.
LEMMA BacksNextSlot ==
  ASSUME NEW accounts, AreFarmers(accounts), NEW b \in Buffer, NEW ps \in Periods, NEW m,
         NEW upto \in Nat, NEW next \in Nat, next = upto + 1, RingInOrder(b, next),
         \A u \in Users : accounts[u] # None => Near(accounts[u], b, upto),
         AreParts(accounts, b), NEW vault \in Nat, Backs(vault, accounts, b, ps, m, upto)
  PROVE  Backs(vault, accounts, b, ps, m, next)
<1> DEFINE D == Dues(accounts, b, ps, m, upto)
           N == Dues(accounts, b, ps, m, next)
           rate == TpsAt(ps, next)
           e == EarningOf(accounts, b)
           P == PartsOf(b, rate, e, Users)
           later == next + 1
           a == Ahead(ps, next)
           a2 == Ahead(ps, later)
<1>1. (\A u \in Users : D[u] \in Nat) /\ (\A u \in Users : N[u] \in Nat)
  BY DuesType DEF AreFarmers
<1>2. rate \in Nat
  BY RateType
<1>3. (\A u \in Users : P[u] \in Nat) /\ SumFunctionOnSet(P, Users) <= Wad * rate
  <2>1. \A u \in Users : e[u] \in Nat
    BY EarningOfType
  <2>2. Latest(b).startedAt > 0 => SumFunctionOnSet(e, Users) <= Latest(b).staked
    BY DEF AreParts
  <2> HIDE DEF e, rate
  <2>3. QED
    BY <1>2, <2>1, <2>2, SharesOfOneSlot, Zenon
<1>4. \A u \in Users : N[u] <= D[u] + P[u]
  <2>1. SUFFICES ASSUME NEW u \in Users PROVE N[u] <= D[u] + P[u]
    OBVIOUS
  <2>2. CASE accounts[u] = None
    <3>1. N[u] = 0
      BY <2>2 DEF Dues, Due
    <3> HIDE DEF N, D, P
    <3>2. QED
      BY <1>1, <1>3, <3>1
  <2>3. CASE accounts[u] # None
    <3>1. N[u] = D[u] + P[u]
      BY <2>3, DuesNextSlot
    <3> HIDE DEF N, D, P
    <3>2. QED
      BY <1>1, <1>3, <3>1
  <2>4. QED
    BY <2>2, <2>3
<1>5. /\ a \in Nat /\ a2 \in Nat /\ rate + a2 <= a
  <2>1. later = next + 1 /\ later \in Nat
    OBVIOUS
  <2> HIDE DEF later
  <2>2. a \in Nat /\ rate + a2 <= a
    BY <2>1, AheadType, SlotIsAhead
  <2>3. a2 \in Nat
    BY <2>1, AheadType
  <2>4. QED
    BY <2>2, <2>3
<1>6. SumFunctionOnSet(D, Users) + Wad * a <= Wad * vault
  BY DEF Backs
<1> HIDE DEF D, N, P, rate, a, a2
<1>7. rate + a2 + vault <= a + vault
  BY <1>2, <1>5
<1>8. SumFunctionOnSet(N, Users) + Wad * a2 <= Wad * vault
  BY <1>1, <1>2, <1>3, <1>4, <1>5, <1>6, <1>7, CoverMoves, Zenon
<1>9. QED
  BY <1>8 DEF Backs, N, a2

\* The vault covers dues that are no higher.
LEMMA BacksLess ==
  ASSUME NEW accounts, AreFarmers(accounts), NEW b \in Buffer, NEW c \in Buffer,
         NEW ps \in Periods, NEW qs \in Periods, NEW m, NEW upto \in Nat,
         \A u \in Users :
           accounts[u] # None => Unpaid(accounts[u], c, qs, upto) <= Unpaid(accounts[u], b, ps, upto),
         NEW vault \in Nat, NEW vault2 \in Nat, NEW from, from = upto + 1,
         Ahead(qs, from) + vault <= Ahead(ps, from) + vault2,
         Backs(vault, accounts, b, ps, m, upto)
  PROVE  Backs(vault2, accounts, c, qs, m, upto)
<1> DEFINE D == Dues(accounts, b, ps, m, upto)
           N == Dues(accounts, c, qs, m, upto)
           P == [u \in Users |-> 0]
           a == Ahead(ps, from)
           a2 == Ahead(qs, from)
           r == 0
<1>1. \A u \in Users : D[u] \in Nat
  BY DuesType DEF AreFarmers
<1>2. \A u \in Users : N[u] \in Nat
  BY DuesType DEF AreFarmers
<1>3. \A u \in Users : N[u] <= D[u] + P[u]
  <2>1. SUFFICES ASSUME NEW u \in Users PROVE N[u] <= D[u]
    BY <1>1
  <2>2. CASE accounts[u] = None
    BY <2>2 DEF Dues, Due
  <2>3. CASE accounts[u] # None
    <3> DEFINE U == Unpaid(accounts[u], b, ps, upto)
               V == Unpaid(accounts[u], c, qs, upto)
               C == Wad * Credit(accounts[u], m)
    <3>1. PICK ms \in SUBSET Mints : accounts[u] \in FarmerOf(ms)
      BY <2>3 DEF AreFarmers, IsFarmer
    <3>2. U \in Nat /\ V \in Nat /\ V <= U
      BY <2>3, <3>1, UnpaidType
    <3>3. D[u] = C + U /\ N[u] = C + V
      BY <2>3 DEF Dues, Due
    <3>4. C \in Nat
      <4> DEFINE k == Credit(accounts[u], m)
      <4>1. k \in Nat
        BY <3>1, AccountType
      <4> HIDE DEF k
      <4>2. Wad * k \in Nat
        BY <4>1, Products
      <4>3. QED
        BY <4>2 DEF k
    <3> HIDE DEF U, V, C, D, N
    <3>5. QED
      BY <3>2, <3>3, <3>4
  <2>4. QED
    BY <2>2, <2>3
<1>4. (\A u \in Users : P[u] \in Nat) /\ SumFunctionOnSet(P, Users) = 0
  <2>1. \A u \in Users : P[u] = 0
    OBVIOUS
  <2> HIDE DEF P
  <2>2. QED
    BY <2>1, SumOfZeros
<1>5. from \in Nat
  OBVIOUS
<1>6. a \in Nat /\ a2 \in Nat
  BY <1>5, AheadType
<1>7. r \in Nat /\ SumFunctionOnSet(P, Users) <= Wad * r
  <2>1. Wad * 0 = 0
    OBVIOUS
  <2>2. QED
    BY <1>4, <2>1
<1>8. SumFunctionOnSet(D, Users) + Wad * a <= Wad * vault
  BY DEF Backs
<1>9. r + a2 + vault <= a + vault2
  BY <1>6
<1> HIDE DEF D, N, P, a, a2, r
<1>10. SumFunctionOnSet(N, Users) + Wad * a2 <= Wad * vault2
  BY <1>1, <1>2, <1>3, <1>4, <1>6, <1>7, <1>8, <1>9, CoverMoves, Zenon
<1>11. QED
  BY <1>10 DEF Backs, N, a2

\* A snapshot leaves no more due of the slots before it.
LEMMA BacksAfterPush ==
  ASSUME NEW accounts, AreFarmers(accounts), NEW b \in Buffer, NEW ps \in Periods, NEW m,
         NEW upto \in Nat, NEW amount \in Nat, NEW clock \in Nat, upto < clock,
         \A u \in Users : accounts[u] # None => Near(accounts[u], b, upto),
         NEW vault \in Nat, Backs(vault, accounts, b, ps, m, upto)
  PROVE  Backs(vault, accounts, Push(b, amount, clock), ps, m, upto)
<1> DEFINE c == Push(b, amount, clock)
           from == upto + 1
<1>1. c \in Buffer
  BY PushType
<1>2. \A u \in Users :
        accounts[u] # None => Unpaid(accounts[u], c, ps, upto) <= Unpaid(accounts[u], b, ps, upto)
  <2>1. TAKE u \in Users
  <2>2. HAVE accounts[u] # None
  <2>3. PICK ms \in SUBSET Mints : accounts[u] \in FarmerOf(ms)
    BY <2>2 DEF AreFarmers, IsFarmer
  <2> DEFINE fr == accounts[u]
  <2>4. fr \in FarmerOf(ms) /\ Near(fr, b, upto)
    BY <2>2, <2>3
  <2> HIDE DEF fr
  <2>5. Unpaid(fr, c, ps, upto) <= Unpaid(fr, b, ps, upto)
    BY <2>4, UnpaidAfterPush
  <2>6. QED
    BY <2>5 DEF fr
<1>3. from = upto + 1 /\ from \in Nat
  OBVIOUS
<1> HIDE DEF c, from
<1>4. Ahead(ps, from) + vault <= Ahead(ps, from) + vault
  BY <1>3, AheadType
<1>5. QED
  BY <1>1, <1>2, <1>3, <1>4, BacksLess DEF c

\* Seen from before it starts, a period that is paid for is covered.
LEMMA BacksAfterSetPeriod ==
  ASSUME NEW accounts, AreFarmers(accounts), NEW b \in Buffer, NEW ps \in Periods, NEW m,
         NEW now \in Nat, OrderAt(ps, now), NEW p \in Period, p.startsAt <= p.endsAt,
         NEW upto \in Nat, upto < p.startsAt, upto <= now,
         NEW vault \in Nat, NEW vault2 \in Nat, vault2 = vault + TotalEmitted(p) - Refund(ps, now),
         Backs(vault, accounts, b, ps, m, upto)
  PROVE  Backs(vault2, accounts, b, SetPeriod(ps, now, p), m, upto)
<1> DEFINE qs == SetPeriod(ps, now, p)
           from == upto + 1
<1>1. qs \in Periods
  BY SetPeriodType
<1>2. \A u \in Users :
        accounts[u] # None => Unpaid(accounts[u], b, qs, upto) <= Unpaid(accounts[u], b, ps, upto)
  <2>1. TAKE u \in Users
  <2>2. HAVE accounts[u] # None
  <2>3. PICK ms \in SUBSET Mints : accounts[u] \in FarmerOf(ms)
    BY <2>2 DEF AreFarmers, IsFarmer
  <2>4. \A s \in Int : s <= upto => TpsAt(qs, s) <= TpsAt(ps, s)
    <3>1. TAKE s \in Int
    <3>2. HAVE s <= upto
    <3>3. s < p.startsAt
      BY <3>2 DEF Period
    <3>4. QED
      BY <3>3, RatesBeforePeriod
  <2> DEFINE fr == accounts[u]
  <2>5. fr \in FarmerOf(ms)
    BY <2>3
  <2> HIDE DEF fr, qs
  <2>6. Unpaid(fr, b, qs, upto) <= Unpaid(fr, b, ps, upto)
    BY <1>1, <2>4, <2>5, UnpaidAtLowerRates
  <2>7. QED
    BY <2>6 DEF fr
<1>3. from = upto + 1 /\ from \in Nat /\ from <= now + 1 /\ from <= p.startsAt
  BY DEF Period
<1> HIDE DEF qs, from
<1>4. Ahead(qs, from) + vault <= Ahead(ps, from) + vault2
  <2>1. /\ Refund(ps, now) \in Nat
        /\ Ahead(qs, from) + Refund(ps, now) <= Ahead(ps, from) + Remains(p, from)
    BY <1>3, AheadAfterSetPeriod DEF qs
  <2>2. Remains(p, from) = TotalEmitted(p) /\ TotalEmitted(p) \in Nat
    BY <1>3, RemainsAll
  <2>3. Ahead(qs, from) \in Nat
    BY <1>1, <1>3, AheadType
  <2>4. Ahead(ps, from) \in Nat
    BY <1>3, AheadType
  <2>5. QED
    BY <2>1, <2>2, <2>3, <2>4
<1>5. QED
  BY <1>1, <1>2, <1>3, <1>4, BacksLess DEF qs

\* What a farmer is due of a slot in which a period starts.
LEMMA DuesWhenStarting ==
  ASSUME NEW accounts, AreFarmers(accounts), NEW b \in Buffer, NEW ps \in Periods, NEW m,
         NEW qs \in Periods, NEW prev \in Nat, NEW now \in Nat, now = prev + 1,
         RingInOrder(b, now), \A s \in Int : s <= prev => TpsAt(qs, s) <= TpsAt(ps, s),
         NEW u \in Users, accounts[u] # None => Near(accounts[u], b, now),
         PartsOf(b, TpsAt(qs, now), EarningOf(accounts, b), Users)[u] \in Nat
  PROVE  Dues(accounts, b, qs, m, now)[u]
           <= Dues(accounts, b, ps, m, now)[u]
                + PartsOf(b, TpsAt(qs, now), EarningOf(accounts, b), Users)[u]
<1> DEFINE D == Dues(accounts, b, ps, m, now)[u]
           N == Dues(accounts, b, qs, m, now)[u]
           E == Dues(accounts, b, ps, m, prev)[u]
           F == Dues(accounts, b, qs, m, prev)[u]
           P == PartsOf(b, TpsAt(qs, now), EarningOf(accounts, b), Users)[u]
           O == PartsOf(b, TpsAt(ps, now), EarningOf(accounts, b), Users)[u]
           fr == accounts[u]
<1>1. D \in Nat /\ E \in Nat
  <2>1. D \in Nat
    BY DuesType DEF AreFarmers
  <2>2. E \in Nat
    BY DuesType DEF AreFarmers
  <2>3. QED
    BY <2>1, <2>2
<1>2. N \in Nat /\ F \in Nat
  <2>1. N \in Nat
    BY DuesType DEF AreFarmers
  <2>2. F \in Nat
    BY DuesType DEF AreFarmers
  <2>3. QED
    BY <2>1, <2>2
<1>3. CASE fr = None
  <2>1. N = 0
    BY <1>3 DEF Dues, Due
  <2> HIDE DEF N, D, P
  <2>2. P \in Nat
    BY DEF P
  <2>3. QED
    BY <1>1, <2>1, <2>2 DEF N, D, P
<1>4. CASE fr # None /\ fr.nextFrom > now
  <2>1. PICK ms \in SUBSET Mints : fr \in FarmerOf(ms)
    BY <1>4 DEF AreFarmers, IsFarmer
  <2>2. Near(fr, b, now) /\ fr.nextFrom = now + 1
    BY <1>4, <2>1, AccountType DEF Near
  <2> HIDE DEF fr
  <2>3. Unpaid(fr, b, qs, now) = 0
    BY <2>1, <2>2, NothingUnpaid
  <2>4. Unpaid(fr, b, ps, now) = 0
    BY <2>1, <2>2, NothingUnpaid
  <2>5. N = D
    BY <1>4, <2>3, <2>4 DEF Dues, Due, fr
  <2> HIDE DEF N, D, P
  <2>6. P \in Nat
    BY DEF P
  <2>7. QED
    BY <1>1, <2>5, <2>6 DEF N, D, P
<1>5. CASE fr # None /\ ~(fr.nextFrom > now)
  <2>1. PICK ms \in SUBSET Mints : fr \in FarmerOf(ms)
    BY <1>5 DEF AreFarmers, IsFarmer
  <2>2. Near(fr, b, prev)
    <3>1. fr.nextFrom \in Nat
      BY <2>1, AccountType
    <3>2. fr.nextFrom <= prev + 1
      BY <1>5, <3>1
    <3>3. Near(fr, b, now)
      BY <1>5
    <3>4. QED
      BY <3>2, <3>3 DEF Near
  <2>3. D = E + O
    BY <1>5, <2>2, DuesNextSlot
  <2>4. N = F + P
    BY <1>5, <2>2, DuesNextSlot
  <2>5. F <= E
    <3> DEFINE U == Unpaid(fr, b, ps, prev)
               V == Unpaid(fr, b, qs, prev)
               C == Wad * Credit(fr, m)
    <3>1. U \in Nat
      BY <2>1, UnpaidType
    <3>2. V \in Nat
      BY <2>1, UnpaidType
    <3>3. V <= U
      <4> HIDE DEF fr
      <4>1. QED
        BY <2>1, UnpaidAtLowerRates
    <3>4. E = C + U /\ F = C + V
      BY <1>5 DEF Dues, Due
    <3>5. C \in Nat
      <4> DEFINE k == Credit(fr, m)
      <4>1. k \in Nat
        BY <2>1, AccountType
      <4> HIDE DEF k
      <4>2. Wad * k \in Nat
        BY <4>1, Products
      <4>3. QED
        BY <4>2 DEF k
    <3> HIDE DEF U, V, C, E, F
    <3>6. QED
      BY <3>1, <3>2, <3>3, <3>4, <3>5
  <2>6. O \in Nat
    <3> DEFINE rate == TpsAt(ps, now)
               e == EarningOf(accounts, b)
               stake == e[u]
               part == PartOf(b, stake)
    <3>1. rate \in Nat
      BY RateType
    <3>2. stake \in Nat
      BY EarningOfType
    <3>3. part \in Nat
      <4> HIDE DEF stake
      <4>1. QED
        BY <3>2, EarnedNow
    <3>4. O = rate * part
      BY DEF PartsOf
    <3> HIDE DEF rate, part
    <3>5. rate * part \in Nat
      BY <3>1, <3>3, Products
    <3>6. QED
      BY <3>4, <3>5
  <2>7. P \in Nat
    OBVIOUS
  <2> HIDE DEF D, E, F, N, O, P
  <2>8. N <= D + P
    BY <1>1, <1>2, <2>3, <2>4, <2>5, <2>6, <2>7
  <2>9. QED
    BY <2>8 DEF D, N, P
<1>6. QED
  BY <1>3, <1>4, <1>5

\* A period that starts in this slot pays those who were not updated in it yet.
LEMMA BacksAfterStart ==
  ASSUME NEW accounts, AreFarmers(accounts), NEW b \in Buffer, NEW ps \in Periods, NEW m,
         NEW now \in Nat \ {0}, OrderAt(ps, now), NEW p \in Period, p.startsAt <= p.endsAt,
         now = p.startsAt, OrderAt(SetPeriod(ps, now, p), now),
         RingInOrder(b, now), AreParts(accounts, b),
         \A u \in Users : accounts[u] # None => Near(accounts[u], b, now),
         NEW vault \in Nat, NEW vault2 \in Nat, vault2 = vault + TotalEmitted(p) - Refund(ps, now),
         Backs(vault, accounts, b, ps, m, now)
  PROVE  Backs(vault2, accounts, b, SetPeriod(ps, now, p), m, now)
<1> DEFINE qs == SetPeriod(ps, now, p)
           prev == now - 1
           from == now + 1
           rate == TpsAt(qs, now)
           e == EarningOf(accounts, b)
           D == Dues(accounts, b, ps, m, now)
           N == Dues(accounts, b, qs, m, now)
           P == PartsOf(b, rate, e, Users)
           a == Ahead(ps, from)
           a2 == Ahead(qs, from)
<1>1. qs \in Periods /\ prev \in Nat /\ now = prev + 1 /\ from = now + 1 /\ from \in Nat /\ now \in Nat
  BY SetPeriodType
<1>2. rate = p.tps /\ rate \in Nat
  <2>1. now > 0
    OBVIOUS
  <2>2. rate = p.tps
    BY <1>1, <2>1, RateFromNow
  <2>3. QED
    BY <2>2 DEF Period
<1>3. (\A u \in Users : P[u] \in Nat) /\ SumFunctionOnSet(P, Users) <= Wad * rate
  <2>1. \A u \in Users : e[u] \in Nat
    BY EarningOfType
  <2>2. Latest(b).startedAt > 0 => SumFunctionOnSet(e, Users) <= Latest(b).staked
    BY DEF AreParts
  <2> HIDE DEF e, rate
  <2>3. QED
    BY <1>2, <2>1, <2>2, SharesOfOneSlot
<1>4. \A u \in Users : D[u] \in Nat
  BY <1>1, DuesType DEF AreFarmers
<1>5. \A u \in Users : N[u] \in Nat
  <2> HIDE DEF qs
  <2>1. QED
    BY <1>1, DuesType DEF AreFarmers
<1>6. \A u \in Users : N[u] <= D[u] + P[u]
  <2>1. TAKE u \in Users
  <2>2. \A s \in Int : s <= prev => TpsAt(qs, s) <= TpsAt(ps, s)
    <3>1. TAKE s \in Int
    <3>2. HAVE s <= prev
    <3>3. s < p.startsAt
      BY <1>1, <3>2
    <3>4. QED
      BY <1>1, <3>3, RatesBeforePeriod
  <2>3. accounts[u] # None => Near(accounts[u], b, now)
    OBVIOUS
  <2>4. P[u] \in Nat
    BY <1>3
  <2> HIDE DEF qs, prev
  <2>5. QED
    BY <1>1, <2>2, <2>3, <2>4, DuesWhenStarting
<1>7. a \in Nat /\ a2 \in Nat
  <2>1. a \in Nat
    BY <1>1, AheadType, Zenon
  <2> HIDE DEF qs
  <2>2. a2 \in Nat
    BY <1>1, AheadType, Zenon
  <2>3. QED
    BY <2>1, <2>2
<1>8. rate + a2 + vault <= a + vault2
  <2>1. Refund(ps, now) \in Nat /\ a2 + Refund(ps, now) <= a + Remains(p, from)
    <3>1. from <= now + 1
      OBVIOUS
    <3> HIDE DEF from
    <3>2. QED
      BY <1>1, <3>1, AheadAfterSetPeriod
  <2>2. Remains(p, from) + p.tps = TotalEmitted(p) /\ TotalEmitted(p) \in Nat
    BY <1>1, RemainsAll
  <2>3. Remains(p, from) \in Nat
    <3> HIDE DEF from
    <3>1. QED
      BY <1>1, RemainsType
  <2> HIDE DEF a, a2, rate, from
  <2>4. QED
    BY <1>2, <1>7, <2>1, <2>2, <2>3
<1>9. SumFunctionOnSet(D, Users) + Wad * a <= Wad * vault
  BY DEF Backs
<1> HIDE DEF D, N, P, rate, a, a2
<1>10. SumFunctionOnSet(N, Users) + Wad * a2 <= Wad * vault2
  <2>1. /\ \A u \in Users : D[u] \in Nat /\ N[u] \in Nat /\ P[u] \in Nat /\ N[u] <= D[u] + P[u]
        /\ SumFunctionOnSet(P, Users) <= Wad * rate
        /\ rate \in Nat /\ a \in Nat /\ a2 \in Nat /\ vault \in Nat /\ vault2 \in Nat
    BY <1>2, <1>3, <1>4, <1>5, <1>6, <1>7
  <2>2. QED
    BY ONLY <1>8, <1>9, <2>1, CoverMoves, Zenon
<1>11. QED
  BY <1>10 DEF Backs, N, a2

\* Nothing is due of a mint that the farm never had.
LEMMA BacksWithoutPeriods ==
  ASSUME NEW accounts, AreFarmers(accounts), NEW b \in Buffer, NEW m, NEW upto \in Nat,
         \A u \in Users : accounts[u] # None => Credit(accounts[u], m) = 0,
         NEW vault \in Nat
  PROVE  Backs(vault, accounts, b, NoPeriods, m, upto)
<1> DEFINE ps == NoPeriods
           from == upto + 1
           D == Dues(accounts, b, ps, m, upto)
<1>1. from \in Nat
  OBVIOUS
<1>2. ps \in Periods /\ \A s : TpsAt(ps, s) = 0
  BY <1>1, NothingAhead
<1>3. Ahead(ps, from) = 0
  <2> HIDE DEF from
  <2>1. QED
    BY <1>1, NothingAhead
<1> HIDE DEF ps
<1>4. \A u \in Users : D[u] = 0
  <2>1. SUFFICES ASSUME NEW u \in Users, accounts[u] # None PROVE D[u] = 0
    BY DEF Dues, Due
  <2> DEFINE fr == accounts[u]
  <2>2. PICK ms \in SUBSET Mints : fr \in FarmerOf(ms)
    BY <2>1 DEF AreFarmers, IsFarmer
  <2>3. Unpaid(fr, b, ps, upto) = 0
    <3> DEFINE at == EarnsFrom(fr, b, upto)
               before == at - 1
               since == fr.nextFrom
               less == fr.staked
               more == fr.staked + fr.vested
    <3>1. at \in Int /\ before \in Int /\ since \in Int /\ less \in Nat /\ more \in Nat
      BY <2>2, AccountType, EarnsFromType
    <3>2. Unpaid(fr, b, ps, upto) = Earned(b, ps, since, before, less) + Earned(b, ps, at, upto, more)
      BY DEF Unpaid
    <3> HIDE DEF at, before, since, less, more
    <3>3. Earned(b, ps, since, before, less) = 0
      BY <1>2, <3>1, EarnedOfNothing
    <3>4. Earned(b, ps, at, upto, more) = 0
      BY <1>2, <3>1, EarnedOfNothing
    <3>5. QED
      BY <3>2, <3>3, <3>4
  <2>4. Credit(fr, m) = 0
    BY <2>1
  <2>5. Wad * 0 + 0 = 0
    OBVIOUS
  <2>6. D[u] = Wad * Credit(fr, m) + Unpaid(fr, b, ps, upto)
    BY <2>1 DEF Dues, Due
  <2>7. QED
    BY <2>3, <2>4, <2>5, <2>6
<1> HIDE DEF D
<1>5. SumFunctionOnSet(D, Users) = 0
  BY <1>4, SumOfZeros
<1>6. Wad * 0 = 0 /\ 0 <= Wad * vault
  BY Products
<1>7. QED
  BY <1>3, <1>5, <1>6 DEF Backs, D, ps

\* Whom an empty vault covers has no credit.
LEMMA EmptyVaultOwesNothing ==
  ASSUME NEW accounts, AreFarmers(accounts), NEW b \in Buffer, NEW ps \in Periods, NEW m,
         NEW upto \in Nat, Backs(0, accounts, b, ps, m, upto)
  PROVE  \A u \in Users : accounts[u] # None => Credit(accounts[u], m) = 0
<1> DEFINE D == Dues(accounts, b, ps, m, upto)
           from == upto + 1
<1>1. \A u \in Users : D[u] \in Nat
  BY DuesType DEF AreFarmers
<1>2. Wad * Ahead(ps, from) \in Nat
  <2> DEFINE a == Ahead(ps, from)
  <2>1. from \in Nat
    OBVIOUS
  <2>2. a \in Nat
    <3> HIDE DEF from
    <3>1. QED
      BY <2>1, AheadType
  <2> HIDE DEF a
  <2>3. Wad * a \in Nat
    BY <2>2, Products
  <2>4. QED
    BY <2>3 DEF a
<1>3. SumFunctionOnSet(D, Users) + Wad * Ahead(ps, from) <= Wad * 0
  BY DEF Backs
<1>4. Wad * 0 = 0
  OBVIOUS
<1>5. ASSUME NEW u \in Users, accounts[u] # None PROVE Credit(accounts[u], m) = 0
  <2> DEFINE C == Credit(accounts[u], m)
             U == Unpaid(accounts[u], b, ps, upto)
  <2>1. PICK ms \in SUBSET Mints : accounts[u] \in FarmerOf(ms)
    BY <1>5 DEF AreFarmers, IsFarmer
  <2>2. C \in Nat
    BY <2>1, AccountType
  <2>3. U \in Nat
    BY <2>1, UnpaidType
  <2>4. D[u] = Wad * C + U
    BY <1>5 DEF Dues, Due
  <2> HIDE DEF C, U, D
  <2>5. /\ SumFunctionOnSet(D, Users) = D[u] + SumFunctionOnSet(D, Users \ {u})
        /\ SumFunctionOnSet(D, Users \ {u}) \in Nat /\ SumFunctionOnSet(D, Users) \in Nat
    BY <1>1, SumUnfolds, Zenon
  <2>6. D[u] \in Nat
    BY <1>1
  <2>7. D[u] = 0
    BY <1>2, <1>3, <1>4, <2>5, <2>6
  <2>8. Wad * C <= Wad * 0
    <3>1. Wad * C \in Nat
      BY <2>2, Products
    <3>2. QED
      BY <1>4, <2>3, <2>4, <2>7, <3>1
  <2>9. C <= 0
    BY <2>2, <2>8, Cancels
  <2>10. QED
    BY <2>2, <2>9 DEF C
<1>6. QED
  BY <1>5

-----------------------------------------------------------------------------
(* The administrator's endpoints, snapshots and the clock keep the vaults  *)
(* in funds.                                                               *)

\* SharesAreParts of one farm, now and after a step.
LEMMA PartsOfFarm ==
  ASSUME SharesAreParts, NEW f \in Farms, FarmExists(f)
  PROVE  AreParts(farmer[f], farm[f].snapshots)
<1> DEFINE e == [u \in Users |-> EarningStake(f, u)]
<1>1. \A u \in Users : e[u] = EarningOf(farmer[f], farm[f].snapshots)[u]
  BY EndOfVestingByRing, Zenon DEF EarningStake, EarningOf, Earning, Deposited, FarmerExists, TotalDeposited
<1>2. e = EarningOf(farmer[f], farm[f].snapshots)
  BY <1>1 DEF EarningOf
<1>3. DOMAIN e = Users
  OBVIOUS
<1>4. Latest(farm[f].snapshots).startedAt > 0 => SumFunction(e) <= Latest(farm[f].snapshots).staked
  BY DEF SharesAreParts
<1> HIDE DEF e
<1>5. SumFunction(e) = SumFunctionOnSet(e, Users)
  BY <1>3 DEF SumFunction
<1>6. QED
  BY <1>2, <1>4, <1>5 DEF AreParts

\* The same of the next state.
LEMMA PartsOfFarmNext ==
  ASSUME SharesAreParts', NEW f \in Farms, FarmExists(f)'
  PROVE  AreParts(farmer'[f], farm'[f].snapshots)
<1> DEFINE e == [u \in Users |-> EarningStake(f, u)']
<1>1. \A u \in Users : e[u] = EarningOf(farmer'[f], farm'[f].snapshots)[u]
  BY EndOfVestingByRing, Zenon DEF EarningStake, EarningOf, Earning, Deposited, FarmerExists, TotalDeposited
<1>2. e = EarningOf(farmer'[f], farm'[f].snapshots)
  BY <1>1 DEF EarningOf
<1>3. DOMAIN e = Users
  OBVIOUS
<1>4. Latest(farm'[f].snapshots).startedAt > 0 => SumFunction(e) <= Latest(farm'[f].snapshots).staked
  BY DEF SharesAreParts
<1> HIDE DEF e
<1>5. SumFunction(e) = SumFunctionOnSet(e, Users)
  BY <1>3 DEF SumFunction
<1>6. QED
  BY <1>2, <1>4, <1>5 DEF AreParts

\* A transaction that writes one farm.
LEMMA FarmFunds ==
  ASSUME Orderly, Funded, UNCHANGED <<slot, farmer>>, NEW f \in Farms,
         \A g \in Farms \ {f} : farm'[g] = farm[g] /\ harvestVault'[g] = harvestVault[g],
         \A m \in Mints : Funds(farm'[f], farmer[f], harvestVault'[f][m], m, slot)
  PROVE  Funded' /\ InTime'
<1>1. ASSUME NEW g \in Farms, NEW m \in Mints
      PROVE  Funds(farm'[g], farmer'[g], harvestVault'[g][m], m, slot')
  <2>1. CASE g = f
    BY <2>1
  <2>2. CASE g # f
    <3>1. Funds(farm[g], farmer[g], harvestVault[g][m], m, slot)
      BY DEF Funded
    <3>2. QED
      BY <2>2, <3>1
  <2>3. QED
    BY <2>1, <2>2
<1>2. Funded'
  BY <1>1 DEF Funded
<1>3. InTime'
  BY DEF Orderly, InTime, Farmers, FarmerExists
<1>4. QED
  BY <1>2, <1>3

\* What covers a mint depends on the snapshots and the mint's periods only.
LEMMA FundsOfMint ==
  ASSUME NEW fm, fm # None, NEW new, new # None, new.snapshots = fm.snapshots, NEW m,
         m \in DOMAIN new.harvests <=> m \in DOMAIN fm.harvests,
         m \in DOMAIN fm.harvests => new.harvests[m] = fm.harvests[m],
         NEW accounts, NEW vault, NEW now, Funds(fm, accounts, vault, m, now)
  PROVE  Funds(new, accounts, vault, m, now)
BY DEF Funds

\* The new farm account, and the others.
LEMMA WrittenFarm ==
  ASSUME Typed, NEW f \in Farms, NEW x, farm' = [farm EXCEPT ![f] = x]
  PROVE  farm'[f] = x /\ \A g \in Farms \ {f} : farm'[g] = farm[g]
BY DEF Typed, FarmsTyped

\* create_farm: nobody has credit of a farm that did not exist.
LEMMA CreateFarmFunds ==
  ASSUME Orderly, Funded, NEW f \in Farms, NEW a \in Admins, CreateFarm(f, a)
  PROVE  Funded' /\ InTime'
<1> DEFINE x == [admin |-> a, snapshots |-> EmptyBuffer, minWindow |-> 0,
                 harvests |-> [m \in {} |-> NoPeriods]]
<1>1. /\ farm' = [farm EXCEPT ![f] = x] /\ farm[f] = None
      /\ UNCHANGED <<slot, farmer, harvestVault>>
  BY DEF CreateFarm, FarmExists
<1>2. farm'[f] = x /\ \A g \in Farms \ {f} : farm'[g] = farm[g]
  BY <1>1, WrittenFarm, Zenon DEF Orderly
<1>3. \A m \in Mints : Funds(x, farmer[f], harvestVault[f][m], m, slot)
  <2>1. \A m \in Mints : Funds(None, farmer[f], harvestVault[f][m], m, slot)
    BY <1>1 DEF Funded
  <2>2. DOMAIN x.harvests = {}
    OBVIOUS
  <2> HIDE DEF x
  <2>3. QED
    BY <2>1, <2>2 DEF Funds
<1> HIDE DEF x
<1>4. QED
  BY <1>1, <1>2, <1>3, FarmFunds

\* The owner and the window have no part in it.
LEMMA SettingsFunds ==
  ASSUME Orderly, Funded, NEW f \in Farms,
         \/ \E a \in Admins : SetFarmOwner(f, a)
         \/ \E w \in Windows : SetMinSnapshotWindow(f, w)
  PROVE  Funded' /\ InTime'
<1>1. FarmExists(f) /\ UNCHANGED <<slot, farmer, harvestVault>>
  BY DEF SetFarmOwner, SetMinSnapshotWindow
<1>2. PICK hs \in SUBSET Mints : farm[f] \in FarmOf(hs)
  BY <1>1, ExistingFarm DEF Orderly
<1>3. /\ farm'[f] \in FarmOf(hs)
      /\ farm'[f].snapshots = farm[f].snapshots /\ farm'[f].harvests = farm[f].harvests
      /\ \A g \in Farms \ {f} : farm'[g] = farm[g]
  <2>1. CASE \E a \in Admins : SetFarmOwner(f, a)
    <3>1. PICK a \in Admins : farm' = [farm EXCEPT ![f] = [farm[f] EXCEPT !.admin = a]]
      BY <2>1, Zenon DEF SetFarmOwner
    <3> DEFINE x == [farm[f] EXCEPT !.admin = a]
    <3>2. x \in FarmOf(hs) /\ x.snapshots = farm[f].snapshots /\ x.harvests = farm[f].harvests
      BY <1>2 DEF FarmOf
    <3>3. farm' = [farm EXCEPT ![f] = x]
      BY <3>1
    <3> HIDE DEF x
    <3>4. QED
      BY <3>2, <3>3, WrittenFarm, Zenon DEF Orderly
  <2>2. CASE \E w \in Windows : SetMinSnapshotWindow(f, w)
    <3>1. PICK w \in Windows : farm' = [farm EXCEPT ![f] = [farm[f] EXCEPT !.minWindow = w]]
      BY <2>2, Zenon DEF SetMinSnapshotWindow
    <3> DEFINE x == [farm[f] EXCEPT !.minWindow = w]
    <3>2. x \in FarmOf(hs) /\ x.snapshots = farm[f].snapshots /\ x.harvests = farm[f].harvests
      BY <1>2 DEF FarmOf
    <3>3. farm' = [farm EXCEPT ![f] = x]
      BY <3>1
    <3> HIDE DEF x
    <3>4. QED
      BY <3>2, <3>3, WrittenFarm, Zenon DEF Orderly
  <2>3. QED
    BY <2>1, <2>2
<1>4. farm'[f] # None /\ farm[f] # None
  BY <1>2, <1>3, NoneAssumption
<1>5. ASSUME NEW m \in Mints PROVE Funds(farm'[f], farmer[f], harvestVault'[f][m], m, slot)
  <2>1. Funds(farm[f], farmer[f], harvestVault[f][m], m, slot)
    BY DEF Funded
  <2>2. QED
    BY <1>1, <1>3, <1>4, <2>1, FundsOfMint, Zenon
<1>6. QED
  BY <1>1, <1>3, <1>5, FarmFunds

\* The accounts of a farm and their numbers.
LEMMA FarmNumbers ==
  ASSUME Orderly, NEW f \in Farms, FarmExists(f)
  PROVE  /\ slot \in Nat \ {0} /\ slot \in Nat /\ slot - 1 \in Nat /\ slot = (slot - 1) + 1
         /\ AreFarmers(farmer[f]) /\ farm[f] # None
         /\ harvestVault[f] \in [Mints -> Nat] /\ stakeVault[f] \in Nat
         /\ farm[f].snapshots \in Buffer /\ RingInOrder(farm[f].snapshots, slot)
         /\ \A u \in Users :
              farmer[f][u] # None => Near(farmer[f][u], farm[f].snapshots, slot)
         /\ \A m \in DOMAIN farm[f].harvests :
              m \in Mints /\ farm[f].harvests[m] \in Periods /\ OrderAt(farm[f].harvests[m], slot)
<1>1. AreInFarm(farmer[f], farm[f], slot)
  BY OrderlyFarm
<1>2. PICK hs \in SUBSET Mints : farm[f] \in FarmOf(hs)
  BY ExistingFarm DEF Orderly
<1>3. /\ farm[f].snapshots \in Buffer /\ farm[f].harvests \in [hs -> Periods]
  BY <1>2 DEF FarmOf
<1>4. /\ slot \in Nat \ {0} /\ harvestVault[f] \in [Mints -> Nat] /\ stakeVault[f] \in Nat
      /\ AreFarmers(farmer[f])
  BY DEF Orderly, Typed, BalancesTyped, FarmersTyped, AreFarmers
<1>5. slot \in Nat /\ slot - 1 \in Nat /\ slot = (slot - 1) + 1
  BY <1>4
<1>6. /\ RingInOrder(farm[f].snapshots, slot)
      /\ \A m \in DOMAIN farm[f].harvests : OrderAt(farm[f].harvests[m], slot)
  BY <1>1 DEF AreInFarm, FarmInOrder
<1>7. \A u \in Users : farmer[f][u] # None => Near(farmer[f][u], farm[f].snapshots, slot)
  BY <1>1 DEF AreInFarm, InFarm
<1>8. farm[f] # None
  BY DEF FarmExists
<1>9. \A m \in DOMAIN farm[f].harvests : m \in Mints /\ farm[f].harvests[m] \in Periods
  BY <1>3
<1>10. QED
  BY <1>3, <1>4, <1>5, <1>6, <1>7, <1>8, <1>9

\* add_harvest: a new harvest has no periods, and nobody has credit of it.
LEMMA AddHarvestFunds ==
  ASSUME Orderly, Funded, Step, NEW f \in Farms, NEW m \in Mints, AddHarvest(f, m)
  PROVE  Funded' /\ InTime'
<1> DEFINE old == farm[f].harvests
           h == [k \in DOMAIN old \cup {m} |-> IF k = m THEN NoPeriods ELSE old[k]]
           x == [farm[f] EXCEPT !.harvests = h]
<1>1. /\ farm' = [farm EXCEPT ![f] = x] /\ FarmExists(f) /\ m \notin DOMAIN old
      /\ UNCHANGED <<slot, farmer, harvestVault>>
  BY DEF AddHarvest, HasHarvest
<1>2. PICK hs \in SUBSET Mints : farm[f] \in FarmOf(hs)
  BY <1>1, ExistingFarm DEF Orderly
<1>3. x.harvests = h /\ x.snapshots = farm[f].snapshots /\ x # None
  <2>1. x.harvests = h /\ x.snapshots = farm[f].snapshots
    BY <1>2 DEF FarmOf
  <2>2. h \in [hs \cup {m} -> Periods]
    BY <1>1, <1>2 DEF FarmOf, NoPeriods, NoPeriod, Periods, Period
  <2> HIDE DEF h
  <2>3. x \in FarmOf(hs \cup {m})
    BY <1>2, <2>2 DEF FarmOf
  <2>4. x # None
    BY <1>2, <2>3, NoneAssumption
  <2>5. QED
    BY <2>1, <2>4
<1>4. DOMAIN h = DOMAIN old \cup {m} /\ h[m] = NoPeriods /\ \A k \in DOMAIN old : h[k] = old[k]
  BY <1>1
<1>5. farm'[f] = x /\ \A g \in Farms \ {f} : farm'[g] = farm[g]
  BY <1>1, WrittenFarm, Zenon DEF Orderly
<1> HIDE DEF x, h
<1>6. ASSUME NEW k \in Mints PROVE Funds(x, farmer[f], harvestVault[f][k], k, slot)
  <2>1. Funds(farm[f], farmer[f], harvestVault[f][k], k, slot) /\ farm[f] # None
    BY <1>1 DEF Funded, FarmExists
  <2>2. CASE k # m
    BY <1>3, <1>4, <2>1, <2>2, FundsOfMint, Zenon
  <2>3. CASE k = m
    <3> DEFINE accounts == farmer[f]
               v == harvestVault[f][k]
               b == farm[f].snapshots
               prev == slot - 1
    <3>1. /\ slot \in Nat /\ prev \in Nat /\ AreFarmers(accounts) /\ v \in Nat /\ b \in Buffer
      BY <1>1, FarmNumbers
    <3>2. \A u \in Users : accounts[u] # None => Credit(accounts[u], m) = 0
      BY <1>1, <2>1, <2>3 DEF Funds
    <3> HIDE DEF accounts, v, b, prev
    <3>3. Backs(v, accounts, b, NoPeriods, m, slot)
      BY <3>1, <3>2, BacksWithoutPeriods
    <3>4. Backs(v, accounts, b, NoPeriods, m, prev)
      BY <3>1, <3>2, BacksWithoutPeriods
    <3>5. QED
      BY <1>3, <1>4, <2>3, <3>3, <3>4 DEF Funds, accounts, v, b, prev
  <2>4. QED
    BY <2>2, <2>3
<1>7. QED
  BY <1>1, <1>5, <1>6, FarmFunds

\* remove_harvest: an empty vault owes nothing.
LEMMA RemoveHarvestFunds ==
  ASSUME Orderly, Funded, Step, NEW f \in Farms, NEW m \in Mints, RemoveHarvest(f, m)
  PROVE  Funded' /\ InTime'
<1> DEFINE old == farm[f].harvests
           h == [k \in DOMAIN old \ {m} |-> old[k]]
           x == [farm[f] EXCEPT !.harvests = h]
<1>1. /\ farm' = [farm EXCEPT ![f] = x] /\ FarmExists(f) /\ m \in DOMAIN old
      /\ harvestVault[f][m] = 0 /\ UNCHANGED <<slot, farmer, harvestVault>>
  BY DEF RemoveHarvest, HasHarvest
<1>2. PICK hs \in SUBSET Mints : farm[f] \in FarmOf(hs)
  BY <1>1, ExistingFarm DEF Orderly
<1>3. x.harvests = h /\ x.snapshots = farm[f].snapshots /\ x # None
  <2>1. x.harvests = h /\ x.snapshots = farm[f].snapshots
    BY <1>2 DEF FarmOf
  <2>2. h \in [hs \ {m} -> Periods]
    BY <1>1, <1>2 DEF FarmOf
  <2> HIDE DEF h
  <2>3. x \in FarmOf(hs \ {m})
    BY <1>2, <2>2 DEF FarmOf
  <2>4. x # None
    BY <1>2, <2>3, NoneAssumption
  <2>5. QED
    BY <2>1, <2>4
<1>4. DOMAIN h = DOMAIN old \ {m} /\ \A k \in DOMAIN old \ {m} : h[k] = old[k]
  OBVIOUS
<1>5. farm'[f] = x /\ \A g \in Farms \ {f} : farm'[g] = farm[g]
  BY <1>1, WrittenFarm, Zenon DEF Orderly
<1> HIDE DEF x, h
<1>6. ASSUME NEW k \in Mints PROVE Funds(x, farmer[f], harvestVault[f][k], k, slot)
  <2>1. Funds(farm[f], farmer[f], harvestVault[f][k], k, slot) /\ farm[f] # None
    BY <1>1 DEF Funded, FarmExists
  <2>2. CASE k # m
    BY <1>3, <1>4, <2>1, <2>2, FundsOfMint, Zenon
  <2>3. CASE k = m
    <3> DEFINE accounts == farmer[f]
               b == farm[f].snapshots
               ps == farm[f].harvests[m]
    <3>1. slot \in Nat /\ AreFarmers(accounts) /\ b \in Buffer /\ ps \in Periods
      BY <1>1, FarmNumbers
    <3>2. Backs(0, accounts, b, ps, m, slot)
      BY <1>1, <2>1, <2>3 DEF Funds
    <3> HIDE DEF accounts, b, ps
    <3>3. \A u \in Users : accounts[u] # None => Credit(accounts[u], m) = 0
      BY <3>1, <3>2, EmptyVaultOwesNothing
    <3>4. QED
      BY <1>3, <1>4, <2>3, <3>3 DEF Funds, accounts
  <2>4. QED
    BY <2>2, <2>3
<1>7. QED
  BY <1>1, <1>5, <1>6, FarmFunds

\* Time passes: what is due of the slot that begins was ahead.
LEMMA TickFunds ==
  ASSUME Orderly, Funded, SharesAreParts, Tick
  PROVE  Funded' /\ InTime'
<1>1. slot' = slot + 1 /\ UNCHANGED <<farm, farmer, harvestVault>> /\ slot \in Nat
  BY DEF Tick, Orderly, Typed, BalancesTyped
<1>2. ASSUME NEW f \in Farms, NEW m \in Mints
      PROVE  Funds(farm[f], farmer[f], harvestVault[f][m], m, slot')
  <2>1. Funds(farm[f], farmer[f], harvestVault[f][m], m, slot)
    BY DEF Funded
  <2>2. CASE ~HasHarvest(f, m)
    BY <2>1, <2>2 DEF Funds, HasHarvest, FarmExists
  <2>3. CASE HasHarvest(f, m)
    <3> DEFINE accounts == farmer[f]
               v == harvestVault[f][m]
               b == farm[f].snapshots
               ps == farm[f].harvests[m]
               now == slot
               next == slot'
    <3>1. FarmExists(f) /\ m \in DOMAIN farm[f].harvests
      BY <2>3 DEF HasHarvest
    <3>2. /\ AreFarmers(accounts) /\ v \in Nat /\ b \in Buffer /\ RingInOrder(b, now)
          /\ \A u \in Users : accounts[u] # None => Near(accounts[u], b, now)
          /\ ps \in Periods
      BY <3>1, FarmNumbers
    <3>3. Backs(v, accounts, b, ps, m, now)
      BY <2>1, <3>1 DEF Funds, FarmExists
    <3>4. AreParts(accounts, b)
      BY <3>1, PartsOfFarm
    <3>5. next \in Nat /\ next = now + 1 /\ now \in Nat /\ now <= next /\ next - 1 = now
      BY <1>1
    <3> HIDE DEF accounts, v, b, ps, now, next
    <3>6. RingInOrder(b, next)
      BY <3>2, <3>5, RingStaysInOrder
    <3>7. Backs(v, accounts, b, ps, m, next)
      BY <3>2, <3>3, <3>4, <3>5, <3>6, BacksNextSlot
    <3>8. Backs(v, accounts, b, ps, m, next - 1)
      BY <3>3, <3>5
    <3>9. QED
      BY <3>1, <3>7, <3>8 DEF Funds, FarmExists, accounts, v, b, ps, now, next
  <2>4. QED
    BY <2>2, <2>3
<1>3. Funded'
  BY <1>1, <1>2 DEF Funded
<1>4. InTime'
  <2>1. ASSUME NEW f \in Farms, NEW u \in Users, FarmerExists(f, u)
        PROVE  farmer[f][u].nextFrom <= slot' + 1
    <3>1. farmer[f][u].nextFrom <= slot + 1
      BY <2>1 DEF Orderly, InTime, Farmers
    <3>2. farmer[f][u].nextFrom \in Nat
      BY <2>1, VestingTypes DEF Orderly
    <3>3. QED
      BY <1>1, <3>1, <3>2
  <2>2. QED
    BY <1>1, <2>1 DEF InTime, Farmers, FarmerExists
<1>5. QED
  BY <1>3, <1>4

\* A new period is paid for before it releases anything.
LEMMA FundsAfterSetPeriod ==
  ASSUME NEW accounts, AreFarmers(accounts), NEW b \in Buffer, NEW ps \in Periods, NEW m,
         NEW now \in Nat \ {0}, OrderAt(ps, now), NEW p \in Period, p.startsAt <= p.endsAt,
         p.startsAt >= now, OrderAt(SetPeriod(ps, now, p), now),
         RingInOrder(b, now), AreParts(accounts, b),
         \A u \in Users : accounts[u] # None => Near(accounts[u], b, now),
         NEW vault \in Nat, NEW vault2 \in Nat, vault2 = vault + TotalEmitted(p) - Refund(ps, now),
         Backs(vault, accounts, b, ps, m, now),
         NEW fresh \in BOOLEAN, fresh => Backs(vault, accounts, b, ps, m, now - 1)
  PROVE  /\ Backs(vault2, accounts, b, SetPeriod(ps, now, p), m, now)
         /\ fresh => Backs(vault2, accounts, b, SetPeriod(ps, now, p), m, now - 1)
<1> DEFINE new == SetPeriod(ps, now, p)
           prev == now - 1
<1>1. p.startsAt \in Nat /\ prev \in Nat /\ prev < now /\ prev <= now /\ now \in Nat
  BY DEF Period
<1>2. prev < p.startsAt
  BY <1>1
<1> HIDE DEF prev
<1>3. Backs(vault2, accounts, b, new, m, now)
  <2>1. CASE now < p.startsAt
    <3>1. now <= now
      BY <1>1
    <3> HIDE DEF new
    <3>2. QED
      BY <1>1, <2>1, <3>1, BacksAfterSetPeriod DEF new
  <2>2. CASE now = p.startsAt
    BY <2>2, BacksAfterStart
  <2>3. QED
    BY <1>1, <2>1, <2>2
<1>4. ASSUME fresh PROVE Backs(vault2, accounts, b, new, m, prev)
  <2>1. Backs(vault, accounts, b, ps, m, prev)
    BY <1>4 DEF prev
  <2>2. QED
    BY <1>1, <1>2, <2>1, BacksAfterSetPeriod
<1>5. QED
  BY <1>3, <1>4 DEF prev

\* new_harvest_period: the administrator pays for the period when it is set.
LEMMA NewHarvestPeriodFunds ==
  ASSUME Orderly, Funded, SharesAreParts, Step, HistoriesInOrder',
         NEW f \in Farms, NEW m \in Mints, NEW at \in Starts,
         NEW n \in Lengths, NEW tps \in Rates, NewHarvestPeriod(f, m, at, n, tps)
  PROVE  Funded' /\ InTime'
<1> DEFINE ps       == farm[f].harvests[m]
           startsAt == IF at = 0 THEN slot ELSE at
           p        == [tps |-> tps, startsAt |-> startsAt, endsAt |-> startsAt + n - 1]
           charge   == TotalEmitted(p) - DepositedFor(ps)
           new      == SetPeriod(ps, slot, p)
           h        == [farm[f].harvests EXCEPT ![m] = new]
           x        == [farm[f] EXCEPT !.harvests = h]
           v        == harvestVault[f][m]
           v2       == harvestVault[f][m] + charge
<1>1. /\ HasHarvest(f, m) /\ n # 0 /\ startsAt >= slot /\ p.startsAt < p.endsAt
      /\ farm' = [farm EXCEPT ![f] = x]
      /\ harvestVault' = [harvestVault EXCEPT ![f][m] = @ + charge]
      /\ UNCHANGED <<slot, farmer>>
  BY DEF NewHarvestPeriod, AcceptsPeriod
<1>2. FarmExists(f) /\ m \in DOMAIN farm[f].harvests
  BY <1>1 DEF HasHarvest
<1>3. PICK hs \in SUBSET Mints : farm[f] \in FarmOf(hs)
  BY <1>2, ExistingFarm DEF Orderly
<1>4. farm[f].harvests \in [hs -> Periods] /\ m \in hs
  BY <1>2, <1>3 DEF FarmOf
<1>5. /\ slot \in Nat \ {0} /\ AreFarmers(farmer[f]) /\ harvestVault[f] \in [Mints -> Nat]
      /\ farm[f].snapshots \in Buffer /\ RingInOrder(farm[f].snapshots, slot)
      /\ \A u \in Users : farmer[f][u] # None => Near(farmer[f][u], farm[f].snapshots, slot)
      /\ ps \in Periods /\ OrderAt(ps, slot) /\ farm[f] # None
  BY <1>2, FarmNumbers
<1>6. AreParts(farmer[f], farm[f].snapshots)
  BY <1>2, PartsOfFarm
<1>7. p \in Period /\ p.startsAt >= slot /\ p.startsAt <= p.endsAt
  <2>1. n \in Nat /\ tps \in Nat /\ slot \in Nat /\ at \in Int
    BY <1>5 DEF Starts
  <2>2. startsAt \in Int
    BY <2>1
  <2>3. startsAt >= slot /\ n # 0
    BY <1>1
  <2> HIDE DEF startsAt
  <2>4. startsAt \in Nat /\ startsAt + n - 1 \in Nat
    BY <2>1, <2>2, <2>3
  <2>5. p \in Period
    BY <2>1, <2>4 DEF Period
  <2>6. p.startsAt \in Nat /\ p.endsAt \in Nat
    BY <2>5 DEF Period
  <2>7. p.startsAt <= p.endsAt
    BY <1>1, <2>6
  <2>8. QED
    BY <2>3, <2>5, <2>7
<1>8. /\ x.harvests = h /\ x.snapshots = farm[f].snapshots
      /\ DOMAIN h = DOMAIN farm[f].harvests /\ h[m] = new
      /\ \A k \in DOMAIN farm[f].harvests \ {m} : h[k] = farm[f].harvests[k]
  <2> HIDE DEF new
  <2>1. QED
    BY <1>3, <1>4 DEF FarmOf
<1> HIDE DEF h
<1>9. farm'[f] = x /\ \A g \in Farms \ {f} : farm'[g] = farm[g]
  <2> HIDE DEF x
  <2>1. QED
    BY <1>1, WrittenFarm, Zenon DEF Orderly
<1>10. farm'[f] # None
  <2>1. SnapshotsMove(f)
    BY DEF Step
  <2>2. CASE TakeSnapshot(f)
    BY <2>2, TakenSnapshot, Zenon DEF Orderly, FarmExists
  <2>3. QED
    BY <1>2, <2>1, <2>2 DEF SnapshotsMove, FarmExists
<1> HIDE DEF x
<1>11. OrderAt(new, slot)
  <2>1. slot' = slot /\ FarmExists(f)'
    BY <1>1, <1>10 DEF FarmExists
  <2>2. OrderAt(farm'[f].harvests[m], slot')
    BY <1>2, <1>8, <1>9, <2>1 DEF HistoriesInOrder, FarmInOrder
  <2>3. QED
    BY <1>8, <1>9, <2>1, <2>2
<1>12. /\ harvestVault'[f][m] = v2 /\ v2 \in Nat /\ v \in Nat
       /\ \A k \in Mints \ {m} : harvestVault'[f][k] = harvestVault[f][k]
       /\ \A g \in Farms \ {f} : harvestVault'[g] = harvestVault[g]
  <2> HIDE DEF charge
  <2>1. harvestVault' \in [Farms -> [Mints -> Nat]] /\ harvestVault \in [Farms -> [Mints -> Nat]]
    BY DEF Step, Orderly, Typed, BalancesTyped
  <2>2. QED
    BY <1>1, <2>1
<1>13. v2 = v + TotalEmitted(p) - Refund(ps, slot)
  <2>1. Refund(ps, slot) = DepositedFor(ps)
    BY DEF Refund, DepositedFor
  <2>2. TotalEmitted(p) \in Int /\ Refund(ps, slot) \in Int
    <3> HIDE DEF p, ps
    <3>1. ASSUME NEW q \in Period PROVE TotalEmitted(q) \in Int
      <4>1. q.endsAt - q.startsAt + 1 \in Int /\ q.tps \in Int
        BY DEF Period
      <4>2. \A a, b \in Int : a * b \in Int
        OBVIOUS
      <4>3. QED
        BY <4>1, <4>2 DEF TotalEmitted
    <3>2. ps[1] \in Period
      BY <1>5 DEF Periods
    <3>3. QED
      BY <1>7, <3>1, <3>2 DEF Refund
  <2> HIDE DEF p, ps
  <2>3. QED
    BY <1>12, <2>1, <2>2
<1>14. Backs(v, farmer[f], farm[f].snapshots, ps, m, slot)
  BY <1>2, <1>5 DEF Funded, Funds
<1> DEFINE fresh == IsFresh(farmer[f], slot)
<1>15. fresh \in BOOLEAN /\ (fresh => Backs(v, farmer[f], farm[f].snapshots, ps, m, slot - 1))
  BY <1>2, <1>5 DEF Funded, Funds, IsFresh
<1> HIDE DEF ps, p, v, v2, fresh, charge
<1>16. /\ Backs(v2, farmer[f], farm[f].snapshots, new, m, slot)
       /\ fresh => Backs(v2, farmer[f], farm[f].snapshots, new, m, slot - 1)
  BY <1>5, <1>6, <1>7, <1>11, <1>12, <1>13, <1>14, <1>15, FundsAfterSetPeriod, Zenon
<1> HIDE DEF new
<1>17. ASSUME NEW k \in Mints PROVE Funds(x, farmer[f], harvestVault'[f][k], k, slot)
  <2>1. Funds(farm[f], farmer[f], harvestVault[f][k], k, slot)
    BY DEF Funded
  <2>2. CASE k # m
    <3>1. harvestVault'[f][k] = harvestVault[f][k]
      BY <1>12, <2>2
    <3>2. QED
      BY <1>5, <1>8, <1>9, <1>10, <2>1, <2>2, <3>1, FundsOfMint, Zenon
  <2>3. CASE k = m
    BY <1>2, <1>8, <1>9, <1>10, <1>12, <1>16, <2>3 DEF Funds, fresh
  <2>4. QED
    BY <2>2, <2>3
<1>18. QED
  BY <1>1, <1>9, <1>12, <1>17, FarmFunds

\* The snapshot of a slot in which nobody was updated: seen from the slot before,
\* it leaves no more due, and what is due of the slot itself was ahead.
LEMMA FundsAfterPush ==
  ASSUME NEW accounts, AreFarmers(accounts), NEW b \in Buffer, NEW c \in Buffer,
         NEW ps \in Periods, NEW m, NEW now \in Nat \ {0}, NEW amount \in Nat,
         c = Push(b, amount, now), RingInOrder(c, now), AreParts(accounts, c),
         \A u \in Users : accounts[u] # None =>
            accounts[u].nextFrom <= now
              /\ Near(accounts[u], b, now) /\ Near(accounts[u], c, now),
         NEW vault \in Nat, Backs(vault, accounts, b, ps, m, now - 1)
  PROVE  /\ Backs(vault, accounts, c, ps, m, now)
         /\ Backs(vault, accounts, c, ps, m, now - 1)
<1> DEFINE prev == now - 1
<1>1. prev \in Nat /\ prev < now /\ now = prev + 1 /\ now \in Nat
  OBVIOUS
<1>2. \A u \in Users : accounts[u] # None => Near(accounts[u], b, prev) /\ Near(accounts[u], c, prev)
  BY <1>1 DEF Near
<1>3. Backs(vault, accounts, b, ps, m, prev)
  OBVIOUS
<1> HIDE DEF prev
<1>4. Backs(vault, accounts, c, ps, m, prev)
  <2>1. Backs(vault, accounts, Push(b, amount, now), ps, m, prev)
    BY <1>1, <1>2, <1>3, BacksAfterPush
  <2>2. QED
    BY <2>1
<1>5. Backs(vault, accounts, c, ps, m, now)
  BY <1>1, <1>2, <1>4, BacksNextSlot
<1>6. QED
  BY <1>4, <1>5 DEF prev

\* take_snapshot, which comes before the updates of its slot.
LEMMA TakeSnapshotFunds ==
  ASSUME Orderly, Funded, Step, SharesAreParts', HistoriesInOrder', EndsAhead',
         SnapshotsComeFirst, NEW f \in Farms, TakeSnapshot(f)
  PROVE  Funded' /\ InTime'
<1> DEFINE b == farm[f].snapshots
           c == farm'[f].snapshots
           accounts == farmer[f]
<1>1. /\ FarmExists(f) /\ FarmExists(f)' /\ c # b
      /\ c = Push(b, stakeVault[f], slot)
      /\ UNCHANGED <<slot, farmer, stakeVault>>
  BY TakenSnapshot, Zenon DEF Orderly
<1>2. /\ farm' = [farm EXCEPT ![f] = [farm[f] EXCEPT !.snapshots = c]]
      /\ UNCHANGED harvestVault
  BY <1>1, Zenon DEF TakeSnapshot
<1>3. /\ \A g \in Farms \ {f} : farm'[g] = farm[g]
      /\ farm'[f].harvests = farm[f].harvests
  <2>1. PICK hs \in SUBSET Mints : farm[f] \in FarmOf(hs)
    BY <1>1, ExistingFarm DEF Orderly
  <2> DEFINE x == [farm[f] EXCEPT !.snapshots = c]
  <2>2. x.harvests = farm[f].harvests
    BY <2>1 DEF FarmOf
  <2>3. farm' = [farm EXCEPT ![f] = x]
    BY <1>2
  <2> HIDE DEF x
  <2>4. QED
    BY <2>2, <2>3, WrittenFarm DEF Orderly
<1>4. /\ slot \in Nat \ {0} /\ AreFarmers(accounts) /\ harvestVault[f] \in [Mints -> Nat]
      /\ b \in Buffer /\ stakeVault[f] \in Nat
      /\ \A u \in Users : accounts[u] # None => Near(accounts[u], b, slot)
  BY <1>1, FarmNumbers
<1>5. c \in Buffer
  BY <1>1, <1>4, PushType
<1>6. RingInOrder(c, slot)
  BY <1>1 DEF HistoriesInOrder, FarmInOrder
<1>7. AreParts(accounts, c)
  BY <1>1, PartsOfFarmNext
<1>8. \A u \in Users : accounts[u] # None =>
        accounts[u].nextFrom <= slot
          /\ Near(accounts[u], b, slot) /\ Near(accounts[u], c, slot)
  <2>1. ASSUME NEW u \in Users, accounts[u] # None
        PROVE  accounts[u].nextFrom <= slot /\ Near(accounts[u], b, slot) /\ Near(accounts[u], c, slot)
    <3>1. accounts[u].nextFrom <= slot
      BY <1>1, <2>1 DEF SnapshotsComeFirst, NotUpdatedYet, FarmerExists
    <3>2. Near(accounts[u], b, slot)
      BY <1>4, <2>1
    <3>3. accounts[u].nextFrom <= slot + 1
      BY <3>2 DEF Near
    <3>4. \A s \in EndOfVesting(farmer'[f][u], farm'[f]) : farmer'[f][u].nextFrom <= s.startedAt
      BY <1>1, <2>1 DEF EndsAhead, Farmers, FarmerExists
    <3>5. \A s \in VestingOver(accounts[u], c) : accounts[u].nextFrom <= s.startedAt
      BY <1>1, <3>4, EndOfVestingByRing
    <3>6. QED
      BY <3>1, <3>2, <3>3, <3>5 DEF Near
  <2>2. QED
    BY <2>1
<1>9. ASSUME NEW m \in Mints
      PROVE  Funds(farm'[f], farmer[f], harvestVault'[f][m], m, slot)
  <2>1. Funds(farm[f], farmer[f], harvestVault[f][m], m, slot)
    BY DEF Funded
  <2>2. CASE m \notin DOMAIN farm[f].harvests
    BY <1>2, <1>3, <2>1, <2>2 DEF Funds
  <2>3. CASE m \in DOMAIN farm[f].harvests
    <3> DEFINE v == harvestVault[f][m]
               ps == farm[f].harvests[m]
    <3>1. v \in Nat /\ ps \in Periods
      BY <1>1, <1>4, <2>3, FarmNumbers
    <3>2. Backs(v, accounts, b, ps, m, slot - 1)
      BY <1>1, <1>8, <2>1, <2>3 DEF Funds, IsFresh, FarmExists
    <3> HIDE DEF v, ps, b, c, accounts
    <3>3. /\ Backs(v, accounts, c, ps, m, slot)
          /\ Backs(v, accounts, c, ps, m, slot - 1)
      BY <1>1, <1>4, <1>5, <1>6, <1>7, <1>8, <3>1, <3>2, FundsAfterPush
    <3>4. QED
      BY <1>1, <1>2, <1>3, <2>3, <3>3 DEF Funds, FarmExists, v, ps, c, accounts
  <2>4. QED
    BY <2>2, <2>3
<1>10. QED
  BY <1>1, <1>2, <1>3, <1>9, FarmFunds

-----------------------------------------------------------------------------
(* The invariant, and solvency.                                            *)

\* An administrator's transaction.
LEMMA AdminFunds ==
  ASSUME Orderly, Funded, SharesAreParts, Step, HistoriesInOrder', SnapshotsComeFirst,
         NEW f \in Farms, AdminNext(f)
  PROVE  Funded' /\ InTime'
<1>1. CASE \E a \in Admins : CreateFarm(f, a)
  BY <1>1, CreateFarmFunds
<1>2. CASE \/ \E a \in Admins : SetFarmOwner(f, a)
           \/ \E w \in Windows : SetMinSnapshotWindow(f, w)
  BY <1>2, SettingsFunds
<1>3. CASE \E m \in Mints : AddHarvest(f, m)
  BY <1>3, AddHarvestFunds
<1>4. CASE \E m \in Mints : RemoveHarvest(f, m)
  BY <1>4, RemoveHarvestFunds
<1>5. CASE \E m \in Mints, at \in Starts, n \in Lengths, tps \in Rates :
             NewHarvestPeriod(f, m, at, n, tps)
  <2>1. PICK m \in Mints, at \in Starts, n \in Lengths, tps \in Rates :
               NewHarvestPeriod(f, m, at, n, tps)
    BY <1>5
  <2>2. QED
    BY <2>1, NewHarvestPeriodFunds
<1>6. CASE \/ \E g \in {t \in Farms : <<f, t>> \in Pairs} : WhitelistFarmForCompounding(f, g)
           \/ \E g \in Farms : DewhitelistFarmForCompounding(f, g)
  <2>1. UNCHANGED <<slot, farm, farmer, harvestVault>>
    BY <1>6, Zenon DEF WhitelistFarmForCompounding, DewhitelistFarmForCompounding
  <2>2. QED
    BY <2>1, SettledStep DEF Settled
<1>7. QED
  BY <1>1, <1>2, <1>3, <1>4, <1>5, <1>6, Zenon DEF AdminNext

\* A user's transaction in one farm.
LEMMA UserFunds ==
  ASSUME Orderly, Funded, Step, SnapshotsComeFirst,
         NEW f \in Farms, NEW u \in Users, FarmerNext(f, u)
  PROVE  Funded' /\ InTime'
<1>1. UNCHANGED <<slot, farm>>
  BY Zenon DEF FarmerNext, CreateFarmer, UpdateEligibleHarvestUntil, StartFarming, StopFarming,
         ClaimEligibleHarvest, Airdrop, CompoundSameFarm, CloseFarmer
<1>2. SUFFICES \A g \in Farms : Settled(g)
  BY <1>1, SettledStep
<1>3. CASE CreateFarmer(f, u)
  BY <1>3, CreateFarmerSettles
<1>4. CASE \E lag \in Lags : UpdateEligibleHarvestUntil(f, u, Larger(0, slot - lag))
  <2>1. PICK lag \in Lags : UpdateEligibleHarvestUntil(f, u, Larger(0, slot - lag))
    BY <1>4
  <2> DEFINE until == Larger(0, slot - lag)
  <2>2. until \in Nat
    BY DEF Larger, Orderly, Typed, BalancesTyped
  <2>3. UpdateEligibleHarvestUntil(f, u, until)
    BY <2>1
  <2> HIDE DEF until
  <2>4. QED
    BY <2>2, <2>3, UpdateEligibleSettles
<1>5. CASE \E stake \in StakeAmounts : StartFarming(f, u, stake)
  BY <1>5, StartFarmingSettles
<1>6. CASE \E max \in UnstakeAmounts : StopFarming(f, u, max)
  BY <1>6, StopFarmingSettles
<1>7. CASE \E ks \in SUBSET Mints : ClaimEligibleHarvest(f, u, ks)
  BY <1>7, ClaimSettles
<1>8. CASE \E m \in Mints, amount \in AirdropAmounts, a \in Admins : Airdrop(f, u, m, amount, a)
  BY <1>8, AirdropSettles
<1>9. CASE CompoundSameFarm(f, u)
  BY <1>9, CompoundSameSettles
<1>10. CASE CloseFarmer(f, u)
  BY <1>10, CloseFarmerSettles
<1>11. QED
  BY <1>3, <1>4, <1>5, <1>6, <1>7, <1>8, <1>9, <1>10 DEF FarmerNext

\* The invariant and what it rests on.
Inv ==
  /\ Typed /\ LatestIsPast /\ StakeIsConserved /\ SharesAreParts
  /\ HistoriesInOrder /\ EndsAhead /\ InTime /\ Funded

\* No account exists at first.
LEMMA InvInit == ASSUME Init PROVE Inv
<1>1. Typed /\ StakeIsConserved
  BY InitTyped, InitConserved
<1>2. /\ \A f \in Farms : farm[f] = None
      /\ \A f \in Farms, u \in Users : farmer[f][u] = None
  BY DEF Init
<1>3. LatestIsPast /\ SharesAreParts /\ HistoriesInOrder
  BY <1>2 DEF LatestIsPast, SharesAreParts, HistoriesInOrder, FarmExists
<1>4. EndsAhead /\ InTime
  BY <1>2 DEF EndsAhead, InTime, Farmers, FarmerExists
<1>5. Funded
  BY <1>2 DEF Funded, Funds
<1>6. QED
  BY <1>1, <1>3, <1>4, <1>5 DEF Inv

\* Every transaction of an orderly program keeps the invariant.
LEMMA InvOrderlyStep == ASSUME Inv, OrderlyNext PROVE Inv'
<1>1. Orderly /\ Funded /\ SharesAreParts /\ SnapshotsComeFirst
  BY DEF Inv, Orderly, OrderlyNext
<1>2. Step
  BY NextStep DEF Inv, OrderlyNext
<1>3. Typed' /\ LatestIsPast' /\ StakeIsConserved' /\ SharesAreParts'
  BY <1>2, LatestIsPastStep, ConservedStep, SharesStep DEF Inv, Step
<1>4. HistoriesInOrder' /\ EndsAhead'
  BY <1>1, <1>2, HistoriesInOrderStep, EndsAheadStep DEF Inv, OrderlyNext
<1>5. Funded' /\ InTime'
  <2>1. CASE \E f \in Farms : AdminNext(f)
    BY <1>1, <1>2, <1>4, <2>1, AdminFunds
  <2>2. CASE \E f \in Farms : TakeSnapshot(f)
    BY <1>1, <1>2, <1>3, <1>4, <2>2, TakeSnapshotFunds
  <2>3. CASE \E f \in Farms, u \in Users : FarmerNext(f, u)
    BY <1>1, <1>2, <2>3, UserFunds
  <2>4. CASE \E f, g \in Farms, u \in Users : CompoundAcrossFarms(f, g, u)
    <3>1. \A h \in Farms : Settled(h)
      BY <1>1, <1>2, <2>4, CompoundAcrossSettles
    <3>2. UNCHANGED <<slot, farm>>
      BY <2>4 DEF CompoundAcrossFarms
    <3>3. QED
      BY <1>1, <1>2, <3>1, <3>2, SettledStep
  <2>5. CASE Tick
    BY <1>1, <2>5, TickFunds
  <2>6. QED
    BY <2>1, <2>2, <2>3, <2>4, <2>5 DEF OrderlyNext, Next
<1>6. QED
  BY <1>3, <1>4, <1>5 DEF Inv

\* The invariant is inductive.
LEMMA InvStep == ASSUME Inv, [OrderlyNext]_vars PROVE Inv'
<1>1. CASE UNCHANGED vars
  <2>1. Typed' /\ LatestIsPast' /\ StakeIsConserved' /\ SharesAreParts'
    <3>1. Step
      BY <1>1, NextStep DEF Inv
    <3>2. QED
      BY <3>1, LatestIsPastStep, ConservedStep, SharesStep DEF Inv, Step
  <2>2. HistoriesInOrder'
    BY <1>1, HistoriesInOrderStep DEF Inv
  <2>3. EndsAhead' /\ InTime' /\ Funded'
    BY <1>1 DEF vars, Inv, EndsAhead, InTime, Farmers, FarmerExists, Funded
  <2>4. QED
    BY <2>1, <2>2, <2>3 DEF Inv
<1>2. QED
  BY <1>1, InvOrderlyStep

\* The invariant of the orderly program.
LEMMA AlwaysInv == OrderlySpec => []Inv
<1>1. Init => Inv
  BY InvInit
<1>2. Inv /\ [OrderlyNext]_vars => Inv'
  BY InvStep
<1>3. QED
  BY <1>1, <1>2, PTL DEF OrderlySpec

\* What a farmer could claim after an update is due.
LEMMA CreditIsDue ==
  ASSUME Orderly, NEW f \in Farms, NEW m \in DOMAIN farm[f].harvests, NEW u \in Users,
         FarmerExists(f, u)
  PROVE  LET c == Credit(Updated(f, u, slot).farmer, m)
         IN  c \in Nat
             /\ Wad * c <= Dues(farmer[f], farm[f].snapshots, farm[f].harvests[m], m, slot)[u]
<1> DEFINE old == farmer[f][u]
           mid == Updated(f, u, slot).farmer
           b == farm[f].snapshots
           ps == farm[f].harvests[m]
           v == harvestVault[f]
           now == slot
           c == Credit(mid, m)
<1>1. FarmExists(f) /\ InFarm(old, farm[f], now) /\ now \in Nat /\ now <= now
  BY OrderlyFarmer
<1>2. b \in Buffer /\ ps \in Periods /\ v \in [Mints -> Nat] /\ m \in Mints
  BY <1>1, FarmNumbers
<1>3. /\ Settles(old, mid, farm[f], now, v, v)
      /\ IsFarmer(mid, Mints) /\ InFarm(mid, farm[f], now)
  <2>1. Orderly /\ FarmerExists(f, u) /\ slot \in Nat /\ slot <= slot
    BY <1>1
  <2>2. f \in Farms /\ u \in Users
    OBVIOUS
  <2>3. QED
    BY ONLY <2>1, <2>2, UpdatedSettles
<1>4. mid # None /\ old # None
  BY <1>3, RecordsExist DEF FarmerExists
<1> HIDE DEF old, mid, b, ps, v, now, c
<1>5. Near(old, b, now) /\ mid.nextFrom <= now + 1
  BY <1>1, <1>3 DEF InFarm, Near, b
<1>6. Due(mid, b, ps, m, now) + Wad * v[m] <= Due(old, b, ps, m, now) + Wad * v[m]
  <2>1. now \in {now - 1, now}
    OBVIOUS
  <2>2. QED
    BY <1>3, <1>5, <2>1 DEF Settles, b, ps
<1>7. IsFarmer(old, Mints)
  BY <1>1 DEF InFarm
<1>8. Due(mid, b, ps, m, now) \in Nat /\ Due(old, b, ps, m, now) \in Nat
  BY <1>1, <1>2, <1>3, <1>7, DueType
<1>9. PICK ms \in SUBSET Mints : mid \in FarmerOf(ms)
  BY <1>3 DEF IsFarmer
<1>10. c \in Nat /\ Unpaid(mid, b, ps, now) \in Nat
  BY <1>1, <1>2, <1>9, AccountType, UnpaidType DEF c
<1>11. Wad * c \in Nat
  BY <1>10, Products
<1>12. Wad * v[m] \in Nat
  <2>1. v[m] \in Nat
    BY <1>2
  <2>2. QED
    BY <2>1, Products
<1>13. Due(mid, b, ps, m, now) = Wad * c + Unpaid(mid, b, ps, now)
  BY <1>4 DEF Due, c
<1>14. Wad * c <= Due(old, b, ps, m, now)
  BY <1>6, <1>8, <1>10, <1>11, <1>12, <1>13
<1>15. QED
  BY <1>10, <1>14 DEF Dues, c, old, mid, b, ps, now

\* What all farmers of a farm could claim is due.
LEMMA ClaimableIsDue ==
  ASSUME Orderly, NEW f \in Farms, FarmExists(f), NEW m \in DOMAIN farm[f].harvests
  PROVE  /\ Claimable(f, m) \in Nat
         /\ Wad * Claimable(f, m)
              <= SumFunctionOnSet(Dues(farmer[f], farm[f].snapshots, farm[f].harvests[m], m, slot), Users)
<1> DEFINE c == [u \in Farmers(f) |-> Credit(Updated(f, u, slot).farmer, m)]
           e == [u \in Farmers(f) |-> Wad * c[u]]
           d == Dues(farmer[f], farm[f].snapshots, farm[f].harvests[m], m, slot)
           S == Farmers(f)
<1>1. S \subseteq Users /\ IsFiniteSet(S)
  <2>1. S \subseteq Users
    BY DEF Farmers
  <2>2. QED
    BY <2>1, FS_Subset
<1>2. Claimable(f, m) = SumFunctionOnSet(c, S)
  BY DEF Claimable, SumFunction
<1>3. \A u \in S : c[u] \in Nat /\ Wad * c[u] <= d[u]
  <2>1. ASSUME NEW u \in S PROVE c[u] \in Nat /\ Wad * c[u] <= d[u]
    <3>1. FarmerExists(f, u) /\ u \in Users
      BY DEF Farmers
    <3>2. c[u] = Credit(Updated(f, u, slot).farmer, m)
      OBVIOUS
    <3> HIDE DEF c, d
    <3>3. QED
      BY <3>1, <3>2, CreditIsDue DEF d
  <2>2. QED
    BY <2>1
<1>4. \A u \in Users : d[u] \in Nat
  <2>1. /\ slot \in Nat /\ AreFarmers(farmer[f]) /\ farm[f].snapshots \in Buffer
        /\ farm[f].harvests[m] \in Periods
    BY FarmNumbers
  <2>2. QED
    BY <2>1, DuesType DEF AreFarmers
<1> HIDE DEF c, d, S
<1>5. \A u \in S : e[u] = Wad * c[u]
  BY DEF S
<1> HIDE DEF e
<1>6. \A u \in S : e[u] \in Nat /\ d[u] \in Nat /\ e[u] <= d[u]
  <2>1. ASSUME NEW u \in S PROVE e[u] \in Nat /\ d[u] \in Nat /\ e[u] <= d[u]
    <3> DEFINE x == c[u]
    <3>1. x \in Nat /\ Wad * x <= d[u] /\ e[u] = Wad * x
      BY <1>3, <1>5
    <3>2. d[u] \in Nat
      BY <1>1, <1>4
    <3> HIDE DEF x
    <3>3. Wad * x \in Nat
      BY <3>1, Products
    <3>4. QED
      BY <3>1, <3>2, <3>3
  <2>2. QED
    BY <2>1
<1>7. SumFunctionOnSet(e, S) <= SumFunctionOnSet(d, S)
  BY <1>1, <1>6, SumMonotone
<1>8. SumFunctionOnSet(e, S) = Wad * SumFunctionOnSet(c, S)
  <2>1. Wad \in Nat
    OBVIOUS
  <2>2. QED
    BY <1>1, <1>3, <1>5, <2>1, SumOfMultiples
<1>9. SumFunctionOnSet(d, Users) = SumFunctionOnSet(d, S) + SumFunctionOnSet(d, Users \ S)
  BY <1>1, <1>4, SumOfParts
<1>10. SumFunctionOnSet(d, S) \in Nat
  BY <1>1, <1>4, SumUnfolds
<1>11. SumFunctionOnSet(d, Users \ S) \in Nat
  <2>1. IsFiniteSet(Users \ S)
    BY FS_Subset
  <2>2. QED
    BY <1>4, <2>1, SumUnfolds
<1>12. SumFunctionOnSet(c, S) \in Nat /\ SumFunctionOnSet(e, S) \in Nat
  BY <1>1, <1>3, <1>6, SumUnfolds
<1>13. QED
  BY <1>2, <1>7, <1>8, <1>9, <1>10, <1>11, <1>12 DEF d

\* What the periods release after this slot is ahead of the next one.
LEMMA ReleaseIsAhead ==
  ASSUME Orderly, NEW f \in Farms, FarmExists(f), NEW m \in DOMAIN farm[f].harvests
  PROVE  /\ StillToRelease(f, m) \in Nat
         /\ StillToRelease(f, m) = Ahead(farm[f].harvests[m], slot + 1)
<1> DEFINE ps == farm[f].harvests[m]
           g == [i \in 1 .. PeriodsLen |->
                   Larger(0, ps[i].endsAt - Larger(slot, ps[i].startsAt - 1)) * ps[i].tps]
           next == slot + 1
<1>1. slot \in Nat /\ ps \in Periods
  BY FarmNumbers
<1> HIDE DEF ps
<1>2. next \in Nat
  BY <1>1
<1>3. g = Remaining(ps, next)
  <2>1. ASSUME NEW i \in 1 .. PeriodsLen
        PROVE  ps[i].endsAt - Larger(slot, ps[i].startsAt - 1)
                 = ps[i].endsAt - Larger(next, ps[i].startsAt) + 1
    <3>1. ps[i].startsAt \in Nat /\ ps[i].endsAt \in Nat
      BY <1>1 DEF Periods, Period
    <3>2. QED
      BY <1>1, <3>1 DEF Larger
  <2>2. QED
    BY <2>1 DEF Remaining, Remains
<1>4. StillToRelease(f, m) = SumFunctionOnSet(g, 1 .. PeriodsLen)
  BY DEF StillToRelease, SumFunction, ps
<1> HIDE DEF g, next
<1>5. Ahead(ps, next) \in Nat
  BY <1>1, <1>2, AheadType
<1>6. QED
  BY <1>3, <1>4, <1>5 DEF Ahead, ps, next

\* A vault in funds covers what farmers could claim and what is still to be released.
LEMMA FundedIsSolvent ==
  ASSUME Orderly, Funded, NEW f \in Farms, NEW m \in Mints, HasHarvest(f, m)
  PROVE  /\ Claimable(f, m) \in Nat /\ StillToRelease(f, m) \in Nat
         /\ harvestVault[f][m] >= Claimable(f, m) + StillToRelease(f, m)
<1> DEFINE ps == farm[f].harvests[m]
           D == SumFunctionOnSet(Dues(farmer[f], farm[f].snapshots, ps, m, slot), Users)
           c == Claimable(f, m)
           r == StillToRelease(f, m)
           v == harvestVault[f][m]
<1>1. FarmExists(f) /\ m \in DOMAIN farm[f].harvests
  BY DEF HasHarvest
<1>2. c \in Nat /\ Wad * c <= D
  BY <1>1, ClaimableIsDue
<1>3. r \in Nat /\ r = Ahead(ps, slot + 1)
  BY <1>1, ReleaseIsAhead
<1>4. Backs(v, farmer[f], farm[f].snapshots, ps, m, slot)
  BY <1>1 DEF Funded, Funds, FarmExists
<1>5. D + Wad * Ahead(ps, slot + 1) <= Wad * v
  BY <1>4 DEF Backs
<1>6. v \in Nat /\ D \in Nat
  <2>1. /\ slot \in Nat /\ AreFarmers(farmer[f]) /\ farm[f].snapshots \in Buffer
        /\ harvestVault[f] \in [Mints -> Nat] /\ ps \in Periods
    BY <1>1, FarmNumbers
  <2>2. QED
    BY <2>1, DuesType, Zenon DEF AreFarmers
<1> HIDE DEF ps, D, c, r, v
<1>7. D + Wad * r <= Wad * v
  BY <1>3, <1>5
<1> DEFINE t == c + r
<1>8. Wad * t <= Wad * v
  <2>1. Wad * c \in Nat /\ Wad * r \in Nat /\ Wad * v \in Nat
    BY <1>2, <1>3, <1>6, Products
  <2>2. Wad * t = Wad * c + Wad * r
    BY <1>2, <1>3
  <2> HIDE DEF t
  <2>3. QED
    BY <1>2, <1>6, <1>7, <2>1, <2>2
<1>9. t \in Int /\ v \in Int
  BY <1>2, <1>3, <1>6
<1>10. t <= v
  <2> HIDE DEF t
  <2>1. QED
    BY <1>8, <1>9, Cancels
<1>11. QED
  BY <1>2, <1>3, <1>6, <1>10 DEF c, r, v

\* A harvest vault covers what farmers earned and what is still to be released,
\* whatever they deposited, withdrew, compounded or claimed and however many
\* farmers share the harvest: a claim never fails for lack of funds.
THEOREM VaultsStaySolvent == OrderlySpec => []Solvency
<1>1. Inv => Solvency
  <2>1. ASSUME Inv, NEW f \in Farms, NEW m \in Mints, HasHarvest(f, m)
        PROVE  harvestVault[f][m] >= Claimable(f, m) + StillToRelease(f, m)
    BY <2>1, FundedIsSolvent DEF Inv, Orderly
  <2>2. QED
    BY <2>1 DEF Solvency
<1>2. QED
  BY AlwaysInv, <1>1, PTL

\* remove_harvest is the only endpoint after which a farm lacks a harvest.
LEMMA OnlyRemoveHarvest ==
  ASSUME Typed, [Next]_vars, NEW f \in Farms, NEW m \in Mints,
         HasHarvest(f, m), ~HasHarvest(f, m)'
  PROVE  harvestVault[f][m] = 0
<1>1. FarmExists(f) /\ m \in DOMAIN farm[f].harvests
  BY DEF HasHarvest
<1>2. Step
  BY NextStep
<1>3. FarmExists(f)'
  <2>1. CASE TakeSnapshot(f)
    BY <2>1, TakenSnapshot, Zenon
  <2>2. SnapshotsMove(f)
    BY <1>2 DEF Step
  <2>3. QED
    BY <1>1, <2>1, <2>2 DEF SnapshotsMove
<1>4. m \notin DOMAIN farm'[f].harvests
  BY <1>3 DEF HasHarvest
<1>5. SUFFICES ASSUME harvestVault[f][m] # 0 PROVE FALSE
  OBVIOUS
<1>6. PICK hs \in SUBSET Mints : farm[f] \in FarmOf(hs)
  BY <1>1, ExistingFarm
<1>7. ASSUME NEW g \in Farms, NEW x, farm' = [farm EXCEPT ![g] = x],
             g = f => m \in DOMAIN x.harvests
      PROVE  FALSE
  <2>1. farm'[g] = x /\ \A k \in Farms \ {g} : farm'[k] = farm[k]
    BY <1>7, WrittenFarm, Zenon
  <2>2. QED
    BY <1>1, <1>4, <1>7, <2>1
<1>8. ASSUME NEW g \in Farms, AdminNext(g) PROVE FALSE
  <2>1. CASE \E a \in Admins : CreateFarm(g, a)
    <3>1. PICK a \in Admins : CreateFarm(g, a)
      BY <2>1
    <3>2. g # f
      BY <1>1, <3>1 DEF CreateFarm
    <3>3. QED
      BY <1>7, <3>1, <3>2, Zenon DEF CreateFarm
  <2>2. CASE \/ \E a \in Admins : SetFarmOwner(g, a)
             \/ \E w \in Windows : SetMinSnapshotWindow(g, w)
    <3>1. CASE \E a \in Admins : SetFarmOwner(g, a)
      <4>1. PICK a \in Admins : SetFarmOwner(g, a)
        BY <3>1
      <4> DEFINE x == [farm[g] EXCEPT !.admin = a]
      <4>2. farm' = [farm EXCEPT ![g] = x] /\ (g = f => m \in DOMAIN x.harvests)
        BY <1>1, <1>6, <4>1 DEF SetFarmOwner, FarmOf
      <4> HIDE DEF x
      <4>3. QED
        BY <1>7, <4>2, Zenon
    <3>2. CASE \E w \in Windows : SetMinSnapshotWindow(g, w)
      <4>1. PICK w \in Windows : SetMinSnapshotWindow(g, w)
        BY <3>2
      <4> DEFINE x == [farm[g] EXCEPT !.minWindow = w]
      <4>2. farm' = [farm EXCEPT ![g] = x] /\ (g = f => m \in DOMAIN x.harvests)
        BY <1>1, <1>6, <4>1 DEF SetMinSnapshotWindow, FarmOf
      <4> HIDE DEF x
      <4>3. QED
        BY <1>7, <4>2, Zenon
    <3>3. QED
      BY <2>2, <3>1, <3>2
  <2>3. CASE \E k \in Mints : AddHarvest(g, k) \/ RemoveHarvest(g, k)
    <3>1. PICK k \in Mints : AddHarvest(g, k) \/ RemoveHarvest(g, k)
      BY <2>3
    <3>2. CASE AddHarvest(g, k)
      <4> DEFINE h == [y \in DOMAIN farm[g].harvests \cup {k} |->
                         IF y = k THEN NoPeriods ELSE farm[g].harvests[y]]
                 x == [farm[g] EXCEPT !.harvests = h]
      <4>1. farm' = [farm EXCEPT ![g] = x]
        BY <3>2 DEF AddHarvest
      <4>2. g = f => m \in DOMAIN x.harvests
        <5>1. m \in DOMAIN farm[f].harvests \cup {k}
          BY <1>1
        <5>2. DOMAIN h = DOMAIN farm[g].harvests \cup {k}
          OBVIOUS
        <5> HIDE DEF h
        <5>3. g = f => x.harvests = h
          BY <1>6 DEF FarmOf
        <5>4. QED
          BY <5>1, <5>2, <5>3
      <4> HIDE DEF x
      <4>3. QED
        BY <1>7, <4>1, <4>2, Zenon
    <3>3. CASE RemoveHarvest(g, k)
      <4> DEFINE h == [y \in DOMAIN farm[g].harvests \ {k} |-> farm[g].harvests[y]]
                 x == [farm[g] EXCEPT !.harvests = h]
      <4>1. farm' = [farm EXCEPT ![g] = x] /\ harvestVault[g][k] = 0
        BY <3>3 DEF RemoveHarvest
      <4>2. g = f => m \in DOMAIN x.harvests
        <5>1. g = f => m \in DOMAIN farm[f].harvests \ {k}
          BY <1>1, <1>5, <4>1
        <5>2. DOMAIN h = DOMAIN farm[g].harvests \ {k}
          OBVIOUS
        <5> HIDE DEF h
        <5>3. g = f => x.harvests = h
          BY <1>6 DEF FarmOf
        <5>4. QED
          BY <5>1, <5>2, <5>3
      <4> HIDE DEF x
      <4>3. QED
        BY <1>7, <4>1, <4>2, Zenon
    <3>4. QED
      BY <3>1, <3>2, <3>3
  <2>4. CASE \E k \in Mints, at \in Starts, n \in Lengths, tps \in Rates :
               NewHarvestPeriod(g, k, at, n, tps)
    <3>1. PICK k \in Mints, at \in Starts, n \in Lengths, tps \in Rates :
                 NewHarvestPeriod(g, k, at, n, tps)
      BY <2>4
    <3>2. PICK new : farm' = [farm EXCEPT ![g].harvests[k] = new]
      BY <3>1, Zenon DEF NewHarvestPeriod
    <3> DEFINE h == [farm[g].harvests EXCEPT ![k] = new]
               x == [farm[g] EXCEPT !.harvests = h]
    <3>3. farm' = [farm EXCEPT ![g] = x]
      BY <3>2
    <3>4. g = f => m \in DOMAIN x.harvests
      <4>1. DOMAIN h = DOMAIN farm[g].harvests
        OBVIOUS
      <4> HIDE DEF h
      <4>2. g = f => x.harvests = h
        BY <1>6 DEF FarmOf
      <4>3. QED
        BY <1>1, <4>1, <4>2
    <3> HIDE DEF x
    <3>5. QED
      BY <1>7, <3>3, <3>4, Zenon
  <2>5. CASE \/ \E h \in {t \in Farms : <<g, t>> \in Pairs} : WhitelistFarmForCompounding(g, h)
             \/ \E h \in Farms : DewhitelistFarmForCompounding(g, h)
    <3>1. UNCHANGED farm
      BY <2>5, Zenon DEF WhitelistFarmForCompounding, DewhitelistFarmForCompounding
    <3>2. QED
      BY <1>1, <1>4, <3>1
  <2>6. QED
    BY <1>8, <2>1, <2>2, <2>3, <2>4, <2>5 DEF AdminNext
<1>9. ASSUME NEW g \in Farms, TakeSnapshot(g) PROVE FALSE
  <2> DEFINE b == Push(farm[g].snapshots, stakeVault[g], slot)
             x == [farm[g] EXCEPT !.snapshots = b]
  <2>1. farm' = [farm EXCEPT ![g] = x]
    BY <1>9 DEF TakeSnapshot
  <2>2. g = f => m \in DOMAIN x.harvests
    BY <1>1, <1>6 DEF FarmOf
  <2> HIDE DEF x
  <2>3. QED
    BY <1>7, <2>1, <2>2, Zenon
<1>10. CASE UNCHANGED farm
  BY <1>1, <1>4, <1>10
<1>11. \/ UNCHANGED farm
       \/ \E g \in Farms : AdminNext(g) \/ TakeSnapshot(g)
  <2>1. ASSUME NEW g \in Farms, NEW u \in Users, FarmerNext(g, u) PROVE UNCHANGED farm
    BY <2>1, Zenon DEF FarmerNext, CreateFarmer, UpdateEligibleHarvestUntil, StartFarming, StopFarming,
                ClaimEligibleHarvest, Airdrop, CompoundSameFarm, CloseFarmer
  <2>2. ASSUME NEW g, NEW h, NEW u, CompoundAcrossFarms(g, h, u) PROVE UNCHANGED farm
    BY <2>2 DEF CompoundAcrossFarms
  <2>3. Tick => UNCHANGED farm
    BY DEF Tick
  <2>4. UNCHANGED vars => UNCHANGED farm
    BY DEF vars
  <2>5. QED
    BY <2>1, <2>2, <2>3, <2>4 DEF Next
<1>12. QED
  BY <1>8, <1>9, <1>10, <1>11

\* remove_harvest leaves nobody without what they earned: an empty vault means
\* that nobody is owed any of the mint and that no period still releases it.
THEOREM NobodyIsLeftOut == OrderlySpec => RemovalLeavesNobodyOut
<1>1. Inv /\ [OrderlyNext]_vars =>
        [\A f \in Farms, m \in Mints :
           HasHarvest(f, m) /\ ~HasHarvest(f, m)' =>
             Claimable(f, m) = 0 /\ StillToRelease(f, m) = 0]_vars
  <2>1. ASSUME Inv, [OrderlyNext]_vars, NEW f \in Farms, NEW m \in Mints,
               HasHarvest(f, m), ~HasHarvest(f, m)'
        PROVE  Claimable(f, m) = 0 /\ StillToRelease(f, m) = 0
    <3>1. harvestVault[f][m] = 0
      BY <2>1, OnlyRemoveHarvest DEF Inv, OrderlyNext
    <3>2. /\ Claimable(f, m) \in Nat /\ StillToRelease(f, m) \in Nat
          /\ harvestVault[f][m] >= Claimable(f, m) + StillToRelease(f, m)
      BY <2>1, FundedIsSolvent DEF Inv, Orderly
    <3> DEFINE c == Claimable(f, m)
               r == StillToRelease(f, m)
    <3>3. c \in Nat /\ r \in Nat /\ 0 >= c + r
      BY <3>1, <3>2
    <3> HIDE DEF c, r
    <3>4. c = 0 /\ r = 0
      BY <3>3
    <3>5. QED
      BY <3>4 DEF c, r
  <2>2. QED
    BY <2>1
<1>2. QED
  BY AlwaysInv, <1>1, PTL DEF OrderlySpec, RemovalLeavesNobodyOut

-----------------------------------------------------------------------------
(* Nothing is lost.  What a farmer earned is its credit and what is pending; *)
(* an update turns the second into the first.                              *)

\* Computing the harvest credits exactly what is owed.
LEMMA AccrueCredits ==
  ASSUME NEW ms, NEW fr \in FarmerOf(ms), NEW hs, NEW fm \in FarmOf(hs),
         NEW now, FarmInOrder(fm, now), NEW until \in Int,
         \/ until \in Nat /\ fr.nextFrom <= until
         \/ \E a \in Index : /\ until < Nth(fm.snapshots, a).startedAt
                             /\ Nth(fm.snapshots, a).startedAt <= fr.nextFrom,
         NEW m \in hs
  PROVE  Credit(Accrue(fr, fm, until).farmer, m)
           = Credit(fr, m) + Accrued(fm.snapshots, fm.harvests[m], fr.nextFrom, until, fr.staked)
<1> DEFINE known == SyncHarvestMints(fr.harvests, DOMAIN fm.harvests)
           earned == [k \in DOMAIN fm.harvests |->
                        EligibleHarvest(fm.snapshots, fm.harvests[k], fr.nextFrom, until,
                                        fr.staked)]
           sums == [k \in DOMAIN known |-> known[k] + earned[k].tokens]
           b == fm.snapshots
           ps == fm.harvests[m]
           since == fr.nextFrom
           staked == fr.staked
           t == earned[m].tokens
<1>1. /\ b \in Buffer /\ DOMAIN fm.harvests = hs
      /\ ps \in Periods /\ RingInOrder(b, now) /\ OrderAt(ps, now)
  BY DEF FarmOf, FarmInOrder
<1>2. since \in Nat /\ staked \in Nat
  BY DEF FarmerOf
<1>3. Accrue(fr, fm, until).farmer = [fr EXCEPT !.harvests = sums]
  BY DEF Accrue, SetHarvests
<1>4. t = EligibleHarvest(b, ps, since, until, staked).tokens
  BY <1>1
<1>5. known[m] = Credit(fr, m) /\ DOMAIN known = hs
  BY <1>1 DEF SyncHarvestMints, Credit
<1>6. Credit(Accrue(fr, fm, until).farmer, m) = Credit(fr, m) + t
  <2>1. sums[m] = known[m] + t /\ DOMAIN sums = hs
    BY <1>5
  <2> HIDE DEF sums, known, t
  <2>2. [fr EXCEPT !.harvests = sums].harvests = sums
    BY DEF FarmerOf
  <2>3. QED
    BY <1>3, <1>5, <2>1, <2>2 DEF Credit
<1>7. t = Accrued(b, ps, since, until, staked)
  <2>1. \/ until \in Nat /\ since <= until
        \/ \E a \in Index : until < Nth(b, a).startedAt /\ Nth(b, a).startedAt <= since
    OBVIOUS
  <2> HIDE DEF t, b, ps, since, staked
  <2>2. QED
    BY <1>1, <1>2, <1>4, <2>1, AccruedIsPaid
<1>8. QED
  BY <1>6, <1>7

\* What a farmer earned up to the slot before `now` and was not credited.
Pending(fr, b, ps, now) ==
  IF VestingOver(fr, b) = {}
    THEN Accrued(b, ps, fr.nextFrom, now - 1, fr.staked)
    ELSE LET at == (CHOOSE s \in VestingOver(fr, b) : TRUE).startedAt
         IN  Accrued(b, ps, fr.nextFrom, at - 1, fr.staked)
               + Accrued(b, ps, at, now - 1, fr.staked + fr.vested)

\* What is pending is a number of tokens, before and after vesting.
LEMMA PendingType ==
  ASSUME NEW ms, NEW fr \in FarmerOf(ms), NEW b \in Buffer, NEW ps \in Periods, NEW now \in Nat
  PROVE  /\ Pending(fr, b, ps, now) \in Nat
         /\ \A s \in VestingOver(fr, b) :
              Pending(fr, b, ps, now)
                = Accrued(b, ps, fr.nextFrom, s.startedAt - 1, fr.staked)
                    + Accrued(b, ps, s.startedAt, now - 1, fr.staked + fr.vested)
<1> DEFINE last == now - 1
           more == fr.staked + fr.vested
<1>1. fr.nextFrom \in Int /\ fr.staked \in Nat /\ last \in Int /\ more \in Nat
  BY AccountType
<1> HIDE DEF last, more
<1>2. CASE VestingOver(fr, b) = {}
  <2>1. Accrued(b, ps, fr.nextFrom, last, fr.staked) \in Nat
    BY <1>1, AccruedType
  <2>2. QED
    BY <1>2, <2>1 DEF Pending, last
<1>3. CASE VestingOver(fr, b) # {}
  <2>1. PICK s : s \in VestingOver(fr, b)
    BY <1>3
  <2>2. s.startedAt \in Nat /\ VestingOver(fr, b) = {s}
    BY <2>1, VestingOverType
  <2>3. (CHOOSE x \in VestingOver(fr, b) : TRUE) = s
    BY <2>2
  <2> DEFINE before == s.startedAt - 1
             at == s.startedAt
  <2>4. Pending(fr, b, ps, now) = Accrued(b, ps, fr.nextFrom, before, fr.staked)
                                    + Accrued(b, ps, at, last, more)
    BY <1>3, <2>3, Zenon DEF Pending, last, more
  <2>5. before \in Int /\ at \in Int
    BY <2>2
  <2> HIDE DEF before, at
  <2>6. Accrued(b, ps, fr.nextFrom, before, fr.staked) \in Nat
    BY <1>1, <2>5, AccruedType
  <2>7. Accrued(b, ps, at, last, more) \in Nat
    BY <1>1, <2>5, AccruedType
  <2>8. \A x \in VestingOver(fr, b) : x = s
    BY <2>2
  <2>9. QED
    BY <2>4, <2>6, <2>7, <2>8 DEF before, at, last, more
<1>4. QED
  BY <1>2, <1>3

\* What is pending does not depend on the credit.
LEMMA PendingOfSame ==
  ASSUME NEW fr, NEW new, Keeps(fr, new), NEW b, NEW ps, NEW now
  PROVE  Pending(new, b, ps, now) = Pending(fr, b, ps, now)
<1>1. VestingOver(new, b) = VestingOver(fr, b)
  BY DEF Keeps, VestingOver
<1>2. QED
  BY <1>1 DEF Keeps, Pending

\* Staking what vested pays what was pending with the stake before it.
LEMMA PromoteCredits ==
  ASSUME NEW fr, NEW fm, NEW now, InFarm(fr, fm, now), NEW m \in DOMAIN fm.harvests
  PROVE  LET p == Promote(fr, fm).farmer
             b == fm.snapshots
         IN  /\ IsFarmer(p, Mints) /\ VestingOver(p, b) = {} /\ p.nextFrom <= now + 1
             /\ Credit(p, m) + Accrued(b, fm.harvests[m], p.nextFrom, now - 1, p.staked)
                  = Credit(fr, m) + Pending(fr, b, fm.harvests[m], now)
<1> DEFINE b == fm.snapshots
           ps == fm.harvests[m]
           p == Promote(fr, fm).farmer
           last == now - 1
<1>1. PICK ms \in SUBSET Mints : fr \in FarmerOf(ms)
  BY DEF InFarm, IsFarmer
<1>2. PICK hs \in SUBSET Mints : fm \in FarmOf(hs)
  BY DEF InFarm, IsFarm
<1>3. /\ b \in Buffer /\ DOMAIN fm.harvests = hs /\ ps \in Periods /\ m \in hs
      /\ now \in Nat /\ last \in Int /\ FarmInOrder(fm, now) /\ RingInOrder(b, now)
      /\ Near(fr, b, now)
  BY <1>2 DEF FarmOf, InFarm, FarmInOrder
<1>4. CASE VestingOver(fr, b) = {}
  <2>1. p = fr
    BY <1>4, EndOfVestingByRing DEF Promote
  <2>2. IsFarmer(fr, Mints) /\ fr.nextFrom <= now + 1
    BY DEF InFarm, Near
  <2>3. QED
    BY <1>4, <2>1, <2>2 DEF Pending
<1>5. CASE VestingOver(fr, b) # {}
  <2> DEFINE s == CHOOSE s \in EndOfVesting(fr, fm) : TRUE
             until == s.startedAt - 1
             a == Accrue(fr, fm, until)
             since == fr.nextFrom
             less == fr.staked
             more == fr.staked + fr.vested
  <2>1. s \in EndOfVesting(fr, fm) /\ s \in VestingOver(fr, b)
    BY <1>5, EndOfVestingByRing
  <2>2. /\ s.startedAt \in Nat /\ until \in Int /\ since \in Nat /\ less \in Nat /\ more \in Nat
        /\ fr.vested \in Nat /\ since <= s.startedAt
    BY <1>1, <1>3, <2>1, VestingOverType, AccountType DEF Near
  <2>3. Promote(fr, fm) = [a EXCEPT !.farmer.nextFrom = s.startedAt,
                                    !.farmer.staked   = @ + fr.vested,
                                    !.farmer.vested   = 0]
    BY <2>1 DEF Promote
  <2>4. a = [ok |-> a.ok, farmer |-> a.farmer]
    BY DEF Accrue, SetHarvests
  <2> HIDE DEF a, s
  <2>5. PICK k \in Index : s = Nth(b, k)
    BY <1>1, <1>3, <2>1, VestingOverType
  <2>6. \/ until \in Nat /\ fr.nextFrom <= until
        \/ \E j \in Index : /\ until < Nth(fm.snapshots, j).startedAt
                            /\ Nth(fm.snapshots, j).startedAt <= fr.nextFrom
    <3>1. CASE since = s.startedAt
      <4>1. until < Nth(b, k).startedAt /\ Nth(b, k).startedAt <= since
        BY <2>2, <2>5, <3>1
      <4>2. QED
        BY <4>1
    <3>2. CASE since # s.startedAt
      <4>1. until \in Nat /\ since <= until
        BY ONLY <2>2, <3>2
      <4>2. QED
        BY <4>1
    <3>3. QED
      BY <3>1, <3>2
  <2>7. Credit(a.farmer, m) = Credit(fr, m) + Accrued(b, ps, since, until, less)
    <3> HIDE DEF until
    <3>1. QED
      BY <1>1, <1>2, <1>3, <2>2, <2>6, AccrueCredits DEF a
  <2>8. a.farmer \in FarmerOf(hs) /\ Keeps(fr, a.farmer)
    <3>1. a.ok
      <4>1. \/ fr.nextFrom <= until
            \/ \E j \in Index : /\ until < Nth(fm.snapshots, j).startedAt
                                /\ Nth(fm.snapshots, j).startedAt <= fr.nextFrom
        BY <2>6
      <4>2. QED
        BY <1>1, <1>2, <1>3, <2>2, <4>1, AccrueSucceeds DEF a
    <3>2. QED
      BY <1>1, <1>2, <2>2, <3>1, AccrueEffect DEF a
  <2>9. p = [a.farmer EXCEPT !.nextFrom = s.startedAt, !.staked = @ + fr.vested, !.vested = 0]
    BY <2>3, <2>4
  <2> HIDE DEF p, until
  <2>10. /\ p.nextFrom = s.startedAt /\ p.staked = more /\ p.vested = 0
         /\ p.harvests = a.farmer.harvests /\ p \in FarmerOf(hs)
    <3> DEFINE q == a.farmer
    <3>1. /\ q \in [staked : Nat, vested : Nat, vestedAt : Nat, nextFrom : Nat,
                    harvests : [hs -> Nat]]
          /\ q.staked = less
      BY <2>8 DEF FarmerOf, Keeps
    <3> HIDE DEF q
    <3>2. p = [q EXCEPT !.nextFrom = s.startedAt, !.staked = @ + fr.vested, !.vested = 0]
      BY <2>9 DEF q
    <3>3. /\ p.nextFrom = s.startedAt /\ p.staked = more /\ p.vested = 0
          /\ p.vestedAt = q.vestedAt /\ p.harvests = q.harvests
      BY <3>1, <3>2
    <3>4. p = [staked |-> p.staked, vested |-> p.vested, vestedAt |-> p.vestedAt,
               nextFrom |-> p.nextFrom, harvests |-> p.harvests]
      BY <3>1, <3>2, Zenon
    <3>5. /\ p.staked \in Nat /\ p.vested \in Nat /\ p.vestedAt \in Nat /\ p.nextFrom \in Nat
          /\ p.harvests \in [hs -> Nat]
      BY <2>2, <3>1, <3>3
    <3> HIDE DEF p
    <3>6. p \in FarmerOf(hs)
      BY <3>4, <3>5 DEF FarmerOf
    <3>7. QED
      BY <3>3, <3>6 DEF q
  <2>11. VestingOver(p, b) = {}
    BY <2>10 DEF VestingOver
  <2>12. Credit(p, m) = Credit(fr, m) + Accrued(b, ps, since, until, less)
    BY <2>7, <2>10 DEF Credit
  <2> DEFINE A == Accrued(b, ps, since, until, less)
             B == Accrued(b, ps, s.startedAt, last, more)
  <2>13. Pending(fr, b, ps, now) = A + B
    <3>1. QED
      BY <1>1, <1>3, <2>1, PendingType DEF until
  <2>14. A \in Nat /\ Credit(fr, m) \in Nat
    BY <1>1, <1>3, <2>2, AccruedType, AccountType
  <2>15. B \in Nat
    BY <1>3, <2>2, AccruedType
  <2>16. Accrued(b, ps, p.nextFrom, now - 1, p.staked) = B
    BY <2>10
  <2>17. IsFarmer(p, Mints) /\ p.nextFrom <= now + 1
    <3>1. s.startedAt <= now
      BY <1>3, <2>5, NthIsPast
    <3>2. QED
      BY <1>2, <1>3, <2>2, <2>10, <3>1 DEF IsFarmer
  <2> DEFINE c == Credit(fr, m)
  <2>18. Credit(p, m) + B = c + (A + B)
    <3>1. c \in Nat /\ Credit(p, m) = c + A
      BY <2>12, <2>14
    <3> HIDE DEF A, B, c
    <3>2. QED
      BY <2>14, <2>15, <3>1
  <2>19. QED
    BY <2>11, <2>13, <2>16, <2>17, <2>18 DEF p
<1>6. QED
  BY <1>4, <1>5

\* What a farmer earned is its credit and what is pending.
LEMMA EarnedIsCredited ==
  ASSUME NEW fr, NEW fm, NEW now, InFarm(fr, fm, now), NEW m \in DOMAIN fm.harvests
  PROVE  /\ EarnedSoFar(fr, fm, m, now) = Credit(fr, m) + Pending(fr, fm.snapshots, fm.harvests[m], now)
         /\ EarnedSoFar(fr, fm, m, now) \in Nat
         /\ Credit(fr, m) \in Nat /\ Pending(fr, fm.snapshots, fm.harvests[m], now) \in Nat
<1> DEFINE b == fm.snapshots
           ps == fm.harvests[m]
           p == Promote(fr, fm).farmer
           last == now - 1
           paid == EligibleHarvest(b, ps, p.nextFrom, last, p.staked).tokens
<1>1. PICK ms \in SUBSET Mints : fr \in FarmerOf(ms)
  BY DEF InFarm, IsFarmer
<1>2. PICK hs \in SUBSET Mints : fm \in FarmOf(hs)
  BY DEF InFarm, IsFarm
<1>3. /\ b \in Buffer /\ ps \in Periods /\ now \in Nat /\ last \in Int
      /\ RingInOrder(b, now) /\ OrderAt(ps, now)
  BY <1>2 DEF FarmOf, InFarm, FarmInOrder
<1>4. /\ IsFarmer(p, Mints)
      /\ Credit(p, m) + Accrued(b, ps, p.nextFrom, last, p.staked) = Credit(fr, m) + Pending(fr, b, ps, now)
  BY PromoteCredits
<1>5. PICK ks \in SUBSET Mints : p \in FarmerOf(ks)
  BY <1>4 DEF IsFarmer
<1>6. p.nextFrom \in Nat /\ p.staked \in Nat
  BY <1>5, AccountType
<1>7. EarnedSoFar(fr, fm, m, now) = Credit(p, m) + IF p.nextFrom < now THEN paid ELSE 0
  BY DEF EarnedSoFar
<1> HIDE DEF p, b, ps
<1>8. (IF p.nextFrom < now THEN paid ELSE 0) = Accrued(b, ps, p.nextFrom, last, p.staked)
  <2>1. CASE p.nextFrom < now
    <3>1. last \in Nat /\ p.nextFrom <= last
      BY <1>3, <1>6, <2>1
    <3> HIDE DEF last
    <3>2. paid = Accrued(b, ps, p.nextFrom, last, p.staked)
      BY <1>3, <1>6, <3>1, AccruedIsPaid
    <3>3. QED
      BY <2>1, <3>2
  <2>2. CASE ~(p.nextFrom < now)
    <3>1. ~(p.nextFrom <= last)
      BY <1>3, <1>6, <2>2
    <3>2. QED
      BY <2>2, <3>1 DEF Accrued
  <2>3. QED
    BY <2>1, <2>2
<1>9. Credit(fr, m) \in Nat
  BY <1>1, AccountType
<1>10. Pending(fr, b, ps, now) \in Nat
  BY <1>1, <1>3, PendingType
<1>11. QED
  BY <1>4, <1>7, <1>8, <1>9, <1>10 DEF b, ps

\* An update credits all that was pending, but for the one token that rounding
\* may cost when it stops in the past.
LEMMA UpdateCredits ==
  ASSUME NEW fr, NEW fm, NEW now, InFarm(fr, fm, now), NEW current \in Nat, current <= now,
         NEW m \in DOMAIN fm.harvests
  PROVE  LET new    == CheckVestedAndUpdate(fr, fm, current).farmer
             b      == fm.snapshots
             ps     == fm.harvests[m]
             before == Credit(fr, m) + Pending(fr, b, ps, now)
         IN  /\ Credit(new, m) + Pending(new, b, ps, now) + 1 >= before
             /\ current = now => Credit(new, m) >= before
<1> DEFINE b == fm.snapshots
           ps == fm.harvests[m]
           pr == Promote(fr, fm)
           p == pr.farmer
           up == UpdateEligible(p, fm, current)
           new == up.farmer
           all == CheckVestedAndUpdate(fr, fm, current)
           last == now - 1
           before == Credit(fr, m) + Pending(fr, b, ps, now)
           since == p.nextFrom
           staked == p.staked
           c == Credit(p, m)
           whole == Accrued(b, ps, since, last, staked)
<1>1. all.farmer = new
  <2>1. up = [ok |-> up.ok, farmer |-> up.farmer]
    BY Zenon DEF UpdateEligible, Accrue, SetHarvests
  <2>2. all = [up EXCEPT !.ok = @ /\ pr.ok]
    BY DEF CheckVestedAndUpdate, UpdatePromoted
  <2> HIDE DEF up, pr, all
  <2>3. QED
    BY <2>1, <2>2
<1>2. PICK hs \in SUBSET Mints : fm \in FarmOf(hs)
  BY DEF InFarm, IsFarm
<1>3. /\ b \in Buffer /\ DOMAIN fm.harvests = hs /\ ps \in Periods /\ m \in hs
      /\ now \in Nat /\ last \in Int /\ FarmInOrder(fm, now) /\ RingInOrder(b, now)
  BY <1>2 DEF FarmOf, InFarm, FarmInOrder
<1>4. /\ IsFarmer(p, Mints) /\ VestingOver(p, b) = {}
      /\ c + whole = before
  BY PromoteCredits, Zenon
<1>5. PICK ks \in SUBSET Mints : p \in FarmerOf(ks)
  BY <1>4 DEF IsFarmer
<1>6. since \in Nat /\ staked \in Nat /\ c \in Nat
  BY <1>5, AccountType
<1>7. whole \in Nat
  BY <1>3, <1>6, AccruedType
<1>8. VestingOver(all.farmer, b) = {}
  <2>1. [k \in Mints |-> 0] \in [Mints -> Nat]
    OBVIOUS
  <2>2. QED
    BY <2>1, SettlesUpdate, Zenon
<1>9. Pending(all.farmer, b, ps, now) = Accrued(b, ps, new.nextFrom, last, new.staked)
  BY <1>1, <1>8 DEF Pending
<1>10. CASE since >= current
  <2>1. new = p
    BY <1>10 DEF UpdateEligible
  <2>2. current = now => whole = 0
    <3>1. current = now => ~(since <= last)
      BY <1>3, <1>6, <1>10
    <3>2. QED
      BY <3>1 DEF Accrued
  <2>3. Pending(all.farmer, b, ps, now) = whole /\ Credit(all.farmer, m) = c
    BY <1>1, <1>9, <2>1
  <2> HIDE DEF whole, before, c, all, p
  <2>4. QED
    BY <1>4, <1>6, <1>7, <2>2, <2>3 DEF all, before
<1>11. CASE ~(since >= current)
  <2> DEFINE a == Accrue(p, fm, current)
             next == current + 1
             first == Accrued(b, ps, since, current, staked)
             rest == Accrued(b, ps, next, last, staked)
  <2>1. UpdateEligible(p, fm, current) = [a EXCEPT !.farmer.nextFrom = current + 1]
    BY <1>11 DEF UpdateEligible
  <2>2. a = [ok |-> a.ok, farmer |-> a.farmer]
    BY DEF Accrue, SetHarvests
  <2> HIDE DEF a, pr
  <2>3. new = [a.farmer EXCEPT !.nextFrom = next]
    BY <2>1, <2>2
  <2>4. since <= current /\ current \in Int /\ next \in Nat
    BY <1>6, <1>11
  <2>5. Credit(a.farmer, m) = c + first
    BY <1>2, <1>3, <1>5, <2>4, AccrueCredits DEF a
  <2>6. a.farmer \in FarmerOf(hs) /\ Keeps(p, a.farmer)
    <3>1. a.ok
      BY <1>2, <1>3, <1>5, <2>4, AccrueSucceeds DEF a
    <3>2. QED
      BY <1>2, <1>5, <2>4, <3>1, AccrueEffect DEF a
  <2> HIDE DEF up
  <2>7. new.nextFrom = next /\ new.staked = staked /\ new.harvests = a.farmer.harvests
    <3>1. a.farmer \in [staked : Nat, vested : Nat, vestedAt : Nat, nextFrom : Nat,
                        harvests : [hs -> Nat]]
      BY <2>6 DEF FarmerOf
    <3>2. a.farmer.staked = staked
      BY <2>6 DEF Keeps
    <3> HIDE DEF new, next, staked
    <3>3. QED
      BY <2>3, <3>1, <3>2
  <2>8. Credit(new, m) = c + first
    BY <2>5, <2>7 DEF Credit
  <2>9. Credit(all.farmer, m) = c + first /\ Pending(all.farmer, b, ps, now) = rest
    BY <1>1, <1>9, <2>7, <2>8
  <2> HIDE DEF new, next, staked, since, last, b, ps, c
  <2>10. first \in Nat /\ rest \in Nat
    <3>1. next \in Int /\ current \in Int /\ since \in Int
      BY <1>6, <2>4
    <3>2. first \in Nat
      BY <1>3, <1>6, <3>1, AccruedType
    <3>3. rest \in Nat
      BY <1>3, <1>6, <3>1, AccruedType
    <3>4. QED
      BY <3>2, <3>3
  <2>11. CASE current = now
    <3>1. whole <= first
      <4>1. last <= current
        BY <1>3, <2>11 DEF last
      <4>2. QED
        BY <1>3, <1>6, <2>4, <4>1, AccruedGrows
    <3> HIDE DEF whole, first, rest, before, all
    <3>2. QED
      BY <1>4, <1>6, <1>7, <2>9, <2>10, <3>1 DEF all, before, b, ps
  <2>12. CASE current # now
    <3>1. whole <= first + rest + 1
      <4>1. current <= last
        BY <1>3, <2>12 DEF last
      <4>2. whole <= (first + rest) + 1
        BY <1>3, <1>6, <2>4, <4>1, AccruedSplits DEF next
      <4> HIDE DEF whole, first, rest
      <4>3. QED
        BY <1>7, <2>10, <4>2
    <3> HIDE DEF whole, first, rest, before, all
    <3>2. QED
      BY <1>4, <1>6, <1>7, <2>9, <2>10, <2>12, <3>1 DEF all, before, b, ps
  <2>13. QED
    BY <2>11, <2>12
<1>12. QED
  BY <1>10, <1>11

\* What a farmer owns of a mint, without what is pending.
Owns(fr, fm, mint, m) ==
  (IF m = mint THEN TotalDeposited(fr) ELSE 0)
    + (IF m \in DOMAIN fm.harvests THEN Credit(fr, m) ELSE 0)

\* What a farmer has in a farm is what it owns and what is pending.
LEMMA HoldingParts ==
  ASSUME NEW fr, NEW fm, NEW now, InFarm(fr, fm, now), NEW mint, NEW m
  PROVE  /\ Holding(fr, fm, mint, m, now) \in Nat /\ Owns(fr, fm, mint, m) \in Nat
         /\ Holding(fr, fm, mint, m, now) >= Owns(fr, fm, mint, m)
         /\ m \in DOMAIN fm.harvests =>
              /\ Pending(fr, fm.snapshots, fm.harvests[m], now) \in Nat
              /\ Holding(fr, fm, mint, m, now)
                   = Owns(fr, fm, mint, m) + Pending(fr, fm.snapshots, fm.harvests[m], now)
         /\ m \notin DOMAIN fm.harvests => Holding(fr, fm, mint, m, now) = Owns(fr, fm, mint, m)
<1> DEFINE d == IF m = mint THEN TotalDeposited(fr) ELSE 0
           H == Holding(fr, fm, mint, m, now)
           O == Owns(fr, fm, mint, m)
           c == Credit(fr, m)
           p == Pending(fr, fm.snapshots, fm.harvests[m], now)
           e == EarnedSoFar(fr, fm, m, now)
<1>1. PICK ms \in SUBSET Mints : fr \in FarmerOf(ms)
  BY DEF InFarm, IsFarmer
<1>2. d \in Nat /\ fr # None /\ c \in Nat
  BY <1>1, AccountType, RecordsExist DEF TotalDeposited, InFarm
<1>3. H = d + IF m \in DOMAIN fm.harvests THEN e ELSE 0
  BY <1>2 DEF Holding
<1>4. O = d + IF m \in DOMAIN fm.harvests THEN c ELSE 0
  BY DEF Owns
<1>5. m \in DOMAIN fm.harvests => e = c + p /\ p \in Nat
  BY EarnedIsCredited
<1> HIDE DEF d, H, O, c, p, e
<1>6. /\ H \in Nat /\ O \in Nat /\ H >= O
      /\ m \in DOMAIN fm.harvests => p \in Nat /\ H = O + p
      /\ m \notin DOMAIN fm.harvests => H = O
  BY <1>2, <1>3, <1>4, <1>5
<1>7. QED
  BY <1>6 DEF H, O, p

\* What an update makes of it.
LEMMA UpdateHolds ==
  ASSUME NEW fr, NEW fm, NEW now, InFarm(fr, fm, now), NEW current \in Nat, current <= now,
         NEW mint, NEW m
  PROVE  LET new == CheckVestedAndUpdate(fr, fm, current).farmer
         IN  /\ InFarm(new, fm, now)
             /\ Holding(new, fm, mint, m, now) + 1 >= Holding(fr, fm, mint, m, now)
             /\ current = now => Owns(new, fm, mint, m) >= Holding(fr, fm, mint, m, now)
<1> DEFINE new == CheckVestedAndUpdate(fr, fm, current).farmer
<1>1. PICK ms \in SUBSET Mints : fr \in FarmerOf(ms)
  BY DEF InFarm, IsFarmer
<1>2. PICK hs \in SUBSET Mints : fm \in FarmOf(hs)
  BY DEF InFarm, IsFarm
<1>3. FarmInOrder(fm, now) /\ now \in Nat
  BY DEF InFarm
<1>4. InFarm(new, fm, now)
  <2> DEFINE v == [k \in Mints |-> 0]
  <2>1. v \in [Mints -> Nat]
    OBVIOUS
  <2> HIDE DEF v
  <2>2. /\ Settles(fr, new, fm, now, v, v)
        /\ IsFarmer(new, Mints) /\ VestingOver(new, fm.snapshots) = {}
    BY <2>1, SettlesUpdate, Zenon
  <2> HIDE DEF new
  <2>3. new.nextFrom <= now + 1
    BY <2>2, RecordsExist DEF Settles
  <2>4. QED
    BY <2>2, <2>3, InFarmWhenStaked
<1>5. TotalDeposited(new) = TotalDeposited(fr)
  <2>1. CheckVestedAndUpdate(fr, fm, current).ok
    BY <1>1, <1>2, <1>3, UpdateSucceeds
  <2>2. QED
    BY <1>1, <1>2, <2>1, UpdateEffect, UpdateTotal
<1>6. ASSUME m \in DOMAIN fm.harvests
      PROVE  LET before == Credit(fr, m) + Pending(fr, fm.snapshots, fm.harvests[m], now)
             IN  /\ Credit(new, m) + Pending(new, fm.snapshots, fm.harvests[m], now) + 1 >= before
                 /\ current = now => Credit(new, m) >= before
  BY <1>6, UpdateCredits
<1> HIDE DEF new
<1> DEFINE H == Holding(fr, fm, mint, m, now)
           G == Holding(new, fm, mint, m, now)
           O == Owns(fr, fm, mint, m)
           P == Owns(new, fm, mint, m)
           p == Pending(fr, fm.snapshots, fm.harvests[m], now)
           q == Pending(new, fm.snapshots, fm.harvests[m], now)
           c == Credit(fr, m)
           e == Credit(new, m)
           d == IF m = mint THEN TotalDeposited(fr) ELSE 0
<1>7. d \in Nat /\ c \in Nat /\ e \in Nat
  <2>1. PICK ks \in SUBSET Mints : new \in FarmerOf(ks)
    BY <1>4 DEF InFarm, IsFarmer
  <2>2. QED
    BY <1>1, <2>1, AccountType DEF TotalDeposited
<1>8. /\ O = d + IF m \in DOMAIN fm.harvests THEN c ELSE 0
      /\ P = d + IF m \in DOMAIN fm.harvests THEN e ELSE 0
  BY <1>5 DEF Owns
<1>9. /\ H \in Nat /\ G \in Nat
      /\ m \in DOMAIN fm.harvests => p \in Nat /\ q \in Nat /\ H = O + p /\ G = P + q
      /\ m \notin DOMAIN fm.harvests => H = O /\ G = P
  BY <1>4, HoldingParts
<1>10. m \in DOMAIN fm.harvests => e + q + 1 >= c + p /\ (current = now => e >= c + p)
  BY <1>6
<1> HIDE DEF H, G, O, P, p, q, c, e, d
<1>11. G + 1 >= H /\ (current = now => P >= H)
  <2>1. CASE m \in DOMAIN fm.harvests
    BY <1>7, <1>8, <1>9, <1>10, <2>1
  <2>2. CASE m \notin DOMAIN fm.harvests
    BY <1>7, <1>8, <1>9, <2>2
  <2>3. QED
    BY <2>1, <2>2
<1>12. QED
  BY <1>4, <1>11 DEF new, G, H, P

-----------------------------------------------------------------------------
(* What a change of the farm makes of what a farmer has in it.             *)

\* A snapshot keeps the end of vesting, or is the end of vesting.
LEMMA VestingAfterPush ==
  ASSUME NEW ms, NEW fr \in FarmerOf(ms), NEW b \in Buffer, NEW amount \in Nat,
         NEW now \in Nat, now > 0, RingInOrder(b, now), RingInOrder(Push(b, amount, now), now),
         fr.vested > 0 => Oldest(Push(b, amount, now)).startedAt <= fr.vestedAt
  PROVE  LET c == Push(b, amount, now)
         IN  \/ VestingOver(fr, c) = VestingOver(fr, b)
             \/ /\ VestingOver(fr, b) = {}
                /\ \E s \in VestingOver(fr, c) : s.startedAt = now
<1> DEFINE c == Push(b, amount, now)
           at == fr.vestedAt
           new == [staked |-> amount, startedAt |-> now]
           n == RingLen - 1
<1>0. fr.vested \in Nat /\ at \in Nat /\ c \in Buffer
  BY AccountType, PushType
<1>1. CASE fr.vested = 0
  BY <1>1 DEF VestingOver
<1>2. CASE fr.vested # 0
  <2>1. /\ VestingOver(fr, c) = FirstSnapshotAfter(c, at)
        /\ VestingOver(fr, b) = FirstSnapshotAfter(b, at)
        /\ Oldest(c).startedAt <= at
    BY <1>0, <1>2 DEF VestingOver
  <2>2. \A k \in Index : Nth(c, k) = IF k = 0 THEN new ELSE Nth(b, k - 1)
    BY PushAges
  <2>3. Latest(c) = new /\ Latest(c).startedAt = now
    BY <1>0, <2>2, EndsOfRing
  <2>4. n \in AgesUpTo(c, at)
    BY <1>0, <2>1, EndsOfRing DEF AgesUpTo
  <2>5. Latest(b).startedAt \in Nat /\ Latest(b).startedAt <= now
    BY EndsOfRing DEF Snapshot, Slot, RingInOrder
  <2>6. \A s \in FirstSnapshotAfter(c, at) : s = new \/ s \in FirstSnapshotAfter(b, at)
    BY <1>0, FirstAfterPush
  <2> HIDE DEF c, n, new
  <2>7. CASE FirstSnapshotAfter(c, at) = {}
    <3>1. now <= at
      BY <2>3, <2>4, <2>7, Zenon DEF FirstSnapshotAfter
    <3>2. Latest(b).startedAt <= at
      BY <1>0, <2>5, <3>1
    <3>3. FirstSnapshotAfter(b, at) = {}
      BY <3>2, NothingAfterLatest
    <3>4. QED
      BY <2>1, <2>7, <3>3 DEF c
  <2>8. CASE FirstSnapshotAfter(c, at) # {}
    <3>1. PICK s : s \in FirstSnapshotAfter(c, at)
      BY <2>8
    <3>2. FirstSnapshotAfter(c, at) = {s}
      BY <1>0, <3>1, FirstAfterType
    <3>3. CASE s \in FirstSnapshotAfter(b, at)
      <4>1. FirstSnapshotAfter(b, at) = {s}
        BY <1>0, <3>3, FirstAfterType
      <4>2. QED
        BY <2>1, <3>2, <4>1 DEF c
    <3>4. CASE s = new
      <4> DEFINE y == Youngest(AgesUpTo(c, at))
                 z == y - 1
      <4>1. y \in AgesUpTo(c, at) /\ y \in Index /\ y > 0 /\ z \in Index /\ Nth(c, z) = s
        BY <1>0, <3>1, <3>2, FirstAfterIsNeighbour, Zenon
      <4> HIDE DEF y
      <4>2. s.startedAt = now /\ Nth(c, 0).startedAt = now /\ 0 \in Index
        BY <1>0, <2>3, <3>4, EndsOfRing DEF new
      <4>3. z = 0
        <5>1. z \in Nat
          BY <4>1 DEF Index
        <5>2. 0 < z => Nth(c, 0).startedAt > Nth(c, z).startedAt \/ Nth(c, z).startedAt = 0
          BY <4>1, <4>2 DEF RingInOrder, c
        <5> HIDE DEF z
        <5>3. ~(0 < z)
          BY <4>1, <4>2, <5>2
        <5>4. QED
          BY <5>1, <5>3
      <4>4. y = 1
        BY <4>1, <4>3 DEF Index
      <4>5. Nth(c, 1).startedAt <= at /\ 1 \in Index
        BY <4>1, <4>4 DEF AgesUpTo
      <4>6. Nth(c, 1) = Nth(b, 0) /\ Nth(b, 0) = Latest(b)
        <5>1. Nth(c, 1) = Nth(b, 1 - 1)
          BY <2>2, <4>5
        <5>2. 1 - 1 = 0
          OBVIOUS
        <5>3. QED
          BY <5>1, <5>2, EndsOfRing
      <4>7. FirstSnapshotAfter(b, at) = {}
        BY <4>5, <4>6, NothingAfterLatest
      <4>8. QED
        BY <2>1, <3>1, <4>2, <4>7 DEF c
    <3>5. QED
      BY <2>6, <3>1, <3>3, <3>4
  <2>9. QED
    BY <2>7, <2>8
<1>3. QED
  BY <1>1, <1>2

\* A snapshot costs no farmer anything whose windows the ring still holds.
LEMMA PendingAfterPush ==
  ASSUME NEW ms, NEW fr \in FarmerOf(ms), NEW b \in Buffer, NEW ps \in Periods,
         NEW amount \in Nat, NEW now \in Nat, now > 0,
         RingInOrder(b, now), RingInOrder(Push(b, amount, now), now),
         IsRemembered(fr, Push(b, amount, now))
  PROVE  Pending(fr, Push(b, amount, now), ps, now) = Pending(fr, b, ps, now)
<1> DEFINE c == Push(b, amount, now)
           last == now - 1
           since == fr.nextFrom
           less == fr.staked
           more == fr.staked + fr.vested
<1>1. /\ since \in Nat /\ less \in Nat /\ more \in Nat /\ last \in Int /\ fr.vested \in Nat
      /\ fr.vestedAt \in Nat /\ c \in Buffer
  BY AccountType, PushType
<1>2. /\ Oldest(c).startedAt \in Nat /\ Oldest(c).startedAt <= since
      /\ fr.vested > 0 => Oldest(c).startedAt <= fr.vestedAt
  BY <1>1, EndsOfRing DEF IsRemembered, Snapshot, Slot
<1>3. ASSUME NEW x \in Int, NEW y \in Int, NEW staked \in Nat, y < now, Oldest(c).startedAt <= x
      PROVE  Accrued(c, ps, x, y, staked) = Accrued(b, ps, x, y, staked)
  <2>1. Owed(c, ps, x, y, staked) = Owed(b, ps, x, y, staked)
    BY <1>3, OwedAfterPush
  <2>2. QED
    BY <2>1 DEF Accrued
<1>4. last < now
  BY <1>1
<1>5. \/ VestingOver(fr, c) = VestingOver(fr, b)
      \/ /\ VestingOver(fr, b) = {}
         /\ \E s \in VestingOver(fr, c) : s.startedAt = now
  BY <1>2, VestingAfterPush
<1> HIDE DEF c
<1>6. CASE VestingOver(fr, c) = {} /\ VestingOver(fr, b) = {}
  BY <1>1, <1>2, <1>3, <1>4, <1>6 DEF Pending, c
<1>7. ASSUME NEW s \in VestingOver(fr, b), VestingOver(fr, c) = VestingOver(fr, b)
      PROVE  Pending(fr, c, ps, now) = Pending(fr, b, ps, now)
  <2> DEFINE at == s.startedAt
             until == at - 1
  <2>1. at \in Nat /\ at > fr.vestedAt /\ at <= now /\ s \in VestingOver(fr, c)
    BY <1>7, VestingOverType, NthIsPast
  <2>2. fr.vested > 0
    BY <1>1, <1>7 DEF VestingOver
  <2>3. Oldest(c).startedAt <= at /\ until \in Int /\ until < now
    BY <1>1, <1>2, <2>1, <2>2
  <2>4. /\ Pending(fr, c, ps, now) = Accrued(c, ps, since, until, less) + Accrued(c, ps, at, last, more)
        /\ Pending(fr, b, ps, now) = Accrued(b, ps, since, until, less) + Accrued(b, ps, at, last, more)
    BY <1>1, <1>7, <2>1, PendingType
  <2> HIDE DEF at, until, since, less, more, last
  <2>5. Accrued(c, ps, since, until, less) = Accrued(b, ps, since, until, less)
    BY <1>1, <1>2, <1>3, <2>3 DEF since
  <2>6. Accrued(c, ps, at, last, more) = Accrued(b, ps, at, last, more)
    BY <1>1, <1>3, <1>4, <2>1, <2>3 DEF at
  <2>7. QED
    BY <2>4, <2>5, <2>6
<1>8. ASSUME NEW s \in VestingOver(fr, c), s.startedAt = now, VestingOver(fr, b) = {}
      PROVE  Pending(fr, c, ps, now) = Pending(fr, b, ps, now)
  <2>1. /\ Pending(fr, c, ps, now)
             = Accrued(c, ps, since, s.startedAt - 1, less) + Accrued(c, ps, s.startedAt, last, more)
        /\ Pending(fr, b, ps, now) = Accrued(b, ps, since, last, less)
    BY <1>1, <1>8, PendingType DEF Pending
  <2>2. /\ Pending(fr, c, ps, now) = Accrued(c, ps, since, last, less) + Accrued(c, ps, now, last, more)
    BY <1>8, <2>1
  <2>3. Accrued(c, ps, now, last, more) = 0
    BY <1>1, <1>4 DEF Accrued
  <2>4. Accrued(c, ps, since, last, less) \in Nat
    <3>1. since \in Int
      BY <1>1
    <3> HIDE DEF since, last, less
    <3>2. QED
      BY <1>1, <3>1, AccruedType
  <2>5. Accrued(c, ps, since, last, less) = Accrued(b, ps, since, last, less)
    BY <1>1, <1>2, <1>3, <1>4
  <2>6. QED
    BY <2>1, <2>2, <2>3, <2>4, <2>5
<1>9. QED
  BY <1>5, <1>6, <1>7, <1>8 DEF c

\* Nor does an edit of the periods that releases as much in the slots since the
\* farmer's cursor.
LEMMA PendingAtSameRates ==
  ASSUME NEW ms, NEW fr \in FarmerOf(ms), NEW b \in Buffer, NEW now \in Nat, RingInOrder(b, now),
         NEW ps \in Periods, NEW qs \in Periods, Near(fr, b, now),
         \A s \in Int : s < now /\ fr.nextFrom <= s => TpsAt(qs, s) = TpsAt(ps, s)
  PROVE  Pending(fr, b, qs, now) = Pending(fr, b, ps, now)
<1> DEFINE last == now - 1
           since == fr.nextFrom
           less == fr.staked
           more == fr.staked + fr.vested
<1>1. /\ since \in Nat /\ less \in Nat /\ more \in Nat /\ last \in Int /\ last < now
  BY AccountType
<1>2. ASSUME NEW x \in Int, NEW y \in Int, NEW staked \in Nat, y < now, since <= x
      PROVE  Accrued(b, qs, x, y, staked) = Accrued(b, ps, x, y, staked)
  <2>1. \A s \in x .. y : s \in Int /\ s < now /\ since <= s
    BY <1>1, <1>2
  <2>2. Owed(b, qs, x, y, staked) = Owed(b, ps, x, y, staked)
    BY <2>1, OwedAtSameRates
  <2>3. QED
    BY <2>2 DEF Accrued
<1>3. CASE VestingOver(fr, b) = {}
  BY <1>1, <1>2, <1>3 DEF Pending
<1>4. ASSUME NEW s \in VestingOver(fr, b) PROVE Pending(fr, b, qs, now) = Pending(fr, b, ps, now)
  <2> DEFINE at == s.startedAt
             until == at - 1
  <2>1. at \in Nat /\ at <= now /\ until \in Int /\ until < now /\ since <= at
    BY <1>4, VestingOverType, NthIsPast DEF Near
  <2>2. /\ Pending(fr, b, qs, now) = Accrued(b, qs, since, until, less) + Accrued(b, qs, at, last, more)
        /\ Pending(fr, b, ps, now) = Accrued(b, ps, since, until, less) + Accrued(b, ps, at, last, more)
    BY <1>1, <1>4, PendingType
  <2> HIDE DEF at, until, since, less, more, last
  <2>3. QED
    BY <1>1, <1>2, <2>1, <2>2
<1>5. QED
  BY <1>3, <1>4

\* In the next slot at least as much is pending.
LEMMA PendingGrows ==
  ASSUME NEW ms, NEW fr \in FarmerOf(ms), NEW b \in Buffer, NEW now \in Nat, RingInOrder(b, now),
         NEW ps \in Periods
  PROVE  Pending(fr, b, ps, now) <= Pending(fr, b, ps, now + 1)
<1> DEFINE last == now - 1
           upto == (now + 1) - 1
           since == fr.nextFrom
           less == fr.staked
           more == fr.staked + fr.vested
<1>1. /\ since \in Nat /\ less \in Nat /\ more \in Nat /\ last \in Int /\ upto \in Int
      /\ last <= upto /\ now + 1 \in Nat
  BY AccountType
<1> HIDE DEF last, upto
<1>2. ASSUME NEW x \in Nat, NEW staked \in Nat
      PROVE  Accrued(b, ps, x, last, staked) <= Accrued(b, ps, x, upto, staked)
  BY <1>1, AccruedGrows
<1>3. CASE VestingOver(fr, b) = {}
  BY <1>1, <1>2, <1>3 DEF Pending, last, upto
<1>4. ASSUME NEW s \in VestingOver(fr, b)
      PROVE  Pending(fr, b, ps, now) <= Pending(fr, b, ps, now + 1)
  <2> DEFINE at == s.startedAt
             until == at - 1
             A == Accrued(b, ps, since, until, less)
             B == Accrued(b, ps, at, last, more)
             C == Accrued(b, ps, at, upto, more)
  <2>1. at \in Nat /\ until \in Int
    BY <1>4, VestingOverType
  <2>2. Pending(fr, b, ps, now) = A + B /\ Pending(fr, b, ps, now + 1) = A + C
    BY <1>1, <1>4, PendingType DEF last, upto
  <2>3. B <= C
    BY <1>1, <1>2, <2>1
  <2>4. A \in Nat /\ B \in Nat /\ C \in Nat
    <3>1. since \in Int /\ at \in Int
      BY <1>1, <2>1
    <3> HIDE DEF at, until, since, less, more
    <3>2. A \in Nat /\ B \in Nat /\ C \in Nat
      BY <1>1, <2>1, <3>1, AccruedType
    <3>3. QED
      BY <3>2
  <2> HIDE DEF A, B, C
  <2>5. QED
    BY <2>2, <2>3, <2>4
<1>5. QED
  BY <1>3, <1>4

\* What a farmer has is kept by a change of the farm that keeps what is pending
\* of every harvest it does not remove, and removes none that is owed.
LEMMA HoldsWhenFarmChanges ==
  ASSUME NEW fr, NEW fm, NEW now, InFarm(fr, fm, now), NEW fm2, NEW now2, InFarm(fr, fm2, now2),
         NEW mint, NEW m,
         m \in DOMAIN fm.harvests =>
           \/ /\ m \in DOMAIN fm2.harvests
              /\ Pending(fr, fm2.snapshots, fm2.harvests[m], now2)
                   >= Pending(fr, fm.snapshots, fm.harvests[m], now)
           \/ Credit(fr, m) + Pending(fr, fm.snapshots, fm.harvests[m], now) = 0
  PROVE  Holding(fr, fm2, mint, m, now2) >= Holding(fr, fm, mint, m, now)
<1> DEFINE d == IF m = mint THEN TotalDeposited(fr) ELSE 0
           c == Credit(fr, m)
           p == Pending(fr, fm.snapshots, fm.harvests[m], now)
           q == Pending(fr, fm2.snapshots, fm2.harvests[m], now2)
           H == Holding(fr, fm, mint, m, now)
           G == Holding(fr, fm2, mint, m, now2)
           O == Owns(fr, fm, mint, m)
           P == Owns(fr, fm2, mint, m)
<1>1. d \in Nat /\ c \in Nat
  <2>1. PICK ms \in SUBSET Mints : fr \in FarmerOf(ms)
    BY DEF InFarm, IsFarmer
  <2>2. QED
    BY <2>1, AccountType DEF TotalDeposited
<1>2. /\ O = d + IF m \in DOMAIN fm.harvests THEN c ELSE 0
      /\ P = d + IF m \in DOMAIN fm2.harvests THEN c ELSE 0
  BY DEF Owns
<1>3. /\ H \in Nat /\ G \in Nat /\ G >= P
      /\ m \in DOMAIN fm.harvests => p \in Nat /\ H = O + p
      /\ m \notin DOMAIN fm.harvests => H = O
      /\ m \in DOMAIN fm2.harvests => q \in Nat /\ G = P + q
  BY HoldingParts
<1>4. m \in DOMAIN fm.harvests => (m \in DOMAIN fm2.harvests /\ q >= p) \/ c + p = 0
  OBVIOUS
<1> HIDE DEF d, c, p, q, H, G, O, P
<1>5. G >= H
  <2>1. CASE m \in DOMAIN fm.harvests /\ m \in DOMAIN fm2.harvests /\ q >= p
    BY <1>1, <1>2, <1>3, <2>1
  <2>2. CASE m \in DOMAIN fm.harvests /\ c + p = 0
    <3>1. c = 0 /\ p = 0
      BY <1>1, <1>3, <2>2
    <3>2. H = d
      BY <1>1, <1>2, <1>3, <2>2, <3>1
    <3>3. QED
      BY <1>1, <1>2, <1>3, <3>2
  <2>3. CASE m \notin DOMAIN fm.harvests
    BY <1>1, <1>2, <1>3, <2>3
  <2>4. QED
    BY <1>4, <2>1, <2>2, <2>3
<1>6. QED
  BY <1>5 DEF G, H

-----------------------------------------------------------------------------
(* What the farmer's own operations make of what it owns.                  *)

\* A deposit is owned.
LEMMA DepositOwns ==
  ASSUME NEW ms, NEW fr \in FarmerOf(ms), NEW current \in Nat, NEW tokens \in Nat,
         NEW fm, NEW mint, NEW m
  PROVE  Owns(AddToVested(fr, current, tokens), fm, mint, m)
           = Owns(fr, fm, mint, m) + IF m = mint THEN tokens ELSE 0
<1> DEFINE x == AddToVested(fr, current, tokens)
<1>1. TotalDeposited(x) = TotalDeposited(fr) + tokens
  BY AddToVestedEffect
<1>2. Credit(x, m) = Credit(fr, m)
  BY DEF AddToVested, FarmerOf, Credit
<1>3. TotalDeposited(fr) \in Nat /\ Credit(fr, m) \in Nat
  BY AccountType DEF TotalDeposited
<1> HIDE DEF x
<1> DEFINE c == IF m \in DOMAIN fm.harvests THEN Credit(fr, m) ELSE 0
<1>4. /\ Owns(x, fm, mint, m) = (IF m = mint THEN TotalDeposited(x) ELSE 0) + c
      /\ Owns(fr, fm, mint, m) = (IF m = mint THEN TotalDeposited(fr) ELSE 0) + c
      /\ c \in Nat
  BY <1>2, <1>3 DEF Owns
<1> HIDE DEF c
<1>5. QED
  BY <1>1, <1>3, <1>4 DEF x

\* What is withdrawn was owned.
LEMMA UnstakeOwns ==
  ASSUME NEW ms, NEW fr \in FarmerOf(ms), NEW max \in Nat, NEW fm, NEW mint, NEW m
  PROVE  Owns(fr, fm, mint, m)
           = Owns(Unstake(fr, max), fm, mint, m) + IF m = mint THEN UnstakedAmount(fr, max) ELSE 0
<1> DEFINE x == Unstake(fr, max)
           got == UnstakedAmount(fr, max)
<1>1. /\ TotalDeposited(fr) = TotalDeposited(x) + got
      /\ got \in Nat /\ x \in FarmerOf(ms)
  BY UnstakeEffect
<1>2. Credit(x, m) = Credit(fr, m)
  BY DEF Unstake, FarmerOf, Credit
<1> HIDE DEF x, got
<1>3. TotalDeposited(x) \in Nat /\ Credit(fr, m) \in Nat
  BY <1>1, AccountType DEF TotalDeposited
<1> DEFINE c == IF m \in DOMAIN fm.harvests THEN Credit(fr, m) ELSE 0
<1>4. /\ Owns(x, fm, mint, m) = (IF m = mint THEN TotalDeposited(x) ELSE 0) + c
      /\ Owns(fr, fm, mint, m) = (IF m = mint THEN TotalDeposited(fr) ELSE 0) + c
      /\ c \in Nat
  BY <1>2, <1>3 DEF Owns
<1> HIDE DEF c
<1>5. QED
  BY <1>1, <1>3, <1>4 DEF x, got

\* What is claimed was owned.
LEMMA ClaimOwns ==
  ASSUME NEW ms, NEW fr \in FarmerOf(ms), NEW k \in ms, NEW fm, k \in DOMAIN fm.harvests,
         NEW mint, NEW m
  PROVE  /\ ClaimHarvest(fr, k) \in FarmerOf(ms) /\ fr.harvests[k] \in Nat
         /\ Owns(fr, fm, mint, m)
              = Owns(ClaimHarvest(fr, k), fm, mint, m) + IF m = k THEN fr.harvests[k] ELSE 0
<1> DEFINE x == ClaimHarvest(fr, k)
           got == fr.harvests[k]
<1>1. x \in FarmerOf(ms) /\ Keeps(fr, x) /\ got \in Nat
  BY ClaimHarvestEffect
<1>2. Credit(x, m) = (IF m = k THEN 0 ELSE Credit(fr, m)) /\ Credit(fr, k) = got
  BY DEF ClaimHarvest, Credit, FarmerOf
<1> HIDE DEF x, got
<1>3. Credit(fr, m) \in Nat /\ TotalDeposited(fr) \in Nat /\ TotalDeposited(x) = TotalDeposited(fr)
  BY <1>1, AccountType, KeepsTotal DEF TotalDeposited
<1> DEFINE d == IF m = mint THEN TotalDeposited(fr) ELSE 0
           inFarm == m \in DOMAIN fm.harvests
<1>4. /\ Owns(x, fm, mint, m) = d + IF inFarm THEN Credit(x, m) ELSE 0
      /\ Owns(fr, fm, mint, m) = d + IF inFarm THEN Credit(fr, m) ELSE 0
      /\ d \in Nat /\ (m = k => inFarm)
  BY <1>3 DEF Owns
<1> HIDE DEF d, inFarm
<1>5. QED
  BY <1>1, <1>2, <1>3, <1>4 DEF x, got

-----------------------------------------------------------------------------
(* Of a state: what a user has in a farm, and in all.                      *)

Held(f, u, m) == Holding(farmer[f][u], farm[f], StakeMint[f], m, slot)

\* A farmer that exists is between transactions, and what it has is a number.
LEMMA HeldTypes ==
  Orderly => \A f \in Farms, u \in Users :
               /\ FarmerExists(f, u) => InFarm(farmer[f][u], farm[f], slot)
               /\ \A m \in Mints : Held(f, u, m) \in Nat
<1>1. SUFFICES ASSUME Orderly, NEW f \in Farms, NEW u \in Users
               PROVE  /\ FarmerExists(f, u) => InFarm(farmer[f][u], farm[f], slot)
                      /\ \A m \in Mints : Held(f, u, m) \in Nat
  OBVIOUS
<1>2. CASE FarmerExists(f, u)
  <2>1. InFarm(farmer[f][u], farm[f], slot)
    BY <1>1, <1>2, OrderlyFarmer
  <2>2. QED
    BY <2>1, HoldingParts DEF Held
<1>3. CASE ~FarmerExists(f, u)
  BY <1>3 DEF FarmerExists, Held, Holding
<1>4. QED
  BY <1>2, <1>3

\* The same of the next state.
LEMMA HeldTypesNext ==
  Orderly' => \A f \in Farms, u \in Users :
                /\ FarmerExists(f, u)' => InFarm(farmer[f][u], farm[f], slot)'
                /\ \A m \in Mints : (Held(f, u, m) \in Nat)'
<1> DEFINE P == \A f \in Farms, u \in Users :
                  /\ FarmerExists(f, u) => InFarm(farmer[f][u], farm[f], slot)
                  /\ \A m \in Mints : Held(f, u, m) \in Nat
<1>1. Orderly => P
  BY HeldTypes
<1> HIDE DEF P
<1>2. Orderly' => P'
  BY <1>1, PTL
<1>3. QED
  BY <1>2 DEF P

\* Wealth is the wallet and what the farms hold.
LEMMA WealthIsHeld ==
  ASSUME NEW purse, NEW accounts, NEW farms, NEW m, NEW now
  PROVE  Wealth(purse, accounts, farms, m, now)
           = purse[m] + SumFunctionOnSet([f \in Farms |-> Holding(accounts[f], farms[f],
                                                                  StakeMint[f], m, now)], Farms)
<1> DEFINE h == [f \in Farms |-> Holding(accounts[f], farms[f], StakeMint[f], m, now)]
<1>1. DOMAIN h = Farms
  OBVIOUS
<1>2. Wealth(purse, accounts, farms, m, now) = purse[m] + SumFunction(h)
  BY DEF Wealth
<1> HIDE DEF h
<1>3. QED
  BY <1>1, <1>2 DEF SumFunction, h

\* What a step takes from nobody, and what it moves of a user's own farmer.
KeepsAll(u, m) ==
  /\ wallet'[u][m] >= wallet[u][m]
  /\ \A f \in Farms : Held(f, u, m)' >= Held(f, u, m)

Moves(f, u, m) ==
  /\ \A g \in Farms \ {f} : Held(g, u, m)' >= Held(g, u, m)
  /\ wallet'[u][m] + Held(f, u, m)' + 1 >= wallet[u][m] + Held(f, u, m)
  /\ farmer'[f][u] = farmer[f][u] =>
       wallet'[u][m] + Held(f, u, m)' >= wallet[u][m] + Held(f, u, m)

\* Sums that differ in favour of the second but for one entry.
LEMMA SumMoves ==
  ASSUME NEW S, IsFiniteSet(S), NEW h, NEW k, \A y \in S : h[y] \in Nat /\ k[y] \in Nat,
         NEW x \in S, \A y \in S \ {x} : k[y] >= h[y]
  PROVE  /\ SumFunctionOnSet(h, S) \in Nat /\ SumFunctionOnSet(k, S) \in Nat
         /\ SumFunctionOnSet(k, S) - k[x] >= SumFunctionOnSet(h, S) - h[x]
<1> DEFINE T == S \ {x}
           A == SumFunctionOnSet(h, T)
           B == SumFunctionOnSet(k, T)
<1>1. /\ SumFunctionOnSet(h, S) \in Nat /\ A \in Nat /\ SumFunctionOnSet(h, S) = h[x] + A
      /\ SumFunctionOnSet(k, S) \in Nat /\ B \in Nat /\ SumFunctionOnSet(k, S) = k[x] + B
  BY SumUnfolds, Zenon
<1>2. A <= B
  <2>1. IsFiniteSet(T)
    BY FS_Subset
  <2>2. \A y \in T : h[y] \in Nat /\ k[y] \in Nat /\ h[y] <= k[y]
    OBVIOUS
  <2> HIDE DEF T
  <2>3. QED
    BY <2>1, <2>2, SumMonotone
<1> HIDE DEF A, B
<1>3. h[x] \in Nat /\ k[x] \in Nat
  OBVIOUS
<1>4. QED
  BY <1>1, <1>2, <1>3

\* A step keeps a user's wealth when it keeps all of it, or all that is not in
\* one farm, where it is moved.
LEMMA WealthMoves ==
  ASSUME Orderly, Orderly', NEW u \in Users, NEW m \in Mints,
         KeepsAll(u, m) \/ \E f \in Farms : Moves(f, u, m)
  PROVE  LET before == Wealth(wallet[u], [f \in Farms |-> farmer[f][u]], farm, m, slot)
             after  == Wealth(wallet'[u], [f \in Farms |-> farmer'[f][u]], farm', m, slot')
         IN  /\ after + 1 >= before
             /\ (\A f \in Farms : farmer'[f][u] = farmer[f][u]) => after >= before
<1> DEFINE h == [f \in Farms |-> Held(f, u, m)]
           k == [f \in Farms |-> Held(f, u, m)']
           x == wallet[u][m]
           y == wallet'[u][m]
           H == SumFunctionOnSet(h, Farms)
           K == SumFunctionOnSet(k, Farms)
           before == Wealth(wallet[u], [f \in Farms |-> farmer[f][u]], farm, m, slot)
           after  == Wealth(wallet'[u], [f \in Farms |-> farmer'[f][u]], farm', m, slot')
<1>1. before = x + H
  <2> DEFINE acc == [f \in Farms |-> farmer[f][u]]
             e == [f \in Farms |-> Holding(acc[f], farm[f], StakeMint[f], m, slot)]
  <2>1. e = h
    BY DEF Held
  <2>2. before = x + SumFunctionOnSet(e, Farms)
    <3> HIDE DEF acc
    <3>1. Wealth(wallet[u], acc, farm, m, slot) = x + SumFunctionOnSet(e, Farms)
      BY WealthIsHeld, Zenon
    <3>2. QED
      BY <3>1 DEF acc
  <2> HIDE DEF e, h, before
  <2>3. QED
    BY <2>1, <2>2
<1>2. after = y + K
  <2> DEFINE acc == [f \in Farms |-> farmer'[f][u]]
             e == [f \in Farms |-> Holding(acc[f], farm'[f], StakeMint[f], m, slot')]
  <2>1. e = k
    BY DEF Held
  <2>2. after = y + SumFunctionOnSet(e, Farms)
    <3> HIDE DEF acc
    <3>1. Wealth(wallet'[u], acc, farm', m, slot') = y + SumFunctionOnSet(e, Farms)
      BY WealthIsHeld, Zenon
    <3>2. QED
      BY <3>1 DEF acc
  <2> HIDE DEF e, k, after
  <2>3. QED
    BY <2>1, <2>2
<1>3. \A f \in Farms : h[f] = Held(f, u, m) /\ k[f] = Held(f, u, m)'
  OBVIOUS
<1>4. \A f \in Farms : Held(f, u, m) \in Nat /\ Held(f, u, m)' \in Nat
  BY HeldTypes, HeldTypesNext
<1>5. x \in Nat /\ y \in Nat
  <2>1. u \in Owners
    BY DEF Owners
  <2>2. wallet \in [Owners -> [Mints -> Nat]] /\ wallet' \in [Owners -> [Mints -> Nat]]
    BY DEF Orderly, Typed, BalancesTyped
  <2>3. QED
    BY <2>1, <2>2
<1> HIDE DEF h, k, x, y, before, after
<1>6. \A f \in Farms : h[f] \in Nat /\ k[f] \in Nat
  BY <1>3, <1>4
<1>7. CASE KeepsAll(u, m)
  <2>1. \A f \in Farms : h[f] <= k[f]
    BY <1>3, <1>4, <1>7 DEF KeepsAll
  <2>2. H <= K /\ H \in Nat /\ K \in Nat
    BY <1>6, <2>1, FarmsAssumption, SumMonotone, SumUnfolds
  <2>3. y >= x
    BY <1>7 DEF KeepsAll, x, y
  <2> HIDE DEF H, K
  <2>4. after >= before /\ after + 1 >= before
    BY <1>1, <1>2, <1>5, <2>2, <2>3
  <2>5. QED
    BY <2>4 DEF before, after
<1>8. ASSUME NEW f \in Farms, Moves(f, u, m)
      PROVE  /\ after + 1 >= before
             /\ farmer'[f][u] = farmer[f][u] => after >= before
  <2>1. \A g \in Farms \ {f} : k[g] >= h[g]
    BY <1>3, <1>8 DEF Moves
  <2>2. H \in Nat /\ K \in Nat /\ K - k[f] >= H - h[f]
    BY <1>6, <2>1, FarmsAssumption, SumMoves, Zenon
  <2>3. /\ y + k[f] + 1 >= x + h[f]
        /\ farmer'[f][u] = farmer[f][u] => y + k[f] >= x + h[f]
    BY <1>3, <1>8 DEF Moves, x, y
  <2>4. h[f] \in Nat /\ k[f] \in Nat
    BY <1>6
  <2> HIDE DEF H, K
  <2>5. QED
    BY <1>1, <1>2, <1>5, <2>2, <2>3, <2>4
<1>9. QED
  BY <1>7, <1>8, Zenon DEF before, after

-----------------------------------------------------------------------------
(* A transaction on one farmer.                                            *)

\* It writes one farmer, and what it takes from it goes to the user's wallet.
IsFairTo(f, u, x) ==
  /\ UNCHANGED <<slot, farm>>
  /\ farmer' = [farmer EXCEPT ![f][u] = x]
  /\ \A v \in Users \ {u}, m \in Mints : wallet'[v][m] = wallet[v][m]
  /\ \A m \in Mints :
       LET held == Holding(x, farm[f], StakeMint[f], m, slot)
       IN  /\ wallet'[u][m] + held + 1 >= wallet[u][m] + Held(f, u, m)
           /\ x = farmer[f][u] => wallet'[u][m] + held >= wallet[u][m] + Held(f, u, m)

\* Such a transaction takes from no other user, and from no other farmer.
LEMMA FairMoves ==
  ASSUME Orderly, Orderly', NEW f \in Farms, NEW w \in Users, NEW x, IsFairTo(f, w, x),
         NEW u \in Users, NEW m \in Mints
  PROVE  KeepsAll(u, m) \/ \E g \in Farms : Moves(g, u, m)
<1>1. DOMAIN farmer = Farms /\ DOMAIN farmer[f] = Users
  BY DEF Orderly, Typed, FarmersTyped
<1>2. farmer'[f][w] = x /\ \A g \in Farms, v \in Users : (g = f /\ v = w) \/ farmer'[g][v] = farmer[g][v]
  BY <1>1 DEF IsFairTo
<1>3. ASSUME NEW g \in Farms, farmer'[g][u] = farmer[g][u] PROVE Held(g, u, m)' >= Held(g, u, m)
  <2>1. Held(g, u, m)' = Held(g, u, m)
    BY <1>3 DEF Held, IsFairTo
  <2>2. Held(g, u, m) \in Nat
    BY HeldTypes
  <2>3. QED
    BY <2>1, <2>2
<1>4. CASE u # w
  <2>1. wallet'[u][m] = wallet[u][m]
    BY <1>4 DEF IsFairTo
  <2>2. wallet[u][m] \in Nat
    BY DEF Orderly, Typed, BalancesTyped, Owners
  <2>3. wallet'[u][m] >= wallet[u][m]
    BY <2>1, <2>2
  <2>4. QED
    BY <1>2, <1>3, <1>4, <2>3 DEF KeepsAll
<1>5. CASE u = w
  <2>1. Held(f, u, m)' = Holding(x, farm[f], StakeMint[f], m, slot)
    BY <1>2, <1>5 DEF Held, IsFairTo
  <2>2. Moves(f, u, m)
    BY <1>2, <1>3, <1>5, <2>1 DEF Moves, IsFairTo
  <2>3. QED
    BY <2>2
<1>6. QED
  BY <1>4, <1>5

\* The farmer and its farm before and after such a transaction.
LEMMA WrittenFarmer ==
  ASSUME Orderly, Orderly', UNCHANGED <<slot, farm>>, NEW f \in Farms, NEW u \in Users, NEW x,
         farmer' = [farmer EXCEPT ![f][u] = x]
  PROVE  /\ farmer'[f][u] = x
         /\ FarmerExists(f, u) => InFarm(farmer[f][u], farm[f], slot)
         /\ x # None => InFarm(x, farm[f], slot)
         /\ \A m \in Mints : /\ Held(f, u, m) \in Nat
                             /\ wallet[u][m] \in Nat /\ wallet'[u][m] \in Nat
                             /\ Holding(x, farm[f], StakeMint[f], m, slot) \in Nat
<1>1. DOMAIN farmer = Farms /\ DOMAIN farmer[f] = Users
  BY DEF Orderly, Typed, FarmersTyped
<1>2. farmer'[f][u] = x
  BY <1>1
<1>3. /\ FarmerExists(f, u) => InFarm(farmer[f][u], farm[f], slot)
      /\ \A m \in Mints : Held(f, u, m) \in Nat
  BY HeldTypes
<1>4. FarmerExists(f, u)' => InFarm(farmer'[f][u], farm[f], slot)
  <2>1. FarmerExists(f, u)' => InFarm(farmer'[f][u], farm'[f], slot')
    BY HeldTypesNext
  <2>2. QED
    BY <2>1
<1>5. \A m \in Mints : Holding(x, farm[f], StakeMint[f], m, slot) \in Nat
  <2>1. \A m \in Mints : Held(f, u, m)' \in Nat
    BY HeldTypesNext
  <2>2. \A m \in Mints : Held(f, u, m)' = Holding(x, farm[f], StakeMint[f], m, slot)
    BY <1>2 DEF Held
  <2>3. QED
    BY <2>1, <2>2
<1>6. \A m \in Mints : wallet[u][m] \in Nat /\ wallet'[u][m] \in Nat
  BY DEF Orderly, Typed, BalancesTyped, Owners
<1>7. QED
  BY <1>2, <1>3, <1>4, <1>5, <1>6 DEF FarmerExists

\* create_farmer.
LEMMA CreateFarmerIsFair ==
  ASSUME Orderly, Orderly', NEW f \in Farms, NEW u \in Users, CreateFarmer(f, u)
  PROVE  \E x : IsFairTo(f, u, x)
<1> DEFINE x == NewFarmer(DOMAIN farm[f].harvests)
<1>1. /\ farmer' = [farmer EXCEPT ![f][u] = x] /\ UNCHANGED <<slot, farm, wallet>>
      /\ farmer[f][u] = None
  BY DEF CreateFarmer, FarmerExists
<1> HIDE DEF x
<1>2. ASSUME NEW m \in Mints
      PROVE  LET held == Holding(x, farm[f], StakeMint[f], m, slot)
             IN  wallet'[u][m] + held >= wallet[u][m] + Held(f, u, m)
                   /\ wallet'[u][m] + held + 1 >= wallet[u][m] + Held(f, u, m)
  <2> DEFINE held == Holding(x, farm[f], StakeMint[f], m, slot)
  <2>1. Held(f, u, m) = 0
    BY <1>1 DEF Held, Holding
  <2>2. held \in Nat /\ wallet[u][m] \in Nat
    BY <1>1, WrittenFarmer, Zenon
  <2> HIDE DEF held
  <2>3. QED
    BY <1>1, <2>1, <2>2 DEF held
<1>3. QED
  BY <1>1, <1>2, Zenon DEF IsFairTo

\* close_farmer: nothing is left, nor anything pending, of an account without
\* deposit and credit.
LEMMA CloseFarmerIsFair ==
  ASSUME Orderly, Orderly', NEW f \in Farms, NEW u \in Users, CloseFarmer(f, u)
  PROVE  \E x : IsFairTo(f, u, x)
<1> DEFINE fr == farmer[f][u]
           fm == farm[f]
<1>1. /\ farmer' = [farmer EXCEPT ![f][u] = None] /\ UNCHANGED <<slot, farm, wallet>>
      /\ FarmerExists(f, u) /\ TotalDeposited(fr) = 0
      /\ \A m \in DOMAIN fr.harvests : fr.harvests[m] = 0
  BY DEF CloseFarmer
<1>2. InFarm(fr, fm, slot)
  BY <1>1, HeldTypes
<1>3. PICK ms \in SUBSET Mints : fr \in FarmerOf(ms)
  BY <1>2 DEF InFarm, IsFarmer
<1>4. fr.staked = 0 /\ fr.vested = 0
  BY <1>1, <1>3, AccountType DEF TotalDeposited
<1>5. ASSUME NEW m \in Mints PROVE Held(f, u, m) = 0
  <2>1. Credit(fr, m) = 0
    BY <1>1 DEF Credit
  <2>2. Owns(fr, fm, StakeMint[f], m) = 0
    BY <1>1, <2>1 DEF Owns
  <2>3. ASSUME m \in DOMAIN fm.harvests PROVE Pending(fr, fm.snapshots, fm.harvests[m], slot) = 0
    <3> DEFINE last == slot - 1
               since == fr.nextFrom
               b == fm.snapshots
               ps == fm.harvests[m]
    <3>1. PICK hs \in SUBSET Mints : fm \in FarmOf(hs)
      BY <1>2 DEF InFarm, IsFarm
    <3>2. b \in Buffer /\ ps \in Periods /\ slot \in Nat
      BY <1>2, <2>3, <3>1 DEF FarmOf, InFarm
    <3>3. since \in Int /\ last \in Int /\ 0 \in Nat
      BY <1>3, <3>2, AccountType
    <3>4. VestingOver(fr, b) = {}
      BY <1>4 DEF VestingOver
    <3>5. Pending(fr, b, ps, slot) = Accrued(b, ps, since, last, 0)
      BY <1>4, <3>4 DEF Pending
    <3> HIDE DEF last, since, b, ps
    <3>6. Accrued(b, ps, since, last, 0) = 0
      BY <3>2, <3>3, AccruedType
    <3>7. QED
      BY <3>5, <3>6 DEF b, ps
  <2>4. Holding(fr, fm, StakeMint[f], m, slot) = 0
    <3>1. CASE m \in DOMAIN fm.harvests
      <4>1. Holding(fr, fm, StakeMint[f], m, slot) = 0 + 0
        BY <1>2, <2>2, <2>3, <3>1, HoldingParts
      <4>2. QED
        BY <4>1
    <3>2. CASE m \notin DOMAIN fm.harvests
      BY <1>2, <2>2, <3>2, HoldingParts
    <3>3. QED
      BY <3>1, <3>2
  <2>5. QED
    BY <2>4 DEF Held
<1>6. ASSUME NEW m \in Mints
      PROVE  LET held == Holding(None, farm[f], StakeMint[f], m, slot)
             IN  wallet'[u][m] + held >= wallet[u][m] + Held(f, u, m)
                   /\ wallet'[u][m] + held + 1 >= wallet[u][m] + Held(f, u, m)
  <2>1. Holding(None, farm[f], StakeMint[f], m, slot) = 0
    BY DEF Holding
  <2>2. wallet[u][m] \in Nat
    BY <1>1, WrittenFarmer, Zenon
  <2>3. QED
    BY <1>1, <1>5, <2>1, <2>2
<1>7. IsFairTo(f, u, None)
  BY <1>1, <1>6 DEF IsFairTo
<1>8. QED
  BY <1>7

\* update_eligible_harvest_until: up to the token of rounding.
LEMMA UpdateIsFair ==
  ASSUME Orderly, Orderly', NEW f \in Farms, NEW u \in Users, NEW until \in Nat,
         UpdateEligibleHarvestUntil(f, u, until)
  PROVE  \E x : IsFairTo(f, u, x)
<1> DEFINE current == Smaller(slot, until)
           fr == farmer[f][u]
           fm == farm[f]
           x == Updated(f, u, current).farmer
<1>1. /\ FarmerExists(f, u) /\ farmer' = [farmer EXCEPT ![f][u] = x]
      /\ UNCHANGED <<slot, farm, wallet>>
  BY DEF UpdateEligibleHarvestUntil
<1>2. InFarm(fr, fm, slot) /\ slot \in Nat
  BY <1>1, HeldTypes, OrderlyFarmer
<1>3. current \in Nat /\ current <= slot
  BY <1>2 DEF Smaller
<1> HIDE DEF current
<1>4. x = CheckVestedAndUpdate(fr, fm, current).farmer
  BY DEF Updated
<1> HIDE DEF x
<1>5. ASSUME NEW m \in Mints
      PROVE  LET held == Holding(x, farm[f], StakeMint[f], m, slot)
             IN  /\ wallet'[u][m] + held + 1 >= wallet[u][m] + Held(f, u, m)
                 /\ x = farmer[f][u] => wallet'[u][m] + held >= wallet[u][m] + Held(f, u, m)
  <2> DEFINE held == Holding(x, farm[f], StakeMint[f], m, slot)
             had == Held(f, u, m)
             coins == wallet[u][m]
  <2>1. held + 1 >= had
    BY <1>2, <1>3, <1>4, UpdateHolds DEF Held
  <2>2. x = farmer[f][u] => held = had
    BY DEF Held
  <2>3. held \in Nat /\ had \in Nat /\ coins \in Nat /\ wallet'[u][m] = coins
    BY <1>1, WrittenFarmer, Zenon
  <2> HIDE DEF held, had, coins
  <2>4. coins + held + 1 >= coins + had /\ (x = farmer[f][u] => coins + held >= coins + had)
    BY <2>1, <2>2, <2>3
  <2>5. QED
    BY <2>3, <2>4 DEF held, had, coins
<1>6. QED
  BY <1>1, <1>5, Zenon DEF IsFairTo

\* A transaction is fair when what the farmer owns after it, with the wallet, is
\* no less than what it had.
LEMMA FairWhenOwned ==
  ASSUME Orderly, Orderly', UNCHANGED <<slot, farm>>, NEW f \in Farms, NEW u \in Users, NEW x,
         farmer' = [farmer EXCEPT ![f][u] = x], x # None,
         \A v \in Users \ {u}, m \in Mints : wallet'[v][m] = wallet[v][m],
         \A m \in Mints : wallet'[u][m] + Owns(x, farm[f], StakeMint[f], m)
                            >= wallet[u][m] + Held(f, u, m)
  PROVE  IsFairTo(f, u, x)
<1>1. InFarm(x, farm[f], slot)
  BY WrittenFarmer, Zenon
<1>2. ASSUME NEW m \in Mints
      PROVE  LET held == Holding(x, farm[f], StakeMint[f], m, slot)
             IN  /\ wallet'[u][m] + held + 1 >= wallet[u][m] + Held(f, u, m)
                 /\ wallet'[u][m] + held >= wallet[u][m] + Held(f, u, m)
  <2> DEFINE held == Holding(x, farm[f], StakeMint[f], m, slot)
             owned == Owns(x, farm[f], StakeMint[f], m)
             had == Held(f, u, m)
             coins == wallet[u][m]
             more == wallet'[u][m]
  <2>1. held \in Nat /\ had \in Nat /\ coins \in Nat /\ more \in Nat
    BY WrittenFarmer, Zenon
  <2>2. owned \in Nat /\ held >= owned
    BY <1>1, HoldingParts
  <2>3. more + owned >= coins + had
    OBVIOUS
  <2> HIDE DEF held, owned, had, coins, more
  <2>4. more + held >= coins + had /\ more + held + 1 >= coins + had
    BY <2>1, <2>2, <2>3
  <2>5. QED
    BY <2>4 DEF held, had, coins, more
<1>3. QED
  BY <1>2 DEF IsFairTo

\* A transaction on the credit is fair when it moves what the farmer owns to the
\* wallet.
LEMMA FairWhenKept ==
  ASSUME Orderly, Orderly', UNCHANGED <<slot, farm>>, NEW f \in Farms, NEW u \in Users, NEW x,
         farmer' = [farmer EXCEPT ![f][u] = x], x # None, FarmerExists(f, u),
         Keeps(farmer[f][u], x),
         \A v \in Users \ {u}, m \in Mints : wallet'[v][m] = wallet[v][m],
         \A m \in Mints : wallet'[u][m] + Owns(x, farm[f], StakeMint[f], m)
                            >= wallet[u][m] + Owns(farmer[f][u], farm[f], StakeMint[f], m)
  PROVE  IsFairTo(f, u, x)
<1> DEFINE fr == farmer[f][u]
           fm == farm[f]
<1>1. InFarm(x, fm, slot) /\ InFarm(fr, fm, slot)
  BY WrittenFarmer, Zenon
<1>2. ASSUME NEW m \in Mints
      PROVE  LET held == Holding(x, farm[f], StakeMint[f], m, slot)
             IN  /\ wallet'[u][m] + held + 1 >= wallet[u][m] + Held(f, u, m)
                 /\ wallet'[u][m] + held >= wallet[u][m] + Held(f, u, m)
  <2> DEFINE held == Holding(x, fm, StakeMint[f], m, slot)
             owned == Owns(x, fm, StakeMint[f], m)
             had == Holding(fr, fm, StakeMint[f], m, slot)
             ownedBefore == Owns(fr, fm, StakeMint[f], m)
             waits == Pending(fr, fm.snapshots, fm.harvests[m], slot)
             coins == wallet[u][m]
             more == wallet'[u][m]
             inFarm == m \in DOMAIN fm.harvests
  <2>1. coins \in Nat /\ more \in Nat
    BY WrittenFarmer, Zenon
  <2>2. Pending(x, fm.snapshots, fm.harvests[m], slot) = waits
    BY PendingOfSame
  <2>3. /\ owned \in Nat /\ ownedBefore \in Nat
        /\ inFarm => waits \in Nat /\ held = owned + waits /\ had = ownedBefore + waits
        /\ ~inFarm => held = owned /\ had = ownedBefore
    BY <1>1, <2>2, HoldingParts
  <2>4. more + owned >= coins + ownedBefore /\ had = Held(f, u, m)
    BY DEF Held
  <2> HIDE DEF held, owned, had, ownedBefore, waits, coins, more, inFarm
  <2>5. more + held >= coins + had /\ more + held + 1 >= coins + had
    BY <2>1, <2>3, <2>4
  <2>6. QED
    BY <2>4, <2>5 DEF held, coins, more
<1>3. QED
  BY <1>2 DEF IsFairTo

\* What a farmer owns after the update that precedes its endpoints.
LEMMA OwnsAfterUpdate ==
  ASSUME Orderly, NEW f \in Farms, NEW u \in Users, FarmerExists(f, u)
  PROVE  LET mid == Updated(f, u, slot).farmer
         IN  /\ \E ms \in SUBSET Mints : mid \in FarmerOf(ms)
             /\ \A m \in Mints :
                  /\ Owns(mid, farm[f], StakeMint[f], m) \in Nat /\ Held(f, u, m) \in Nat
                  /\ Owns(mid, farm[f], StakeMint[f], m) >= Held(f, u, m)
<1> DEFINE fr == farmer[f][u]
           fm == farm[f]
           mid == Updated(f, u, slot).farmer
<1>1. InFarm(fr, fm, slot) /\ slot \in Nat /\ slot <= slot
  BY HeldTypes, OrderlyFarmer
<1>2. mid = CheckVestedAndUpdate(fr, fm, slot).farmer
  BY DEF Updated
<1>3. /\ InFarm(mid, fm, slot)
      /\ \A m : Owns(mid, fm, StakeMint[f], m) >= Holding(fr, fm, StakeMint[f], m, slot)
  BY <1>1, <1>2, UpdateHolds
<1> HIDE DEF mid
<1>4. \A m \in Mints : Owns(mid, fm, StakeMint[f], m) \in Nat /\ Held(f, u, m) \in Nat
  BY <1>3, HoldingParts, HeldTypes
<1>5. \E ms \in SUBSET Mints : mid \in FarmerOf(ms)
  BY <1>3 DEF InFarm, IsFarmer
<1>6. QED
  BY <1>3, <1>4, <1>5 DEF mid, Held

\* start_farming: the wallet pays the deposit.
LEMMA StartFarmingIsFair ==
  ASSUME Orderly, Orderly', NEW f \in Farms, NEW u \in Users, NEW stake \in StakeAmounts,
         StartFarming(f, u, stake)
  PROVE  \E x : IsFairTo(f, u, x)
<1> DEFINE mid == Updated(f, u, slot).farmer
           x == AddToVested(mid, slot, stake)
           mint == StakeMint[f]
<1>1. /\ FarmerExists(f, u) /\ farmer' = [farmer EXCEPT ![f][u] = x]
      /\ wallet' = [wallet EXCEPT ![u][mint] = @ - stake]
      /\ UNCHANGED <<slot, farm>>
  BY DEF StartFarming
<1>2. stake \in Nat /\ slot \in Nat /\ u \in Owners /\ mint \in Mints
  BY <1>1, OrderlyFarmer DEF Owners
<1>3. PICK ms \in SUBSET Mints :
        /\ mid \in FarmerOf(ms)
        /\ \A m \in Mints :
             /\ Owns(mid, farm[f], mint, m) \in Nat /\ Held(f, u, m) \in Nat
             /\ Owns(mid, farm[f], mint, m) >= Held(f, u, m)
  BY <1>1, OwnsAfterUpdate
<1> HIDE DEF mid, mint
<1>4. x # None
  <2>1. x \in FarmerOf(ms)
    BY <1>2, <1>3, AddToVestedEffect
  <2>2. QED
    BY <2>1, NoneAssumption
<1>5. \A m \in Mints : Owns(x, farm[f], mint, m)
                         = Owns(mid, farm[f], mint, m) + IF m = mint THEN stake ELSE 0
  BY <1>2, <1>3, DepositOwns
<1>6. /\ \A v \in Owners \ {u}, m \in Mints : wallet'[v][m] = wallet[v][m]
      /\ \A m \in Mints : wallet[u][m] \in Nat
                          /\ wallet'[u][m] = wallet[u][m] - IF m = mint THEN stake ELSE 0
  <2>1. wallet \in [Owners -> [Mints -> Nat]]
    BY DEF Orderly, Typed, BalancesTyped
  <2>2. \A v \in Owners \ {u}, m \in Mints : wallet'[v][m] = wallet[v][m]
    BY <1>1, <1>2, <2>1
  <2>3. \A m \in Mints : wallet'[u][m] = IF m = mint THEN wallet[u][m] - stake ELSE wallet[u][m]
    BY <1>1, <1>2, <2>1
  <2>4. \A m \in Mints : wallet[u][m] \in Nat
    BY <1>2, <2>1
  <2>5. QED
    BY <1>2, <2>2, <2>3, <2>4
<1> HIDE DEF x
<1>7. \A m \in Mints : wallet'[u][m] + Owns(x, farm[f], mint, m) >= wallet[u][m] + Held(f, u, m)
  BY <1>2, <1>3, <1>5, <1>6
<1>8. QED
  BY <1>1, <1>4, <1>6, <1>7, FairWhenOwned, Zenon DEF mint, Owners

\* stop_farming: the wallet gets what is withdrawn.
LEMMA StopFarmingIsFair ==
  ASSUME Orderly, Orderly', NEW f \in Farms, NEW u \in Users, NEW max \in UnstakeAmounts,
         StopFarming(f, u, max)
  PROVE  \E x : IsFairTo(f, u, x)
<1> DEFINE mid == Updated(f, u, slot).farmer
           x == Unstake(mid, max)
           got == UnstakedAmount(mid, max)
           mint == StakeMint[f]
<1>1. /\ FarmerExists(f, u) /\ farmer' = [farmer EXCEPT ![f][u] = x]
      /\ wallet' = [wallet EXCEPT ![u][mint] = @ + got]
      /\ UNCHANGED <<slot, farm>>
  BY DEF StopFarming
<1>2. max \in Nat /\ slot \in Nat /\ u \in Owners /\ mint \in Mints
  BY <1>1, OrderlyFarmer DEF Owners
<1>3. PICK ms \in SUBSET Mints :
        /\ mid \in FarmerOf(ms)
        /\ \A m \in Mints :
             /\ Owns(mid, farm[f], mint, m) \in Nat /\ Held(f, u, m) \in Nat
             /\ Owns(mid, farm[f], mint, m) >= Held(f, u, m)
  BY <1>1, OwnsAfterUpdate
<1> HIDE DEF mid, mint
<1>4. x # None /\ got \in Nat /\ x \in FarmerOf(ms)
  <2>1. x \in FarmerOf(ms) /\ got \in Nat
    BY <1>2, <1>3, UnstakeEffect
  <2>2. QED
    BY <2>1, NoneAssumption
<1>5. \A m \in Mints : Owns(mid, farm[f], mint, m)
                         = Owns(x, farm[f], mint, m) + IF m = mint THEN got ELSE 0
  BY <1>2, <1>3, UnstakeOwns
<1> HIDE DEF got
<1>6. /\ \A v \in Owners \ {u}, m \in Mints : wallet'[v][m] = wallet[v][m]
      /\ \A m \in Mints : wallet[u][m] \in Nat
                          /\ wallet'[u][m] = wallet[u][m] + IF m = mint THEN got ELSE 0
  <2>1. wallet \in [Owners -> [Mints -> Nat]]
    BY DEF Orderly, Typed, BalancesTyped
  <2>2. \A v \in Owners \ {u}, m \in Mints : wallet'[v][m] = wallet[v][m]
    BY <1>1, <1>2, <2>1
  <2>3. \A m \in Mints : wallet'[u][m] = IF m = mint THEN wallet[u][m] + got ELSE wallet[u][m]
    BY <1>1, <1>2, <2>1
  <2>4. \A m \in Mints : wallet[u][m] \in Nat
    BY <1>2, <2>1
  <2>5. QED
    BY <1>4, <2>2, <2>3, <2>4
<1> HIDE DEF x
<1>7. \A m \in Mints : Owns(x, farm[f], mint, m) \in Nat
  <2>1. InFarm(x, farm[f], slot)
    BY <1>1, <1>4, WrittenFarmer, Zenon
  <2>2. QED
    BY <2>1, HoldingParts
<1>8. \A m \in Mints : wallet'[u][m] + Owns(x, farm[f], mint, m) >= wallet[u][m] + Held(f, u, m)
  BY <1>3, <1>4, <1>5, <1>6, <1>7
<1>9. QED
  BY <1>1, <1>4, <1>6, <1>8, FairWhenOwned, Zenon DEF mint, Owners

\* compound_same_farm: credit becomes deposit.
LEMMA CompoundSameIsFair ==
  ASSUME Orderly, Orderly', NEW f \in Farms, NEW u \in Users, CompoundSameFarm(f, u)
  PROVE  \E x : IsFairTo(f, u, x)
<1> DEFINE mint == StakeMint[f]
           mid == Updated(f, u, slot).farmer
           got == mid.harvests[mint]
           claimed == ClaimHarvest(mid, mint)
           x == AddToVested(claimed, slot, got)
<1>1. /\ FarmerExists(f, u) /\ mint \in DOMAIN mid.harvests /\ mint \in DOMAIN farm[f].harvests
      /\ farmer' = [farmer EXCEPT ![f][u] = x]
      /\ UNCHANGED <<slot, farm, wallet>>
  BY DEF CompoundSameFarm, HasHarvest
<1>2. slot \in Nat
  BY <1>1, OrderlyFarmer
<1>3. PICK ms \in SUBSET Mints :
        /\ mid \in FarmerOf(ms)
        /\ \A m \in Mints :
             /\ Owns(mid, farm[f], mint, m) \in Nat /\ Held(f, u, m) \in Nat
             /\ Owns(mid, farm[f], mint, m) >= Held(f, u, m)
  BY <1>1, OwnsAfterUpdate
<1> HIDE DEF mid, mint
<1>4. mint \in ms
  BY <1>1, <1>3 DEF FarmerOf
<1>5. /\ claimed \in FarmerOf(ms) /\ got \in Nat
      /\ \A m \in Mints : Owns(mid, farm[f], mint, m)
                            = Owns(claimed, farm[f], mint, m) + IF m = mint THEN got ELSE 0
  BY <1>1, <1>3, <1>4, ClaimOwns
<1> HIDE DEF claimed, got
<1>6. x # None /\ x \in FarmerOf(ms)
  <2>1. x \in FarmerOf(ms)
    BY <1>2, <1>5, AddToVestedEffect
  <2>2. QED
    BY <2>1, NoneAssumption
<1>7. \A m \in Mints : Owns(x, farm[f], mint, m)
                         = Owns(claimed, farm[f], mint, m) + IF m = mint THEN got ELSE 0
  BY <1>2, <1>5, DepositOwns
<1> HIDE DEF x
<1>8. \A m \in Mints : Owns(x, farm[f], mint, m) >= Held(f, u, m)
  BY <1>3, <1>5, <1>7
<1>9. ASSUME NEW m \in Mints
      PROVE  wallet'[u][m] + Owns(x, farm[f], mint, m) >= wallet[u][m] + Held(f, u, m)
  <2>1. /\ wallet[u][m] \in Nat /\ Held(f, u, m) \in Nat
        /\ Owns(x, farm[f], mint, m) \in Nat
    BY <1>1, <1>3, <1>5, <1>7, WrittenFarmer, Zenon
  <2>2. QED
    BY <1>1, <1>8, <2>1
<1>10. QED
  BY <1>1, <1>6, <1>9, FairWhenOwned, Zenon DEF mint

\* A farmer with other credit owns what the credit says.
LEMMA CreditOwns ==
  ASSUME NEW ms, NEW fr \in FarmerOf(ms), NEW h \in [ms -> Nat], NEW fm, NEW mint, NEW m
  PROVE  LET x == [fr EXCEPT !.harvests = h]
         IN  /\ x \in FarmerOf(ms) /\ Keeps(fr, x)
             /\ Owns(x, fm, mint, m) \in Nat /\ Owns(fr, fm, mint, m) \in Nat
             /\ m \in ms /\ m \in DOMAIN fm.harvests =>
                  Owns(x, fm, mint, m) + fr.harvests[m] = Owns(fr, fm, mint, m) + h[m]
             /\ m \notin ms \/ m \notin DOMAIN fm.harvests =>
                  Owns(x, fm, mint, m) = Owns(fr, fm, mint, m)
<1> DEFINE x == [fr EXCEPT !.harvests = h]
           d == IF m = mint THEN TotalDeposited(fr) ELSE 0
           inFarm == m \in DOMAIN fm.harvests
           c == Credit(fr, m)
           e == Credit(x, m)
<1>1. /\ x \in FarmerOf(ms) /\ Keeps(fr, x)
      /\ m \in ms => c = fr.harvests[m] /\ e = h[m]
      /\ m \notin ms => c = 0 /\ e = 0
  BY CreditOf
<1> HIDE DEF x
<1>2. TotalDeposited(x) = TotalDeposited(fr) /\ TotalDeposited(fr) \in Nat /\ c \in Nat /\ e \in Nat
  BY <1>1, KeepsTotal, AccountType DEF TotalDeposited
<1>3. /\ Owns(x, fm, mint, m) = d + IF inFarm THEN e ELSE 0
      /\ Owns(fr, fm, mint, m) = d + IF inFarm THEN c ELSE 0
      /\ d \in Nat
  BY <1>2 DEF Owns
<1> HIDE DEF d, c, e, inFarm
<1>4. /\ Owns(x, fm, mint, m) \in Nat /\ Owns(fr, fm, mint, m) \in Nat
      /\ m \in ms /\ inFarm => Owns(x, fm, mint, m) + fr.harvests[m] = Owns(fr, fm, mint, m) + h[m]
      /\ m \notin ms \/ ~inFarm => Owns(x, fm, mint, m) = Owns(fr, fm, mint, m)
  <2>1. CASE m \in ms
    BY <1>1, <1>2, <1>3, <2>1
  <2>2. CASE m \notin ms
    BY <1>1, <1>2, <1>3, <2>2
  <2>3. QED
    BY <2>1, <2>2
<1>5. QED
  BY <1>1, <1>4 DEF x, inFarm

\* airdrop: the credit grows, and an administrator pays.
LEMMA AirdropIsFair ==
  ASSUME Orderly, Orderly', NEW f \in Farms, NEW u \in Users, NEW k \in Mints,
         NEW amount \in AirdropAmounts, NEW payer \in Admins, Airdrop(f, u, k, amount, payer)
  PROVE  \E x : IsFairTo(f, u, x)
<1> DEFINE fr == farmer[f][u]
           mint == StakeMint[f]
           h == [fr.harvests EXCEPT ![k] = @ + amount]
           x == [fr EXCEPT !.harvests = h]
<1>1. /\ FarmerExists(f, u) /\ k \in DOMAIN fr.harvests
      /\ farmer' = [farmer EXCEPT ![f][u].harvests[k] = @ + amount]
      /\ wallet' = [wallet EXCEPT ![payer][k] = @ - amount]
      /\ UNCHANGED <<slot, farm>> /\ amount \in Nat
  BY DEF Airdrop
<1>2. PICK ms \in SUBSET Mints : fr \in FarmerOf(ms)
  BY <1>1, ExistingFarmer DEF Orderly
<1>3. fr.harvests \in [ms -> Nat] /\ k \in ms
  BY <1>1, <1>2 DEF FarmerOf
<1>4. h \in [ms -> Nat] /\ \A m \in ms : h[m] = IF m = k THEN fr.harvests[m] + amount ELSE fr.harvests[m]
  BY <1>1, <1>3
<1>5. farmer' = [farmer EXCEPT ![f][u] = x]
  BY <1>1
<1>6. \A v \in Users, m \in Mints : wallet'[v][m] = wallet[v][m] /\ wallet[v][m] \in Nat
  <2>1. wallet \in [Owners -> [Mints -> Nat]]
    BY DEF Orderly, Typed, BalancesTyped
  <2>2. \A v \in Users : v # payer /\ v \in Owners
    BY DisjointAssumption DEF Owners
  <2>3. \A v \in Users : wallet'[v] = wallet[v]
    BY <1>1, <2>1, <2>2
  <2>4. QED
    BY <2>1, <2>2, <2>3
<1> HIDE DEF h, fr
<1>7. /\ x \in FarmerOf(ms) /\ Keeps(fr, x)
      /\ \A m \in Mints : Owns(x, farm[f], mint, m) >= Owns(fr, farm[f], mint, m)
                          /\ Owns(x, farm[f], mint, m) \in Nat /\ Owns(fr, farm[f], mint, m) \in Nat
  <2>1. ASSUME NEW m \in Mints
        PROVE  /\ x \in FarmerOf(ms) /\ Keeps(fr, x)
               /\ Owns(x, farm[f], mint, m) \in Nat /\ Owns(fr, farm[f], mint, m) \in Nat
               /\ m \in ms /\ m \in DOMAIN farm[f].harvests =>
                    Owns(x, farm[f], mint, m) + fr.harvests[m] = Owns(fr, farm[f], mint, m) + h[m]
               /\ m \notin ms \/ m \notin DOMAIN farm[f].harvests =>
                    Owns(x, farm[f], mint, m) = Owns(fr, farm[f], mint, m)
    BY <1>2, <1>4, CreditOwns
  <2> HIDE DEF x
  <2>2. ASSUME NEW m \in Mints PROVE Owns(x, farm[f], mint, m) >= Owns(fr, farm[f], mint, m)
    <3>1. CASE m \in ms /\ m \in DOMAIN farm[f].harvests
      <4>1. fr.harvests[m] \in Nat /\ h[m] \in Nat /\ h[m] >= fr.harvests[m]
        BY <1>1, <1>3, <1>4, <3>1
      <4>2. QED
        BY <2>1, <3>1, <4>1
    <3>2. CASE ~(m \in ms /\ m \in DOMAIN farm[f].harvests)
      BY <2>1, <3>2
    <3>3. QED
      BY <3>1, <3>2
  <2>3. k \in Mints
    OBVIOUS
  <2>4. QED
    BY <2>1, <2>2, <2>3
<1>8. x # None
  BY <1>2, <1>7, NoneAssumption
<1>9. \A m \in Mints : wallet'[u][m] + Owns(x, farm[f], mint, m) >= wallet[u][m] + Owns(fr, farm[f], mint, m)
  <2> HIDE DEF x
  <2>1. QED
    BY <1>6, <1>7
<1> HIDE DEF x
<1>10. \A v \in Users \ {u}, m \in Mints : wallet'[v][m] = wallet[v][m]
  BY <1>6
<1>11. QED
  BY <1>1, <1>5, <1>7, <1>8, <1>9, <1>10, FairWhenKept, Zenon DEF fr, mint

\* claim_eligible_harvest: the wallet gets the credit.
LEMMA ClaimIsFair ==
  ASSUME Orderly, Orderly', NEW f \in Farms, NEW u \in Users, NEW ks \in SUBSET Mints,
         ClaimEligibleHarvest(f, u, ks)
  PROVE  \E x : IsFairTo(f, u, x)
<1> DEFINE fr == farmer[f][u]
           mint == StakeMint[f]
           got == [m \in Mints |->
                     IF FarmerExists(f, u) /\ m \in ks \cap DOMAIN farmer[f][u].harvests
                       THEN farmer[f][u].harvests[m] ELSE 0]
           h == [m \in DOMAIN fr.harvests |-> IF m \in ks THEN 0 ELSE fr.harvests[m]]
           x == [fr EXCEPT !.harvests = h]
<1>1. /\ FarmerExists(f, u) /\ \A m \in ks : m \in DOMAIN farm[f].harvests
      /\ farmer' = [farmer EXCEPT ![f][u] = x]
      /\ wallet' = [wallet EXCEPT ![u] = [m \in Mints |-> @[m] + got[m]]]
      /\ UNCHANGED <<slot, farm>>
  BY Zenon DEF ClaimEligibleHarvest, HasHarvest
<1>2. PICK ms \in SUBSET Mints : fr \in FarmerOf(ms)
  BY <1>1, ExistingFarmer DEF Orderly
<1>3. fr.harvests \in [ms -> Nat]
  BY <1>2 DEF FarmerOf
<1>4. /\ h \in [ms -> Nat]
      /\ \A m \in ms : h[m] + got[m] = fr.harvests[m]
      /\ \A m \in Mints : got[m] \in Nat /\ (m \notin ms \/ m \notin ks => got[m] = 0)
  BY <1>1, <1>2, <1>3
<1> HIDE DEF got, h
<1>5. /\ \A v \in Users \ {u}, m \in Mints : wallet'[v][m] = wallet[v][m]
      /\ \A m \in Mints : wallet'[u][m] = wallet[u][m] + got[m] /\ wallet[u][m] \in Nat
  <2>1. wallet \in [Owners -> [Mints -> Nat]] /\ u \in Owners /\ Users \subseteq Owners
    BY DEF Orderly, Typed, BalancesTyped, Owners
  <2>2. QED
    BY <1>1, <2>1
<1> HIDE DEF fr
<1>6. ASSUME NEW m \in Mints
      PROVE  /\ x \in FarmerOf(ms) /\ Keeps(fr, x)
             /\ Owns(x, farm[f], mint, m) \in Nat /\ Owns(fr, farm[f], mint, m) \in Nat
             /\ m \in ms /\ m \in DOMAIN farm[f].harvests =>
                  Owns(x, farm[f], mint, m) + fr.harvests[m] = Owns(fr, farm[f], mint, m) + h[m]
             /\ m \notin ms \/ m \notin DOMAIN farm[f].harvests =>
                  Owns(x, farm[f], mint, m) = Owns(fr, farm[f], mint, m)
  BY <1>2, <1>4, CreditOwns
<1> HIDE DEF x
<1>7. x \in FarmerOf(ms) /\ Keeps(fr, x) /\ x # None
  <2>1. mint \in Mints
    OBVIOUS
  <2>2. QED
    BY <1>2, <1>6, <2>1, NoneAssumption
<1>8. ASSUME NEW m \in Mints
      PROVE  wallet'[u][m] + Owns(x, farm[f], mint, m) >= wallet[u][m] + Owns(fr, farm[f], mint, m)
  <2> DEFINE a == Owns(x, farm[f], mint, m)
             b == Owns(fr, farm[f], mint, m)
             coins == wallet[u][m]
  <2>1. a \in Nat /\ b \in Nat /\ coins \in Nat /\ wallet'[u][m] = coins + got[m] /\ got[m] \in Nat
    BY <1>4, <1>5, <1>6
  <2>2. a + got[m] = b
    <3>1. CASE m \in ms /\ m \in DOMAIN farm[f].harvests
      <4>1. fr.harvests[m] \in Nat /\ h[m] \in Nat /\ h[m] + got[m] = fr.harvests[m]
        BY <1>3, <1>4, <3>1
      <4>2. a + fr.harvests[m] = b + h[m]
        BY <1>6, <3>1
      <4>3. \A A, B, F, G, H \in Nat : A + F = B + H /\ H + G = F => A + G = B
        OBVIOUS
      <4> HIDE DEF a, b, coins
      <4>4. QED
        BY <2>1, <4>1, <4>2, <4>3
    <3>2. CASE ~(m \in ms /\ m \in DOMAIN farm[f].harvests)
      <4>1. got[m] = 0 /\ a = b
        BY <1>1, <1>4, <1>6, <3>2
      <4> HIDE DEF a, b, coins
      <4>2. b + 0 = b
        BY <2>1
      <4>3. a + got[m] = b + 0
        BY <4>1
      <4>4. QED
        BY <4>2, <4>3
    <3>3. QED
      BY <3>1, <3>2
  <2> HIDE DEF a, b, coins
  <2>3. wallet'[u][m] + a >= coins + b
    BY <2>1, <2>2
  <2>4. QED
    BY <2>3 DEF a, b, coins
<1>9. QED
  BY <1>1, <1>5, <1>7, <1>8, FairWhenKept, Zenon DEF fr, mint

\* A user's transaction in one farm.
LEMMA UserMoves ==
  ASSUME Orderly, Orderly', NEW f \in Farms, NEW w \in Users, FarmerNext(f, w),
         NEW u \in Users, NEW m \in Mints
  PROVE  KeepsAll(u, m) \/ \E g \in Farms : Moves(g, u, m)
<1>1. SUFFICES \E x : IsFairTo(f, w, x)
  BY FairMoves
<1>2. CASE CreateFarmer(f, w)
  BY <1>2, CreateFarmerIsFair
<1>3. CASE \E lag \in Lags : UpdateEligibleHarvestUntil(f, w, Larger(0, slot - lag))
  <2>1. PICK lag \in Lags : UpdateEligibleHarvestUntil(f, w, Larger(0, slot - lag))
    BY <1>3
  <2> DEFINE until == Larger(0, slot - lag)
  <2>2. until \in Nat
    BY DEF Larger, Orderly, Typed, BalancesTyped
  <2>3. UpdateEligibleHarvestUntil(f, w, until)
    BY <2>1
  <2> HIDE DEF until
  <2>4. QED
    BY <2>2, <2>3, UpdateIsFair
<1>4. CASE \E stake \in StakeAmounts : StartFarming(f, w, stake)
  BY <1>4, StartFarmingIsFair
<1>5. CASE \E max \in UnstakeAmounts : StopFarming(f, w, max)
  BY <1>5, StopFarmingIsFair
<1>6. CASE \E ks \in SUBSET Mints : ClaimEligibleHarvest(f, w, ks)
  BY <1>6, ClaimIsFair
<1>7. CASE \E k \in Mints, amount \in AirdropAmounts, a \in Admins : Airdrop(f, w, k, amount, a)
  BY <1>7, AirdropIsFair
<1>8. CASE CompoundSameFarm(f, w)
  BY <1>8, CompoundSameIsFair
<1>9. CASE CloseFarmer(f, w)
  BY <1>9, CloseFarmerIsFair
<1>10. QED
  BY <1>2, <1>3, <1>4, <1>5, <1>6, <1>7, <1>8, <1>9 DEF FarmerNext

-----------------------------------------------------------------------------
(* What the other transactions, and time, leave of it.                     *)

\* A farm whose harvests are written.
LEMMA WrittenHarvests ==
  ASSUME Typed, NEW f \in Farms, FarmExists(f), NEW h,
         farm' = [farm EXCEPT ![f] = [farm[f] EXCEPT !.harvests = h]]
  PROVE  /\ farm'[f].harvests = h /\ farm'[f].snapshots = farm[f].snapshots
         /\ \A g \in Farms \ {f} : farm'[g] = farm[g]
<1> DEFINE x == [farm[f] EXCEPT !.harvests = h]
<1>1. PICK hs \in SUBSET Mints : farm[f] \in FarmOf(hs)
  BY ExistingFarm
<1>2. x.harvests = h /\ x.snapshots = farm[f].snapshots
  BY <1>1 DEF FarmOf
<1> HIDE DEF x
<1>3. QED
  BY <1>2, WrittenFarm, Zenon DEF x

\* The owner and the window are no part of a farm's history.
LEMMA WrittenSettings ==
  ASSUME Typed, NEW f \in Farms,
         \/ \E a \in Admins : SetFarmOwner(f, a)
         \/ \E w \in Windows : SetMinSnapshotWindow(f, w)
  PROVE  /\ farm'[f].snapshots = farm[f].snapshots /\ farm'[f].harvests = farm[f].harvests
         /\ \A g \in Farms \ {f} : farm'[g] = farm[g]
<1>1. PICK hs \in SUBSET Mints : farm[f] \in FarmOf(hs)
  BY ExistingFarm DEF SetFarmOwner, SetMinSnapshotWindow
<1>2. CASE \E a \in Admins : SetFarmOwner(f, a)
  <2>1. PICK a \in Admins : farm' = [farm EXCEPT ![f] = [farm[f] EXCEPT !.admin = a]]
    BY <1>2, Zenon DEF SetFarmOwner
  <2> DEFINE x == [farm[f] EXCEPT !.admin = a]
  <2>2. x.snapshots = farm[f].snapshots /\ x.harvests = farm[f].harvests
    BY <1>1 DEF FarmOf
  <2>3. farm' = [farm EXCEPT ![f] = x]
    BY <2>1
  <2> HIDE DEF x
  <2>4. QED
    BY <2>2, <2>3, WrittenFarm
<1>3. CASE \E w \in Windows : SetMinSnapshotWindow(f, w)
  <2>1. PICK w \in Windows : farm' = [farm EXCEPT ![f] = [farm[f] EXCEPT !.minWindow = w]]
    BY <1>3, Zenon DEF SetMinSnapshotWindow
  <2> DEFINE x == [farm[f] EXCEPT !.minWindow = w]
  <2>2. x.snapshots = farm[f].snapshots /\ x.harvests = farm[f].harvests
    BY <1>1 DEF FarmOf
  <2>3. farm' = [farm EXCEPT ![f] = x]
    BY <2>1
  <2> HIDE DEF x
  <2>4. QED
    BY <2>2, <2>3, WrittenFarm
<1>4. QED
  BY <1>2, <1>3

\* A user who keeps the wallet and the farmers keeps all, if one farm changes
\* and what is pending there does not, but for a harvest that owes nothing.
LEMMA FarmKeeps ==
  ASSUME Orderly, Orderly', UNCHANGED <<slot, farmer>>, NEW f \in Farms, NEW u \in Users,
         NEW m \in Mints, wallet'[u][m] = wallet[u][m],
         \A g \in Farms \ {f} : farm'[g] = farm[g],
         FarmerExists(f, u) /\ m \in DOMAIN farm[f].harvests =>
           \/ /\ m \in DOMAIN farm'[f].harvests
              /\ Pending(farmer[f][u], farm'[f].snapshots, farm'[f].harvests[m], slot)
                   = Pending(farmer[f][u], farm[f].snapshots, farm[f].harvests[m], slot)
           \/ Credit(farmer[f][u], m)
                + Pending(farmer[f][u], farm[f].snapshots, farm[f].harvests[m], slot) = 0
  PROVE  KeepsAll(u, m)
<1>1. wallet'[u][m] >= wallet[u][m]
  <2>1. wallet[u][m] \in Nat
    BY DEF Orderly, Typed, BalancesTyped, Owners
  <2>2. QED
    BY <2>1
<1>2. \A g \in Farms : Held(g, u, m) \in Nat
  BY HeldTypes
<1>3. ASSUME NEW g \in Farms \ {f} PROVE Held(g, u, m)' >= Held(g, u, m)
  <2>1. Held(g, u, m)' = Held(g, u, m)
    BY DEF Held
  <2>2. QED
    BY <1>2, <2>1
<1>4. Held(f, u, m)' >= Held(f, u, m)
  <2> DEFINE fr == farmer[f][u]
             fm == farm[f]
             fm2 == farm'[f]
             mint == StakeMint[f]
  <2>1. CASE ~FarmerExists(f, u)
    BY <2>1 DEF FarmerExists, Held, Holding
  <2>2. CASE FarmerExists(f, u)
    <3>1. InFarm(fr, fm, slot) /\ InFarm(fr, fm2, slot)
      <4>1. FarmerExists(f, u)'
        BY <2>2 DEF FarmerExists
      <4>2. InFarm(farmer'[f][u], farm'[f], slot')
        BY <4>1, HeldTypesNext
      <4>3. QED
        BY <2>2, <4>2, HeldTypes
    <3>2. m \in DOMAIN fm.harvests => Pending(fr, fm.snapshots, fm.harvests[m], slot) \in Nat
      BY <3>1, HoldingParts, Zenon
    <3>3. m \in DOMAIN fm.harvests =>
            \/ /\ m \in DOMAIN fm2.harvests
               /\ Pending(fr, fm2.snapshots, fm2.harvests[m], slot)
                    >= Pending(fr, fm.snapshots, fm.harvests[m], slot)
            \/ Credit(fr, m) + Pending(fr, fm.snapshots, fm.harvests[m], slot) = 0
      BY <2>2, <3>2
    <3> HIDE DEF fr, fm, fm2, mint
    <3>4. Holding(fr, fm2, mint, m, slot) >= Holding(fr, fm, mint, m, slot)
      BY <3>1, <3>3, HoldsWhenFarmChanges
    <3>5. QED
      BY <3>4 DEF Held, fr, fm, fm2, mint
  <2>3. QED
    BY <2>1, <2>2
<1>5. QED
  BY <1>1, <1>3, <1>4 DEF KeepsAll

\* create_farm: nobody had anything in a farm that did not exist.
LEMMA CreateFarmKeeps ==
  ASSUME Orderly, Orderly', NEW f \in Farms, NEW a \in Admins, CreateFarm(f, a),
         NEW u \in Users, NEW m \in Mints
  PROVE  KeepsAll(u, m)
<1>1. ~FarmExists(f) /\ UNCHANGED <<slot, farmer, wallet>>
  BY DEF CreateFarm
<1>2. \A g \in Farms \ {f} : farm'[g] = farm[g]
  <2> DEFINE x == [admin |-> a, snapshots |-> EmptyBuffer, minWindow |-> 0,
                   harvests |-> [k \in {} |-> NoPeriods]]
  <2>1. farm' = [farm EXCEPT ![f] = x]
    BY DEF CreateFarm
  <2> HIDE DEF x
  <2>2. QED
    BY <2>1, WrittenFarm DEF Orderly
<1>3. ~FarmerExists(f, u)
  BY <1>1 DEF Orderly, Typed, FarmersHaveFarms
<1>4. QED
  BY <1>1, <1>2, <1>3, FarmKeeps

\* The owner and the window have no part in it.
LEMMA SettingsKeep ==
  ASSUME Orderly, Orderly', NEW f \in Farms,
         \/ \E a \in Admins : SetFarmOwner(f, a)
         \/ \E w \in Windows : SetMinSnapshotWindow(f, w),
         NEW u \in Users, NEW m \in Mints
  PROVE  KeepsAll(u, m)
<1>1. FarmExists(f) /\ UNCHANGED <<slot, farmer, wallet>>
  BY DEF SetFarmOwner, SetMinSnapshotWindow
<1>2. /\ farm'[f].snapshots = farm[f].snapshots /\ farm'[f].harvests = farm[f].harvests
      /\ \A g \in Farms \ {f} : farm'[g] = farm[g]
  BY <1>1, WrittenSettings DEF Orderly
<1>3. QED
  BY <1>1, <1>2, FarmKeeps

\* add_harvest leaves the other harvests alone.
LEMMA AddHarvestKeeps ==
  ASSUME Orderly, Orderly', NEW f \in Farms, NEW k \in Mints, AddHarvest(f, k),
         NEW u \in Users, NEW m \in Mints
  PROVE  KeepsAll(u, m)
<1> DEFINE old == farm[f].harvests
           h == [x \in DOMAIN old \cup {k} |-> IF x = k THEN NoPeriods ELSE old[x]]
<1>1. /\ FarmExists(f) /\ k \notin DOMAIN old /\ UNCHANGED <<slot, farmer, wallet>>
      /\ farm' = [farm EXCEPT ![f] = [farm[f] EXCEPT !.harvests = h]]
  BY DEF AddHarvest, HasHarvest
<1>2. m \in DOMAIN old => m \in DOMAIN h /\ h[m] = old[m]
  BY <1>1
<1> HIDE DEF h
<1>3. /\ farm'[f].harvests = h /\ farm'[f].snapshots = farm[f].snapshots
      /\ \A g \in Farms \ {f} : farm'[g] = farm[g]
  BY <1>1, WrittenHarvests, Zenon DEF Orderly
<1>4. QED
  BY <1>1, <1>2, <1>3, FarmKeeps

\* Of a harvest whose vault is empty nobody has credit, and nothing is pending.
LEMMA NothingIsOwed ==
  ASSUME Orderly, Funded, NEW f \in Farms, NEW m \in Mints, HasHarvest(f, m),
         harvestVault[f][m] = 0, NEW u \in Users, FarmerExists(f, u)
  PROVE  Credit(farmer[f][u], m)
           + Pending(farmer[f][u], farm[f].snapshots, farm[f].harvests[m], slot) = 0
<1> DEFINE S == Farmers(f)
           c == [v \in S |-> Credit(Updated(f, v, slot).farmer, m)]
           credit == Credit(farmer[f][u], m)
           pending == Pending(farmer[f][u], farm[f].snapshots, farm[f].harvests[m], slot)
<1>1. m \in DOMAIN farm[f].harvests /\ FarmExists(f)
  BY DEF HasHarvest
<1>2. Claimable(f, m) = 0
  <2>1. /\ Claimable(f, m) \in Nat /\ StillToRelease(f, m) \in Nat
        /\ harvestVault[f][m] >= Claimable(f, m) + StillToRelease(f, m)
    BY FundedIsSolvent
  <2>2. QED
    BY <2>1
<1>3. \A v \in S : c[v] \in Nat
  <2>1. ASSUME NEW v \in S PROVE c[v] \in Nat
    <3>1. FarmerExists(f, v) /\ v \in Users
      BY DEF Farmers
    <3>2. Credit(Updated(f, v, slot).farmer, m) \in Nat
      BY <1>1, <3>1, CreditIsDue
    <3>3. QED
      BY <3>2
  <2>2. QED
    BY <2>1
<1>4. SumFunctionOnSet(c, S) = 0
  BY <1>2 DEF Claimable, SumFunction
<1>5. u \in S /\ IsFiniteSet(S)
  <2>1. S \subseteq Users /\ u \in S
    BY DEF Farmers
  <2>2. QED
    BY <2>1, FS_Subset
<1>6. Credit(Updated(f, u, slot).farmer, m) = 0
  <2>1. c[u] = Credit(Updated(f, u, slot).farmer, m)
    BY <1>5
  <2> HIDE DEF c, S
  <2>2. /\ SumFunctionOnSet(c, S \ {u}) \in Nat
        /\ SumFunctionOnSet(c, S) = c[u] + SumFunctionOnSet(c, S \ {u})
    BY <1>3, <1>5, SumUnfolds, Zenon
  <2>3. c[u] \in Nat
    BY <1>3, <1>5
  <2>4. c[u] = 0
    BY <1>4, <2>2, <2>3
  <2>5. QED
    BY <2>1, <2>4
<1>7. InFarm(farmer[f][u], farm[f], slot) /\ slot \in Nat /\ slot <= slot
  BY OrderlyFarmer
<1>8. Credit(Updated(f, u, slot).farmer, m) >= credit + pending
  BY <1>1, <1>7, UpdateCredits DEF Updated
<1>9. credit \in Nat /\ pending \in Nat
  BY <1>1, <1>7, EarnedIsCredited
<1> HIDE DEF credit, pending
<1>10. credit + pending = 0
  BY <1>6, <1>8, <1>9
<1>11. QED
  BY <1>10 DEF credit, pending

\* remove_harvest takes a harvest that owes nothing.
LEMMA RemoveHarvestKeeps ==
  ASSUME Orderly, Orderly', Funded, NEW f \in Farms, NEW k \in Mints, RemoveHarvest(f, k),
         NEW u \in Users, NEW m \in Mints
  PROVE  KeepsAll(u, m)
<1> DEFINE old == farm[f].harvests
           h == [x \in DOMAIN old \ {k} |-> old[x]]
<1>1. /\ FarmExists(f) /\ HasHarvest(f, k) /\ harvestVault[f][k] = 0
      /\ UNCHANGED <<slot, farmer, wallet>>
      /\ farm' = [farm EXCEPT ![f] = [farm[f] EXCEPT !.harvests = h]]
  BY DEF RemoveHarvest, HasHarvest
<1>2. m \in DOMAIN old /\ m # k => m \in DOMAIN h /\ h[m] = old[m]
  OBVIOUS
<1> HIDE DEF h
<1>3. /\ farm'[f].harvests = h /\ farm'[f].snapshots = farm[f].snapshots
      /\ \A g \in Farms \ {f} : farm'[g] = farm[g]
  BY <1>1, WrittenHarvests, Zenon DEF Orderly
<1>4. CASE m = k
  <2>1. FarmerExists(f, u) =>
          Credit(farmer[f][u], m)
            + Pending(farmer[f][u], farm[f].snapshots, farm[f].harvests[m], slot) = 0
    BY <1>1, <1>4, NothingIsOwed
  <2>2. QED
    BY <1>1, <1>3, <2>1, FarmKeeps
<1>5. CASE m # k
  BY <1>1, <1>2, <1>3, <1>5, FarmKeeps
<1>6. QED
  BY <1>4, <1>5

\* new_harvest_period: unless it drops the last period too early, what the periods
\* released since the farmer's cursor stays, and the administrator pays for the rest.
LEMMA NewHarvestPeriodKeeps ==
  ASSUME Orderly, Orderly', NEW f \in Farms, NEW k \in Mints, NEW at \in Starts,
         NEW n \in Lengths, NEW tps \in Rates, NewHarvestPeriod(f, k, at, n, tps),
         NEW u \in Users, NEW m \in Mints, HistoryIsLongEnough(u, m)
  PROVE  KeepsAll(u, m)
<1> DEFINE ps       == farm[f].harvests[k]
           startsAt == IF at = 0 THEN slot ELSE at
           p        == [tps |-> tps, startsAt |-> startsAt, endsAt |-> startsAt + n - 1]
           charge   == TotalEmitted(p) - DepositedFor(ps)
           new      == SetPeriod(ps, slot, p)
           old      == farm[f].harvests
           h        == [old EXCEPT ![k] = new]
           oldest   == Oldest(farm[f].snapshots).startedAt
<1>1. /\ HasHarvest(f, k) /\ n # 0 /\ startsAt >= slot /\ AcceptsPeriod(ps, slot, p, oldest)
      /\ farm' = [farm EXCEPT ![f] = [farm[f] EXCEPT !.harvests = h]]
      /\ wallet' = [wallet EXCEPT ![farm[f].admin][k] = @ - charge]
      /\ UNCHANGED <<slot, farmer>>
  BY DEF NewHarvestPeriod
<1>2. FarmExists(f) /\ k \in DOMAIN old
  BY <1>1 DEF HasHarvest
<1>3. PICK hs \in SUBSET Mints : farm[f] \in FarmOf(hs)
  BY <1>2, ExistingFarm DEF Orderly
<1>4. /\ slot \in Nat \ {0} /\ slot > 0 /\ farm[f].snapshots \in Buffer
      /\ RingInOrder(farm[f].snapshots, slot) /\ ps \in Periods /\ OrderAt(ps, slot)
      /\ oldest \in Nat
  <2>1. /\ slot \in Nat \ {0} /\ farm[f].snapshots \in Buffer
        /\ RingInOrder(farm[f].snapshots, slot) /\ ps \in Periods /\ OrderAt(ps, slot)
    BY <1>2, FarmNumbers
  <2>2. oldest \in Nat
    BY <2>1, EndsOfRing DEF Snapshot, Slot
  <2>3. QED
    BY <2>1, <2>2
<1>5. p \in Period /\ p.startsAt >= slot
  <2>1. n \in Nat /\ tps \in Nat /\ at \in Int
    BY <1>4 DEF Starts
  <2>2. startsAt \in Int
    BY <1>4, <2>1
  <2>3. startsAt >= slot /\ n # 0
    BY <1>1
  <2> HIDE DEF startsAt
  <2>4. startsAt \in Nat /\ startsAt + n - 1 \in Nat
    BY <1>4, <2>1, <2>2, <2>3
  <2>5. p \in Period /\ p.startsAt = startsAt
    BY <2>1, <2>4 DEF Period
  <2>6. QED
    BY <2>3, <2>5
<1>6. wallet'[u][m] = wallet[u][m]
  <2>1. farm[f].admin \in Admins
    BY <1>3 DEF FarmOf
  <2>2. u # farm[f].admin /\ u \in Owners
    BY <2>1, DisjointAssumption DEF Owners
  <2>3. wallet \in [Owners -> [Mints -> Nat]]
    BY DEF Orderly, Typed, BalancesTyped
  <2> HIDE DEF charge
  <2>4. wallet'[u] = wallet[u]
    BY <1>1, <2>2, <2>3
  <2>5. QED
    BY <2>4
<1>7. DOMAIN h = DOMAIN old /\ h[k] = new /\ \A x \in DOMAIN old \ {k} : h[x] = old[x]
  <2> HIDE DEF new
  <2>1. QED
    BY <1>2
<1> HIDE DEF h, p
<1>8. /\ farm'[f].harvests = h /\ farm'[f].snapshots = farm[f].snapshots
      /\ \A g \in Farms \ {f} : farm'[g] = farm[g]
  BY <1>1, <1>2, WrittenHarvests, Zenon DEF Orderly
<1>9. CASE m = k
  <2>1. new \in Periods
    BY <1>1, <1>4, <1>5, SetPeriodType
  <2>2. FarmerExists(f, u) => IsStillThere(farmer[f][u], ps, new)
    <3>1. FarmerExists(f, u) => FarmExists(f)'
      BY <1>1 DEF Orderly, Typed, FarmersHaveFarms, FarmerExists
    <3>2. m \in DOMAIN farm'[f].harvests /\ farm'[f].harvests[m] = new /\ HasHarvest(f, m)
      BY <1>1, <1>2, <1>7, <1>8, <1>9
    <3> HIDE DEF new
    <3>3. FarmerExists(f, u) => HasHarvest(f, m)'
      BY <3>1, <3>2 DEF HasHarvest
    <3>4. QED
      BY <1>9, <3>2, <3>3 DEF HistoryIsLongEnough
  <2> HIDE DEF ps
  <2>3. FarmerExists(f, u) =>
          Pending(farmer[f][u], farm[f].snapshots, new, slot)
            = Pending(farmer[f][u], farm[f].snapshots, ps, slot)
    <3>1. SUFFICES ASSUME FarmerExists(f, u)
                   PROVE  Pending(farmer[f][u], farm[f].snapshots, new, slot)
                            = Pending(farmer[f][u], farm[f].snapshots, ps, slot)
      OBVIOUS
    <3>2. PICK ms \in SUBSET Mints : farmer[f][u] \in FarmerOf(ms)
      BY <3>1, ExistingFarmer DEF Orderly
    <3>3. slot \in Nat /\ farmer[f][u].nextFrom \in Nat
      BY <1>4, <3>2, AccountType
    <3>4. Near(farmer[f][u], farm[f].snapshots, slot)
      BY <1>2, <3>1, FarmNumbers DEF FarmerExists
    <3>5. \A s \in Int : s < slot /\ farmer[f][u].nextFrom <= s => TpsAt(new, s) = TpsAt(ps, s)
      <4>1. SUFFICES ASSUME NEW s \in Int, s < slot, farmer[f][u].nextFrom <= s
                     PROVE  TpsAt(new, s) = TpsAt(ps, s)
        OBVIOUS
      <4>2. \/ ~Used(ps[PeriodsLen]) \/ ps[PeriodsLen].endsAt < s
            \/ \E j \in 1 .. PeriodsLen : new[j] = ps[PeriodsLen]
        <5>1. ps[PeriodsLen].endsAt \in Nat
          BY <1>4 DEF Periods, Period
        <5> HIDE DEF new
        <5>2. QED
          BY <2>2, <3>1, <3>3, <4>1, <5>1 DEF IsStillThere
      <4> HIDE DEF oldest
      <4>3. QED
        BY <1>1, <1>4, <1>5, <3>3, <4>1, <4>2, RatesAreKept
    <3> HIDE DEF new
    <3>6. QED
      BY <1>4, <2>1, <3>2, <3>3, <3>4, <3>5, PendingAtSameRates
  <2> HIDE DEF new
  <2>4. QED
    BY <1>1, <1>2, <1>6, <1>7, <1>8, <1>9, <2>3, FarmKeeps DEF ps
<1>10. CASE m # k
  <2> HIDE DEF new
  <2>1. m \in DOMAIN old => m \in DOMAIN h /\ h[m] = old[m]
    BY <1>7, <1>10
  <2>2. QED
    BY <1>1, <1>6, <1>8, <2>1, FarmKeeps
<1>11. QED
  BY <1>9, <1>10

\* take_snapshot keeps all of a user whose windows the ring still holds.
LEMMA TakeSnapshotKeeps ==
  ASSUME Orderly, Orderly', NEW f \in Farms, TakeSnapshot(f), NEW u \in Users, NEW m \in Mints,
         FarmerExists(f, u) => IsRemembered(farmer[f][u], farm'[f].snapshots)
  PROVE  KeepsAll(u, m)
<1> DEFINE b == farm[f].snapshots
           c == farm'[f].snapshots
<1>1. /\ FarmExists(f) /\ FarmExists(f)' /\ c = Push(b, stakeVault[f], slot)
      /\ UNCHANGED <<slot, farmer, stakeVault>>
  BY TakenSnapshot, Zenon DEF Orderly
<1>2. /\ farm' = [farm EXCEPT ![f] = [farm[f] EXCEPT !.snapshots = c]]
      /\ UNCHANGED wallet
  BY <1>1, Zenon DEF TakeSnapshot
<1>3. /\ \A g \in Farms \ {f} : farm'[g] = farm[g]
      /\ farm'[f].harvests = farm[f].harvests
  <2>1. PICK hs \in SUBSET Mints : farm[f] \in FarmOf(hs)
    BY <1>1, ExistingFarm DEF Orderly
  <2> DEFINE x == [farm[f] EXCEPT !.snapshots = c]
  <2>2. x.harvests = farm[f].harvests
    BY <2>1 DEF FarmOf
  <2>3. farm' = [farm EXCEPT ![f] = x]
    BY <1>2
  <2> HIDE DEF x
  <2>4. QED
    BY <2>2, <2>3, WrittenFarm DEF Orderly
<1>4. ASSUME FarmerExists(f, u), m \in DOMAIN farm[f].harvests
      PROVE  Pending(farmer[f][u], c, farm[f].harvests[m], slot)
               = Pending(farmer[f][u], b, farm[f].harvests[m], slot)
  <2> DEFINE ps == farm[f].harvests[m]
             fr == farmer[f][u]
             amount == stakeVault[f]
             now == slot
  <2>1. /\ now \in Nat /\ now > 0 /\ b \in Buffer /\ RingInOrder(b, now) /\ ps \in Periods
        /\ amount \in Nat
    BY <1>1, <1>4, FarmNumbers
  <2>2. PICK ms \in SUBSET Mints : fr \in FarmerOf(ms)
    BY <1>4, ExistingFarmer DEF Orderly
  <2>3. RingInOrder(c, now)
    <3>1. HistoriesInOrder'
      BY DEF Orderly
    <3>2. QED
      BY <1>1, <3>1 DEF HistoriesInOrder, FarmInOrder
  <2>4. IsRemembered(fr, c)
    BY <1>4
  <2> HIDE DEF ps, fr, amount, now, b, c
  <2>5. c = Push(b, amount, now)
    BY <1>1 DEF b, c, amount, now
  <2>6. Pending(fr, Push(b, amount, now), ps, now) = Pending(fr, b, ps, now)
    BY <2>1, <2>2, <2>3, <2>4, <2>5, PendingAfterPush
  <2>7. QED
    BY <2>5, <2>6 DEF ps, fr, now
<1> HIDE DEF b, c
<1>5. QED
  BY <1>1, <1>2, <1>3, <1>4, FarmKeeps DEF b, c

\* Time takes nothing from anybody.
LEMMA TickKeeps ==
  ASSUME Orderly, Orderly', Tick, NEW u \in Users, NEW m \in Mints
  PROVE  KeepsAll(u, m)
<1>1. slot' = slot + 1 /\ UNCHANGED <<farm, farmer, wallet>> /\ slot \in Nat
  BY DEF Tick, Orderly, Typed, BalancesTyped
<1>2. wallet'[u][m] >= wallet[u][m]
  <2>1. wallet[u][m] \in Nat
    BY DEF Orderly, Typed, BalancesTyped, Owners
  <2>2. QED
    BY <1>1, <2>1
<1>3. ASSUME NEW f \in Farms PROVE Held(f, u, m)' >= Held(f, u, m)
  <2> DEFINE fr == farmer[f][u]
             fm == farm[f]
             mint == StakeMint[f]
             next == slot + 1
  <2>1. CASE ~FarmerExists(f, u)
    BY <1>1, <2>1 DEF FarmerExists, Held, Holding
  <2>2. CASE FarmerExists(f, u)
    <3>1. InFarm(fr, fm, slot) /\ InFarm(fr, fm, next)
      <4>1. FarmerExists(f, u)'
        BY <1>1, <2>2 DEF FarmerExists
      <4>2. InFarm(farmer'[f][u], farm'[f], slot')
        BY <4>1, HeldTypesNext
      <4>3. QED
        BY <1>1, <2>2, <4>2, HeldTypes
    <3>2. m \in DOMAIN fm.harvests =>
            Pending(fr, fm.snapshots, fm.harvests[m], next)
              >= Pending(fr, fm.snapshots, fm.harvests[m], slot)
      <4>1. SUFFICES ASSUME m \in DOMAIN fm.harvests
                     PROVE  Pending(fr, fm.snapshots, fm.harvests[m], next)
                              >= Pending(fr, fm.snapshots, fm.harvests[m], slot)
        OBVIOUS
      <4>2. FarmExists(f)
        BY <2>2, OrderlyFarmer
      <4>3. fm.snapshots \in Buffer /\ RingInOrder(fm.snapshots, slot) /\ fm.harvests[m] \in Periods
        BY <4>1, <4>2, FarmNumbers
      <4>4. PICK ms \in SUBSET Mints : fr \in FarmerOf(ms)
        BY <2>2, ExistingFarmer DEF Orderly
      <4>5. /\ Pending(fr, fm.snapshots, fm.harvests[m], slot) \in Nat
            /\ Pending(fr, fm.snapshots, fm.harvests[m], next) \in Nat
        BY <3>1, <4>1, HoldingParts, Zenon
      <4> HIDE DEF fr, fm
      <4>6. Pending(fr, fm.snapshots, fm.harvests[m], slot)
              <= Pending(fr, fm.snapshots, fm.harvests[m], next)
        BY <1>1, <4>3, <4>4, PendingGrows
      <4>7. QED
        BY <4>5, <4>6
    <3> HIDE DEF fr, fm, mint, next
    <3>3. Holding(fr, fm, mint, m, next) >= Holding(fr, fm, mint, m, slot)
      BY <3>1, <3>2, HoldsWhenFarmChanges
    <3>4. QED
      BY <1>1, <3>3 DEF Held, fr, fm, mint, next
  <2>3. QED
    BY <2>1, <2>2
<1>4. QED
  BY <1>2, <1>3 DEF KeepsAll

\* A step that leaves farms, farmers and wallets alone.
LEMMA StillKeeps ==
  ASSUME Orderly, UNCHANGED <<slot, farm, farmer, wallet>>, NEW u \in Users, NEW m \in Mints
  PROVE  KeepsAll(u, m)
<1>1. wallet[u][m] \in Nat
  BY DEF Orderly, Typed, BalancesTyped, Owners
<1>2. \A f \in Farms : Held(f, u, m)' = Held(f, u, m) /\ Held(f, u, m) \in Nat
  <2>1. \A f \in Farms : Held(f, u, m)' = Held(f, u, m)
    BY DEF Held
  <2>2. QED
    BY <2>1, HeldTypes
<1>3. QED
  BY <1>1, <1>2 DEF KeepsAll

\* An administrator's transaction.
LEMMA AdminKeeps ==
  ASSUME Orderly, Orderly', Funded, NEW f \in Farms, AdminNext(f),
         NEW u \in Users, NEW m \in Mints, HistoryIsLongEnough(u, m)
  PROVE  KeepsAll(u, m)
<1>1. CASE \E a \in Admins : CreateFarm(f, a)
  BY <1>1, CreateFarmKeeps
<1>2. CASE \/ \E a \in Admins : SetFarmOwner(f, a)
           \/ \E w \in Windows : SetMinSnapshotWindow(f, w)
  BY <1>2, SettingsKeep
<1>3. CASE \E k \in Mints : AddHarvest(f, k)
  BY <1>3, AddHarvestKeeps
<1>4. CASE \E k \in Mints : RemoveHarvest(f, k)
  BY <1>4, RemoveHarvestKeeps
<1>5. CASE \E k \in Mints, at \in Starts, n \in Lengths, tps \in Rates :
             NewHarvestPeriod(f, k, at, n, tps)
  <2>1. PICK k \in Mints, at \in Starts, n \in Lengths, tps \in Rates :
               NewHarvestPeriod(f, k, at, n, tps)
    BY <1>5
  <2>2. QED
    BY <2>1, NewHarvestPeriodKeeps
<1>6. CASE \/ \E g \in {t \in Farms : <<f, t>> \in Pairs} : WhitelistFarmForCompounding(f, g)
           \/ \E g \in Farms : DewhitelistFarmForCompounding(f, g)
  <2>1. UNCHANGED <<slot, farm, farmer, wallet>>
    BY <1>6, Zenon DEF WhitelistFarmForCompounding, DewhitelistFarmForCompounding
  <2>2. QED
    BY <2>1, StillKeeps
<1>7. QED
  BY <1>1, <1>2, <1>3, <1>4, <1>5, <1>6 DEF AdminNext

\* Every transaction keeps what a user has, or moves it within one farm and the
\* wallet.
LEMMA WealthStep ==
  ASSUME ~Across, Inv, Inv', [OrderlyNext]_vars, NEW u \in Users, NEW m \in Mints,
         HistoryIsLongEnough(u, m)
  PROVE  KeepsAll(u, m) \/ \E f \in Farms : Moves(f, u, m)
<1>1. Orderly /\ Orderly' /\ Funded
  BY DEF Inv, Orderly
<1>2. CASE UNCHANGED vars
  BY <1>1, <1>2, StillKeeps DEF vars
<1>3. CASE OrderlyNext
  <2>1. CASE \E f \in Farms : AdminNext(f)
    BY <1>1, <2>1, AdminKeeps
  <2>2. CASE \E f \in Farms : TakeSnapshot(f)
    BY <1>1, <2>2, TakeSnapshotKeeps DEF HistoryIsLongEnough
  <2>3. CASE \E f \in Farms, w \in Users : FarmerNext(f, w)
    BY <1>1, <2>3, UserMoves
  <2>4. ASSUME NEW f \in Farms, NEW g \in Farms, NEW w \in Users, CompoundAcrossFarms(f, g, w)
        PROVE  FALSE
    <3>1. <<f, g>> \in Pairs /\ f # g
      BY <1>1, <2>4 DEF CompoundAcrossFarms, Orderly, Typed, BalancesTyped
    <3>2. <<f, g>>[1] # <<f, g>>[2]
      BY <3>1
    <3>3. QED
      BY ONLY <3>1, <3>2, ~Across DEF Across
  <2>5. CASE Tick
    BY <1>1, <2>5, TickKeeps
  <2>6. QED
    BY <1>3, <2>1, <2>2, <2>3, <2>4, <2>5 DEF OrderlyNext, Next
<1>4. QED
  BY <1>2, <1>3

\* Where nobody compounds across farms, users lose nothing that the ring and the
\* periods still tell to what others do, to time or to the rounding of their own
\* transactions, but for the token that an update which stops in the past may cost.
THEOREM NothingIsLost ==
  ASSUME ~Across
  PROVE  OrderlySpec => WealthIsKept
<1>1. ASSUME Inv, Inv', [OrderlyNext]_vars
      PROVE  \A u \in Users, m \in Mints :
               LET before == Wealth(wallet[u], [f \in Farms |-> farmer[f][u]], farm, m, slot)
                   after  == Wealth(wallet'[u], [f \in Farms |-> farmer'[f][u]], farm', m, slot')
               IN  HistoryIsLongEnough(u, m)
                   => /\ after + 1 >= before
                      /\ (\A f \in Farms : farmer'[f][u] = farmer[f][u]) => after >= before
  <2>1. SUFFICES
          ASSUME NEW u \in Users, NEW m \in Mints, HistoryIsLongEnough(u, m)
          PROVE  LET before == Wealth(wallet[u], [f \in Farms |-> farmer[f][u]], farm, m, slot)
                     after  == Wealth(wallet'[u], [f \in Farms |-> farmer'[f][u]], farm', m, slot')
                 IN  /\ after + 1 >= before
                     /\ (\A f \in Farms : farmer'[f][u] = farmer[f][u]) => after >= before
    OBVIOUS
  <2>2. Orderly /\ Orderly'
    BY <1>1 DEF Inv, Orderly
  <2>3. KeepsAll(u, m) \/ \E f \in Farms : Moves(f, u, m)
    BY <1>1, <2>1, WealthStep
  <2>4. QED
    BY <2>2, <2>3, WealthMoves
<1>2. OrderlySpec => []Inv /\ [][OrderlyNext]_vars
  BY AlwaysInv, PTL DEF OrderlySpec
<1>3. QED
  BY <1>1, <1>2, PTL DEF WealthIsKept
=============================================================================
