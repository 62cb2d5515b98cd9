------------------------------- MODULE Farming -------------------------------
(***************************************************************************)
(* The farming program (programs/farming): every endpoint as an action on  *)
(* the accounts it reads and writes.  A transaction is atomic: when an     *)
(* endpoint fails nothing changes, so an endpoint's checks are the guards  *)
(* of its action.  Any number of transactions may run in one slot, in any  *)
(* order; the interleaving of actions between two ticks is that order.     *)
(*                                                                         *)
(* The SPL token program is external: token accounts are the balances in   *)
(* stakeVault, harvestVault and wallet, and a transfer needs its funds.    *)
(***************************************************************************)
EXTENDS FarmerAccount

CONSTANTS
  Farms, Users, Admins, Mints,
  StakeMint,        \* the mint that each farm stakes
  MaxHarvestMints,  \* consts::MAX_HARVEST_MINTS
  None              \* an account that does not exist

\* The farms that have harvests of exactly these mints.
FarmOf(mints) ==
  [admin : Admins, snapshots : Buffer, minWindow : Nat, harvests : [mints -> Periods]]

IsFarm(fm) == \E ms \in SUBSET Mints : fm \in FarmOf(ms)

\* Bounds: what a transaction may ask for.
CONSTANTS
  StakeAmounts, UnstakeAmounts, AirdropAmounts, Rates, Lengths, Delays, Windows,
  Pairs,          \* the farms that may be whitelisted: <<source, target>>
  Lags,           \* how far back an update may be asked to stop
  InitialWallet,  \* what everybody owns of each mint
  MaxSlot         \* the last slot explored

ASSUME StakeMintAssumption == StakeMint \in [Farms -> Mints]
ASSUME MaxHarvestMintsAssumption == MaxHarvestMints \in Nat
ASSUME NoneAssumption ==
  \A ms \in SUBSET Mints : None \notin FarmOf(ms) /\ None \notin FarmerOf(ms)
ASSUME FarmsAssumption == IsFiniteSet(Farms)
ASSUME UsersAssumption == IsFiniteSet(Users)
ASSUME DisjointAssumption == Users \cap Admins = {}
ASSUME InitialWalletAssumption == InitialWallet \in [Users \cup Admins -> [Mints -> Nat]]
ASSUME BoundsAssumption ==
  /\ StakeAmounts \cup UnstakeAmounts \cup AirdropAmounts \subseteq Nat
  /\ Rates \cup Lengths \cup Windows \cup Lags \cup {MaxSlot} \subseteq Nat
  /\ Delays \subseteq Int
  /\ Pairs \subseteq Farms \X Farms

VARIABLES
  slot,          \* Clock::get()?.slot
  farm,          \* the Farm accounts
  farmer,        \* the Farmer accounts, one PDA per farm and user
  stakeVault,    \* balance of each farm's stake vault
  harvestVault,  \* balance of each farm's harvest vaults
  wallet,        \* balances outside the program
  whitelist      \* the WhitelistCompounding PDAs: <<source farm, target farm>>

vars == <<slot, farm, farmer, stakeVault, harvestVault, wallet, whitelist>>

Owners == Users \cup Admins

TypeOK ==
  /\ slot \in Nat \ {0}
  /\ DOMAIN farm = Farms
  /\ \A f \in Farms : farm[f] = None \/ IsFarm(farm[f])
  /\ DOMAIN farmer = Farms
  /\ \A f \in Farms :
       /\ DOMAIN farmer[f] = Users
       /\ \A u \in Users : farmer[f][u] = None \/ IsFarmer(farmer[f][u], Mints)
  /\ stakeVault \in [Farms -> Nat]
  /\ harvestVault \in [Farms -> [Mints -> Nat]]
  /\ wallet \in [Owners -> [Mints -> Nat]]
  /\ whitelist \subseteq Farms \X Farms

Init ==
  /\ slot = 1
  /\ farm = [f \in Farms |-> None]
  /\ farmer = [f \in Farms |-> [u \in Users |-> None]]
  /\ stakeVault = [f \in Farms |-> 0]
  /\ harvestVault = [f \in Farms |-> [m \in Mints |-> 0]]
  /\ wallet = InitialWallet
  /\ whitelist = {}

FarmExists(f)      == farm[f] # None
FarmerExists(f, u) == farmer[f][u] # None

\* A harvest vault exists as long as its mint is one of the farm's harvests:
\* add_harvest creates both, remove_harvest deletes both.
HasHarvest(f, m) == FarmExists(f) /\ m \in DOMAIN farm[f].harvests

-----------------------------------------------------------------------------
(* The admin's endpoints.  Only the current admin's signature is accepted. *)

CreateFarm(f, a) ==
  /\ ~FarmExists(f)
  /\ farm' = [farm EXCEPT ![f] = [admin |-> a, snapshots |-> EmptyBuffer, minWindow |-> 0,
                                  harvests |-> [m \in {} |-> NoPeriods]]]
  /\ UNCHANGED <<slot, farmer, stakeVault, harvestVault, wallet, whitelist>>

SetFarmOwner(f, a) ==
  /\ FarmExists(f)
  /\ farm' = [farm EXCEPT ![f].admin = a]
  /\ UNCHANGED <<slot, farmer, stakeVault, harvestVault, wallet, whitelist>>

AddHarvest(f, m) ==
  /\ FarmExists(f) /\ ~HasHarvest(f, m)
  /\ Cardinality(DOMAIN farm[f].harvests) < MaxHarvestMints
  /\ farm' = [farm EXCEPT ![f].harvests =
                [x \in DOMAIN @ \cup {m} |-> IF x = m THEN NoPeriods ELSE @[x]]]
  /\ UNCHANGED <<slot, farmer, stakeVault, harvestVault, wallet, whitelist>>

\* Broken variant: the vault need not be empty.
RemoveHarvestAnyTime(f, m) ==
  /\ HasHarvest(f, m)
  /\ farm' = [farm EXCEPT ![f].harvests = [x \in DOMAIN @ \ {m} |-> @[x]]]
  /\ harvestVault' = [harvestVault EXCEPT ![f][m] = 0]
  /\ UNCHANGED <<slot, farmer, stakeVault, wallet, whitelist>>

RemoveHarvest(f, m) ==
  /\ HasHarvest(f, m)
  /\ harvestVault[f][m] = 0
  /\ farm' = [farm EXCEPT ![f].harvests = [x \in DOMAIN @ \ {m} |-> @[x]]]
  /\ UNCHANGED <<slot, farmer, stakeVault, harvestVault, wallet, whitelist>>

SetMinSnapshotWindow(f, w) ==
  /\ FarmExists(f)
  /\ farm' = [farm EXCEPT ![f].minWindow = w]
  /\ UNCHANGED <<slot, farmer, stakeVault, harvestVault, wallet, whitelist>>

\* Broken variant: a period that runs is refunded like a scheduled one.
DepositedForAny(ps) == IF Used(ps[1]) THEN TotalEmitted(ps[1]) ELSE 0

\* What an edited launch already paid for.
DepositedFor(ps) == IF IsScheduled(ps, slot) THEN TotalEmitted(ps[1]) ELSE 0

\* See module Emission for the endpoint on its own.
NewHarvestPeriod(f, m, startsArg, length, tps) ==
  /\ HasHarvest(f, m)
  /\ LET ps       == farm[f].harvests[m]
         startsAt == IF startsArg = 0 THEN slot ELSE startsArg
         p        == [tps |-> tps, startsAt |-> startsAt, endsAt |-> startsAt + length - 1]
         charge   == TotalEmitted(p) - DepositedFor(ps)
     IN  /\ length # 0
         /\ startsAt >= slot
         /\ AcceptsPeriod(ps, slot, p, Oldest(farm[f].snapshots).startedAt)
         /\ charge <= wallet[farm[f].admin][m]
         /\ -charge <= harvestVault[f][m]
         /\ farm' = [farm EXCEPT ![f].harvests[m] = SetPeriod(ps, slot, p)]
         /\ wallet' = [wallet EXCEPT ![farm[f].admin][m] = @ - charge]
         /\ harvestVault' = [harvestVault EXCEPT ![f][m] = @ + charge]
  /\ UNCHANGED <<slot, farmer, stakeVault, whitelist>>

WhitelistFarmForCompounding(source, target) ==
  /\ FarmExists(source) /\ FarmExists(target)
  /\ <<source, target>> \notin whitelist
  /\ whitelist' = whitelist \cup {<<source, target>>}
  /\ UNCHANGED <<slot, farm, farmer, stakeVault, harvestVault, wallet>>

DewhitelistFarmForCompounding(source, target) ==
  /\ <<source, target>> \in whitelist
  /\ whitelist' = whitelist \ {<<source, target>>}
  /\ UNCHANGED <<slot, farm, farmer, stakeVault, harvestVault, wallet>>

-----------------------------------------------------------------------------
(* Endpoints that anybody may call.                                        *)

TakeSnapshot(f) ==
  /\ FarmExists(f)
  /\ SufficientTimePassed(farm[f].snapshots, farm[f].minWindow, slot)
  /\ farm' = [farm EXCEPT ![f].snapshots = Push(@, stakeVault[f], slot)]
  /\ UNCHANGED <<slot, farmer, stakeVault, harvestVault, wallet, whitelist>>

CreateFarmer(f, u) ==
  /\ FarmExists(f) /\ ~FarmerExists(f, u)
  /\ farmer' = [farmer EXCEPT ![f][u] = NewFarmer(DOMAIN farm[f].harvests)]
  /\ UNCHANGED <<slot, farm, stakeVault, harvestVault, wallet, whitelist>>

\* Broken variant: the farmer's harvest is not calculated first.
NotUpdated(f, u, current) == [ok |-> TRUE, farmer |-> farmer[f][u]]

\* The farmer after check_vested_period_and_update_harvest.
Updated(f, u, current) == CheckVestedAndUpdate(farmer[f][u], farm[f], current)

\* update_eligible_harvest_until; update_eligible_harvest has until = slot.
UpdateEligibleHarvestUntil(f, u, until) ==
  /\ FarmerExists(f, u)
  /\ \E new \in {Updated(f, u, Smaller(slot, until))} :
       new.ok /\ farmer' = [farmer EXCEPT ![f][u] = new.farmer]
  /\ UNCHANGED <<slot, farm, stakeVault, harvestVault, wallet, whitelist>>

UpdateEligibleHarvest(f, u) == UpdateEligibleHarvestUntil(f, u, slot)

\* Anybody may stake for a farmer; here the farmer's own wallet pays.
StartFarming(f, u, stake) ==
  /\ stake # 0
  /\ FarmerExists(f, u)
  /\ stake <= wallet[u][StakeMint[f]]
  /\ \E new \in {Updated(f, u, slot)} :
       new.ok /\ farmer' = [farmer EXCEPT ![f][u] = AddToVested(new.farmer, slot, stake)]
  /\ wallet' = [wallet EXCEPT ![u][StakeMint[f]] = @ - stake]
  /\ stakeVault' = [stakeVault EXCEPT ![f] = @ + stake]
  /\ UNCHANGED <<slot, farm, harvestVault, whitelist>>

Airdrop(f, u, m, amount, payer) ==
  /\ amount # 0
  /\ FarmerExists(f, u) /\ HasHarvest(f, m)
  /\ m \in DOMAIN farmer[f][u].harvests
  /\ amount <= wallet[payer][m]
  /\ farmer' = [farmer EXCEPT ![f][u].harvests[m] = @ + amount]
  /\ wallet' = [wallet EXCEPT ![payer][m] = @ - amount]
  /\ harvestVault' = [harvestVault EXCEPT ![f][m] = @ + amount]
  /\ UNCHANGED <<slot, farm, stakeVault, whitelist>>

CompoundSameFarm(f, u) ==
  /\ FarmerExists(f, u)
  /\ <<f, f>> \in whitelist
  /\ HasHarvest(f, StakeMint[f])
  /\ \E new \in {Updated(f, u, slot)} :
     LET got == new.farmer.harvests[StakeMint[f]]
     IN  /\ new.ok /\ StakeMint[f] \in DOMAIN new.farmer.harvests
         /\ got <= harvestVault[f][StakeMint[f]]
         /\ farmer' = [farmer EXCEPT
              ![f][u] = AddToVested(ClaimHarvest(new.farmer, StakeMint[f]), slot, got)]
         /\ harvestVault' = [harvestVault EXCEPT ![f][StakeMint[f]] = @ - got]
         /\ stakeVault' = [stakeVault EXCEPT ![f] = @ + got]
  /\ UNCHANGED <<slot, farm, wallet, whitelist>>

\* The source farmer is updated first; the target farmer is not.
CompoundAcrossFarms(source, target, u) ==
  /\ source # target
  /\ FarmerExists(source, u) /\ FarmerExists(target, u)
  /\ <<source, target>> \in whitelist
  /\ HasHarvest(source, StakeMint[target])
  /\ \E new \in {Updated(source, u, slot)} :
     LET got == new.farmer.harvests[StakeMint[target]]
     IN  /\ new.ok /\ StakeMint[target] \in DOMAIN new.farmer.harvests
         /\ got <= harvestVault[source][StakeMint[target]]
         /\ farmer' = [farmer EXCEPT
              ![source][u] = ClaimHarvest(new.farmer, StakeMint[target]),
              ![target][u] = AddToVested(@, slot, got)]
         /\ harvestVault' = [harvestVault EXCEPT ![source][StakeMint[target]] = @ - got]
         /\ stakeVault' = [stakeVault EXCEPT ![target] = @ + got]
  /\ UNCHANGED <<slot, farm, wallet, whitelist>>

-----------------------------------------------------------------------------
(* The farmer's own endpoints.                                             *)

StopFarming(f, u, max) ==
  /\ max # 0
  /\ FarmerExists(f, u)
  /\ \E new \in {Updated(f, u, slot)} :
     LET got == UnstakedAmount(new.farmer, max)
     IN  /\ new.ok
         /\ got <= stakeVault[f]
         /\ farmer' = [farmer EXCEPT ![f][u] = Unstake(new.farmer, max)]
         /\ stakeVault' = [stakeVault EXCEPT ![f] = @ - got]
         /\ wallet' = [wallet EXCEPT ![u][StakeMint[f]] = @ + got]
  /\ UNCHANGED <<slot, farm, harvestVault, whitelist>>

\* The credited tokens of each listed mint, without an update first.
ClaimEligibleHarvest(f, u, ms) ==
  LET got == [m \in Mints |->
                IF FarmerExists(f, u) /\ m \in ms \cap DOMAIN farmer[f][u].harvests
                  THEN farmer[f][u].harvests[m] ELSE 0]
  IN  /\ ms # {}
      /\ FarmerExists(f, u)
      /\ \A m \in ms : HasHarvest(f, m) /\ got[m] <= harvestVault[f][m]
      /\ farmer' = [farmer EXCEPT ![f][u].harvests =
                      [m \in DOMAIN @ |-> IF m \in ms THEN 0 ELSE @[m]]]
      /\ harvestVault' = [harvestVault EXCEPT ![f] = [m \in Mints |-> @[m] - got[m]]]
      /\ wallet' = [wallet EXCEPT ![u] = [m \in Mints |-> @[m] + got[m]]]
      /\ UNCHANGED <<slot, farm, stakeVault, whitelist>>

CloseFarmer(f, u) ==
  /\ FarmerExists(f, u)
  /\ TotalDeposited(farmer[f][u]) = 0
  /\ \A m \in DOMAIN farmer[f][u].harvests : farmer[f][u].harvests[m] = 0
  /\ farmer' = [farmer EXCEPT ![f][u] = None]
  /\ UNCHANGED <<slot, farm, stakeVault, harvestVault, wallet, whitelist>>

-----------------------------------------------------------------------------

Tick ==
  /\ slot < MaxSlot
  /\ slot' = slot + 1
  /\ UNCHANGED <<farm, farmer, stakeVault, harvestVault, wallet, whitelist>>

\* The start slots an admin may ask for.
Starts == {0} \cup {slot + d : d \in Delays}

AdminNext(f) ==
  \/ \E a \in Admins : CreateFarm(f, a)
  \/ \E a \in Admins : SetFarmOwner(f, a)
  \/ \E m \in Mints : AddHarvest(f, m)
  \/ \E m \in Mints : RemoveHarvest(f, m)
  \/ \E w \in Windows : SetMinSnapshotWindow(f, w)
  \/ \E m \in Mints, at \in Starts, n \in Lengths, tps \in Rates :
       NewHarvestPeriod(f, m, at, n, tps)
  \/ \E g \in {t \in Farms : <<f, t>> \in Pairs} : WhitelistFarmForCompounding(f, g)
  \/ \E g \in Farms : DewhitelistFarmForCompounding(f, g)

FarmerNext(f, u) ==
  \/ CreateFarmer(f, u)
  \/ \E lag \in Lags : UpdateEligibleHarvestUntil(f, u, Larger(0, slot - lag))
  \/ \E stake \in StakeAmounts : StartFarming(f, u, stake)
  \/ \E max \in UnstakeAmounts : StopFarming(f, u, max)
  \/ \E ms \in SUBSET Mints : ClaimEligibleHarvest(f, u, ms)
  \/ \E m \in Mints, amount \in AirdropAmounts, a \in Admins : Airdrop(f, u, m, amount, a)
  \/ CompoundSameFarm(f, u)
  \/ CloseFarmer(f, u)

Next ==
  \/ \E f \in Farms : AdminNext(f)
  \/ \E f \in Farms : TakeSnapshot(f)
  \/ \E f \in Farms, u \in Users : FarmerNext(f, u)
  \/ \E f, g \in Farms, u \in Users : CompoundAcrossFarms(f, g, u)
  \/ Tick

Spec == Init /\ [][Next]_vars

-----------------------------------------------------------------------------
(* The discipline under which harvests are paid in full: in its slot, a    *)
(* farm's snapshot comes before any farmer is updated.  The program does   *)
(* not enforce it; the README says what happens without it.                *)

NotUpdatedYet(f, u) == FarmerExists(f, u) => farmer[f][u].nextFrom <= slot

\* The second conjunct keeps a farmer that was updated from being forgotten
\* before the slot's snapshot.
SnapshotsComeFirst ==
  \A f \in Farms :
    /\ FarmExists(f) /\ farm'[f].snapshots # farm[f].snapshots
         => \A u \in Users : NotUpdatedYet(f, u)
    /\ \A u \in Users : farmer'[f][u] = None => NotUpdatedYet(f, u)

OrderlyNext == Next /\ SnapshotsComeFirst

OrderlySpec == Init /\ [][OrderlyNext]_vars

-----------------------------------------------------------------------------
(* Properties.                                                             *)

Farmers(f) == {u \in Users : FarmerExists(f, u)}

Deposited(f, u) == IF FarmerExists(f, u) THEN TotalDeposited(farmer[f][u]) ELSE 0

\* A stake vault holds exactly what its farmers deposited, vested or staked,
\* whichever endpoint moved it: deposits, withdrawals and both ways to
\* compound keep the sum.
StakeIsConserved ==
  \A f \in Farms :
    stakeVault[f] = SumFunction([u \in Users |-> Deposited(f, u)])

\* The stake for which a farmer earns in the open window.
EarningStake(f, u) ==
  IF FarmerExists(f, u) /\ EndOfVesting(farmer[f][u], farm[f]) = {}
    THEN farmer[f][u].staked
    ELSE Deposited(f, u)

\* "Sum over all farmers' share is 1" (farmer.rs): the shares of the open
\* window are parts of the stake that its snapshot recorded, in spite of
\* vesting, withdrawals and restaking after the snapshot.
SharesAreParts ==
  \A f \in Farms :
    FarmExists(f) /\ Latest(farm[f].snapshots).startedAt > 0 =>
      SumFunction([u \in Users |-> EarningStake(f, u)]) <= Latest(farm[f].snapshots).staked

\* What a farmer was credited and has not claimed.
Credit(fr, m) == IF m \in DOMAIN fr.harvests THEN fr.harvests[m] ELSE 0

\* Tokens that users may claim of a mint if everybody were updated now.
Claimable(f, m) ==
  SumFunction([u \in Farmers(f) |-> Credit(Updated(f, u, slot).farmer, m)])

\* Tokens of a mint that the periods release after the current slot.
StillToRelease(f, m) ==
  LET ps == farm[f].harvests[m]
  IN  SumFunction([i \in 1 .. PeriodsLen |->
                     Larger(0, ps[i].endsAt - Larger(slot, ps[i].startsAt - 1)) * ps[i].tps])

\* A harvest vault covers all that farmers earned, credited or not, and all
\* that is still to be released: a claim or a compounding never fails for
\* lack of funds, and "an empty vault implies that all users have claimed"
\* (README, remove_harvest).
Solvency ==
  \A f \in Farms, m \in Mints :
    HasHarvest(f, m) => harvestVault[f][m] >= Claimable(f, m) + StillToRelease(f, m)

\* check_vested_period_and_update_harvest never fails, whatever its `until`: no
\* subtraction underflows ("this should never happen", farmer.rs), so that a
\* farmer can always get their stake out.
UpdateNeverFails ==
  \A f \in Farms : \A u \in Farmers(f), until \in 0 .. slot : Updated(f, u, until).ok

\* No slot is harvested twice ("never process history twice", farmer.rs): the
\* cursor of a farmer never moves back.
CursorNeverMovesBack ==
  [][\A f \in Farms : \A u \in Farmers(f) :
       farmer'[f][u] # None => farmer'[f][u].nextFrom >= farmer[f][u].nextFrom]_vars

\* debug_assert!(self.vested_at <= self.calculate_next_harvest_from) (farmer.rs),
\* where the code evaluates it: when vested tokens are due to be staked, all
\* harvest up to their deposit was computed with the stake before it.
DepositFollowsUpdate ==
  \A f \in Farms : \A u \in Farmers(f) :
    EndOfVesting(farmer[f][u], farm[f]) # {} => farmer[f][u].vestedAt <= farmer[f][u].nextFrom

\* Tokens undergo "a vesting period which ends when a new snapshot is taken"
\* (README, start_farming): what is due to be staked is staked before a later
\* deposit restarts the vesting period.
VestingIsNotProlonged ==
  [][\A f \in Farms : \A u \in Farmers(f) :
       LET fr == farmer[f][u]
       IN  EndOfVesting(fr, farm[f]) # {} /\ farmer'[f][u] # None
             /\ farmer'[f][u].vestedAt # fr.vestedAt
           => farmer'[f][u].staked >= fr.staked + fr.vested]_vars

\* "If there was a new snapshot, vested funds are ready to be moved to staked
\* funds" (farmer.rs): an update stakes what vested before the latest snapshot.
SnapshotEndsVesting ==
  \A f \in Farms : \A u \in Farmers(f) :
    Latest(farm[f].snapshots).startedAt > farmer[f][u].vestedAt
      => Updated(f, u, slot).farmer.vested = 0

\* A harvest is removed only when nobody is owed any of it (README).
RemovalLeavesNobodyOut ==
  [][\A f \in Farms, m \in Mints :
       HasHarvest(f, m) /\ ~HasHarvest(f, m)' =>
         Claimable(f, m) = 0 /\ StillToRelease(f, m) = 0]_vars

\* What a farmer earned of a mint up to the slot before `now`, whether it is
\* credited yet or not.
EarnedSoFar(fr, fm, m, now) ==
  LET p == Promote(fr, fm).farmer
  IN  Credit(p, m)
        + IF p.nextFrom < now
            THEN EligibleHarvest(fm.snapshots, fm.harvests[m], p.nextFrom, now - 1, p.staked).tokens
            ELSE 0

\* What a farmer has in a farm that stakes `mint`, in tokens of m.
Holding(fr, fm, mint, m, now) ==
  IF fr = None THEN 0
  ELSE (IF m = mint THEN TotalDeposited(fr) ELSE 0)
         + (IF m \in DOMAIN fm.harvests THEN EarnedSoFar(fr, fm, m, now) ELSE 0)

\* What a user has, in the purse and in all farms.
Wealth(purse, accounts, farms, m, now) ==
  purse[m] + SumFunction([f \in Farms |-> Holding(accounts[f], farms[f], StakeMint[f], m, now)])

\* The ring still holds the window of the farmer's cursor, and the one in which
\* the tokens that vest were deposited.
IsRemembered(fr, b) ==
  /\ Oldest(b).startedAt <= fr.nextFrom
  /\ fr.vested > 0 => Oldest(b).startedAt <= fr.vestedAt

\* No change of the periods dropped the last of them before the farmer's cursor
\* had passed it; nothing in the program as it is built prevents that.
IsStillThere(fr, ps, qs) ==
  LET last == ps[PeriodsLen]
  IN  Used(last) /\ fr.nextFrom <= last.endsAt => \E i \in 1 .. PeriodsLen : qs[i] = last

\* Ring and periods still tell all that the user may be due of a mint.
HistoryIsLongEnough(u, m) ==
  \A f \in Farms : FarmerExists(f, u) =>
    /\ IsRemembered(farmer[f][u], farm'[f].snapshots)
    /\ HasHarvest(f, m) /\ HasHarvest(f, m)' =>
         IsStillThere(farmer[f][u], farm[f].harvests[m], farm'[f].harvests[m])

\* Nothing that users own is lost between wallet, deposit and harvest: no
\* snapshot, edit of the periods, removal, or transaction of another user takes
\* any of it, and a transaction on the user's own farmers takes less than the one
\* token that is rounded when an update stops in the past.  What the ring or the
\* array forgot before an update is lost, and excepted here.
WealthIsKept ==
  [][\A u \in Users, m \in Mints :
       LET before == Wealth(wallet[u], [f \in Farms |-> farmer[f][u]], farm, m, slot)
           after  == Wealth(wallet'[u], [f \in Farms |-> farmer'[f][u]], farm', m, slot')
       IN  HistoryIsLongEnough(u, m)
           => /\ after + 1 >= before
              /\ (\A f \in Farms : farmer'[f][u] = farmer[f][u]) => after >= before]_vars

-----------------------------------------------------------------------------
(* Liveness.  Nothing in the program happens by itself; what is assumed is *)
(* that a user who is owed something keeps asking for it.                  *)

Credited(f, u, m) == IF FarmerExists(f, u) THEN Credit(farmer[f][u], m) ELSE 0

Withdraw(f, u) == \E max \in UnstakeAmounts : StopFarming(f, u, max)
Claim(f, u, m) == ClaimEligibleHarvest(f, u, {m})

\* When these calls succeed: the guards of the actions, on farmers that are
\* owed something.
MayWithdraw(f, u) ==
  /\ Deposited(f, u) > 0
  /\ Updated(f, u, slot).ok
  /\ \E max \in UnstakeAmounts \ {0} : Smaller(max, Deposited(f, u)) <= stakeVault[f]

MayClaim(f, u, m) ==
  /\ Credited(f, u, m) > 0
  /\ HasHarvest(f, m) /\ Credited(f, u, m) <= harvestVault[f][m]

\* Weak fairness of both calls, with their enabling conditions spelled out.
UsersKeepAsking ==
  \A f \in Farms, u \in Users :
    /\ []<>~MayWithdraw(f, u) \/ []<><<Withdraw(f, u)>>_vars
    /\ \A m \in Mints : []<>~MayClaim(f, u, m) \/ []<><<Claim(f, u, m)>>_vars

\* A farmer who keeps calling stop_farming gets the whole deposit back,
\* whatever other users, the admin and the snapshots do meanwhile.
StakeComesBack ==
  \A f \in Farms, u \in Users : Deposited(f, u) > 0 ~> Deposited(f, u) = 0

\* Harvest that was credited is paid out to a farmer who keeps claiming: the
\* vault never stays short because others were quicker.
HarvestIsPaid ==
  \A f \in Farms, u \in Users, m \in Mints : Credited(f, u, m) > 0 ~> Credited(f, u, m) = 0
=============================================================================
