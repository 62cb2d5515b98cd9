---------------------------- MODULE FarmerAccount ----------------------------
(***************************************************************************)
(* A farmer's position in a farm and the operations on it                  *)
(* (programs/farming/src/models/farmer.rs, impl Farmer).                   *)
(*                                                                         *)
(* This module is data only.  `harvests` is a function from the mints the  *)
(* farmer knows of to credited tokens; the unused entries of the array in  *)
(* the code, with the default pubkey and no tokens, are not represented.   *)
(* A computation that may fail returns whether it succeeded with its       *)
(* result: [ok, farmer].                                                   *)
(***************************************************************************)
EXTENDS Accrual

NewFarmer(mints) ==
  [staked |-> 0, vested |-> 0, vestedAt |-> 0, nextFrom |-> 0,
   harvests |-> [m \in mints |-> 0]]

\* The farmers that know of exactly these mints.
FarmerOf(mints) ==
  [staked : Nat, vested : Nat, vestedAt : Nat, nextFrom : Nat, harvests : [mints -> Nat]]

IsFarmer(fr, mints) == \E ms \in SUBSET mints : fr \in FarmerOf(ms)

TotalDeposited(fr) == fr.staked + fr.vested

\* Broken variant: tokens of mints that were added meanwhile are not counted,
\* those of removed mints stay.
SyncNothing(harvests, mints) == harvests

\* sync_harvest_mints
SyncHarvestMints(harvests, mints) ==
  [m \in mints |-> IF m \in DOMAIN harvests THEN harvests[m] ELSE 0]

\* set_harvests
SetHarvests(fr, known, earned) ==
  [ok     |-> \A m \in DOMAIN earned : earned[m].ok,
   farmer |-> [fr EXCEPT !.harvests = [m \in DOMAIN known |-> known[m] + earned[m].tokens]]]

\* Farmer::eligible_harvest_until and set_harvests.
Accrue(fr, fm, until) ==
  SetHarvests(fr, SyncHarvestMints(fr.harvests, DOMAIN fm.harvests),
              [m \in DOMAIN fm.harvests |->
                 EligibleHarvest(fm.snapshots, fm.harvests[m], fr.nextFrom, until, fr.staked)])

\* Broken variant: an update that stops in the past moves the cursor back.
UpdateEligibleAnyway(fr, fm, current) ==
  [Accrue(fr, fm, current) EXCEPT !.farmer.nextFrom = current + 1]

\* Farmer::update_eligible_harvest: inclusive of the current slot.
UpdateEligible(fr, fm, current) ==
  IF fr.nextFrom >= current
    THEN [ok |-> TRUE, farmer |-> fr]
    ELSE [Accrue(fr, fm, current) EXCEPT !.farmer.nextFrom = current + 1]

\* Broken variant: a snapshot of the deposit's own slot ends its vesting.
EndOfVestingSameSlot(fr, fm) ==
  IF fr.vested = 0 THEN {} ELSE FirstSnapshotAfter(fm.snapshots, fr.vestedAt - 1)

\* The snapshot that ends the vesting of the farmer's newest tokens.
EndOfVesting(fr, fm) ==
  IF fr.vested = 0 THEN {} ELSE FirstSnapshotAfter(fm.snapshots, fr.vestedAt)

\* Broken variant: vested tokens earn from the moment they are deposited.
PromoteWithoutAccrual(fr, fm) ==
  IF EndOfVesting(fr, fm) = {}
    THEN [ok |-> TRUE, farmer |-> fr]
    ELSE [ok     |-> TRUE,
          farmer |-> [fr EXCEPT !.staked = @ + fr.vested, !.vested = 0]]

\* The first part of check_vested_period_and_update_harvest: harvest up to
\* the end of vesting with the old stake, then stake the vested tokens.
Promote(fr, fm) ==
  IF EndOfVesting(fr, fm) = {}
    THEN [ok |-> TRUE, farmer |-> fr]
    ELSE LET s == CHOOSE s \in EndOfVesting(fr, fm) : TRUE
         IN  [Accrue(fr, fm, s.startedAt - 1) EXCEPT
                !.farmer.nextFrom = s.startedAt,
                !.farmer.staked   = @ + fr.vested,
                !.farmer.vested   = 0]

\* Broken variant: vested tokens are never staked.
UpdateWithoutPromotion(fr, fm, current) == UpdateEligible(fr, fm, current)

UpdatePromoted(p, fm, current) ==
  [UpdateEligible(p.farmer, fm, current) EXCEPT !.ok = @ /\ p.ok]

CheckVestedAndUpdate(fr, fm, current) == UpdatePromoted(Promote(fr, fm), fm, current)

\* Broken variant: the tokens replace those that are vesting.
ReplaceVested(fr, current, tokens) ==
  [fr EXCEPT !.vestedAt = current, !.vested = tokens]

AddToVested(fr, current, tokens) ==
  [fr EXCEPT !.vestedAt = current, !.vested = @ + tokens]

UnstakedAmount(fr, max) == Smaller(max, TotalDeposited(fr))

\* Broken variant: more than the deposit may be taken from it.
UnstakeUnclamped(fr, max) ==
  LET fromVested == Smaller(fr.vested, max)
  IN  [fr EXCEPT !.vested = @ - fromVested, !.staked = @ - (max - fromVested)]

\* Broken variant: staked tokens are paid out and stay staked.
UnstakeOnlyVested(fr, max) == [fr EXCEPT !.vested = @ - Smaller(@, max)]

\* Farmer::unstake: vested tokens, which earn nothing yet, are taken first.
Unstake(fr, max) ==
  LET fromVested == Smaller(fr.vested, max)
  IN  [fr EXCEPT !.vested = @ - fromVested,
                 !.staked = @ - (UnstakedAmount(fr, max) - fromVested)]

\* Broken variant: what is claimed stays credited.
ClaimHarvestKeeps(fr, mint) == fr

\* Farmer::claim_harvest, apart from the amount it returns.
ClaimHarvest(fr, mint) == [fr EXCEPT !.harvests[mint] = 0]
=============================================================================
