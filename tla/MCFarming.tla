------------------------------ MODULE MCFarming ------------------------------
(***************************************************************************)
(* Instances of Farming.                                                   *)
(***************************************************************************)
EXTENDS Farming, TLC

CONSTANTS f1, f2, u1, u2, adm, adm2, S, R

OneFarm    == {f1}
TwoFarms   == {f1, f2}
OneUser    == {u1}
TwoUsers   == {u1, u2}
OneAdmin   == {adm}
TwoAdmins  == {adm, adm2}
BothMints  == {S, R}

\* Every farm stakes S.
StakesS == [f \in Farms |-> S]

\* Every user owns `s` of S, and `adm` owns `r` of R.
Wallets(s, r) ==
  [o \in Users \cup Admins |-> [m \in Mints |->
     IF o \in Users /\ m = S THEN s ELSE IF o = adm /\ m = R THEN r ELSE 0]]
Wallets0    == Wallets(0, 0)
Wallets1    == Wallets(1, 0)
\* Only one user can stake more than what is staked from the start.
WalletOfOne == [Wallets0 EXCEPT ![u1][S] = 1]
WalletsLife == Wallets(1, 3)

Nothing  == {}
One      == {1}
Two      == {2}

JustNow     == {0}
NowOrBefore == {0, 1}
Wallets04   == Wallets(0, 4)
SamePairs   == {<<f, f>> : f \in Farms}
AcrossPairs == {<<f1, f2>>}

UsersAlike == Permutations(Users)

\* The state of a slot `now` from the second on, when everybody owns `owned`.
\* In the first slot the admin created the farms, added the harvests `mints` and
\* announced the period, and everybody created their farmer and staked `stake`
\* tokens.  In the second one, a snapshot; after it, nothing.
SetUp(mints, period, stake, now, owned) ==
  LET announced == [NoPeriods EXCEPT ![1] = period]
      newcomer  == [NewFarmer(mints) EXCEPT !.nextFrom = 2]
      total     == stake * Cardinality(Users)
  IN  /\ slot = now
      /\ farm = [f \in Farms |-> [admin |-> adm, snapshots |-> Push(EmptyBuffer, total, 2),
                                  minWindow |-> 0, harvests |-> [m \in mints |-> announced]]]
      /\ farmer = [f \in Farms |-> [u \in Users |-> AddToVested(newcomer, 1, stake)]]
      /\ stakeVault = [f \in Farms |-> total]
      /\ harvestVault = [f \in Farms |-> [m \in Mints |->
                           IF m \in mints THEN TotalEmitted(period) ELSE 0]]
      /\ wallet = owned
      /\ whitelist = {}

\* Users share a harvest of 3 tokens a slot from slot 2 to slot 4: of the mint
\* they stake, so that it can be compounded, or of another one.
MCPeriod    == [tps |-> 3, startsAt |-> 2, endsAt |-> 4]
SharedInit  == SetUp({S}, MCPeriod, 1, 2, InitialWallet)
RewardsInit == SetUp({R}, MCPeriod, 1, 2, InitialWallet)

\* A slot later, when nobody was updated yet: a user can stake more; or the period
\* is in its last slot, and the admin can launch two more, of which the second
\* makes the array drop the first.
PayoutInit ==
  \/ SetUp({R}, MCPeriod, 1, 3, WalletOfOne)
  \/ SetUp({R}, [MCPeriod EXCEPT !.endsAt = 3], 1, 3, Wallets04)

\* Two farms with a harvest of the mint that they stake, which nobody claimed yet.
AcrossInit  == SetUp({S}, MCPeriod, 1, 4, Wallets0)

\* A life starts without any farm, and then f1 alone is created; or with two
\* farms, and then their admins and windows stay.
LifeInit == Init \/ AcrossInit

OneOrTwoFarms ==
  IF FarmExists(f2)
    THEN \A f \in Farms : farm'[f].admin = farm[f].admin /\ farm'[f].minWindow = farm[f].minWindow
    ELSE farm'[f2] = None /\ whitelist' = {}

SharedSpec    == SharedInit /\ [][OrderlyNext]_vars
RewardsSpec   == RewardsInit /\ [][OrderlyNext]_vars
LifeSpec      == LifeInit /\ [][OrderlyNext /\ OneOrTwoFarms]_vars
UnorderedSpec == RewardsInit /\ [][Next]_vars
PayoutSpec    == PayoutInit /\ [][OrderlyNext]_vars /\ UsersKeepAsking
=============================================================================
