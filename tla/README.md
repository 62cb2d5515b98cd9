# A TLA+ verification of the Aldrin farming and AMM programs

The repository holds two Solana programs written with Anchor.  *Farming*
(`programs/farming`) lets users stake a token and distributes harvest tokens to
them in proportion to their stake and to time.  *AMM* (`programs/amm`) keeps
liquidity pools of two to four tokens, on a constant product curve or on a
stable curve.  This directory models the programs in TLA+, checks the models
with TLC and proves theorems about them with TLAPS.  File names below are
relative to `programs/farming/src`, in the parts on the AMM to
`programs/amm/src`; `README.md` in a quotation is the repository's.

A transaction on Solana is atomic and either succeeds or leaves no trace, so an
endpoint is one action, its failures are the states in which the action is
disabled, and concurrency is the interleaving of transactions of several users,
administrators and bots.  Many transactions fall into one *slot*, in any order:
almost everything that is hard in the farming program comes from this, and from
the two bounded histories (snapshots and harvest periods) that are read long
after they were written.

## Inventory

| Component | State | Operations | What makes it correct |
|---|---|---|---|
| Snapshot ring (`models/farm.rs`) | ring of 1000 `(staked, started_at)`, its tip, minimum window | `take_snapshot`, `set_min_snapshot_window`; readers `first_snapshot_after`, `get_window_snapshots_eligible_to_harvest` | it is a queue of the last snapshots; the readers find what a reader of a queue would |
| Harvest periods (`models/farm.rs`, `endpoints/new_harvest_period.rs`) | 10 periods per harvest mint, the harvest vault | `new_harvest_period`: schedule, edit, cancel; reader `tps_history` | no overlap, a started period is final, the vault funds what is announced, the history agrees with it slot by slot |
| Accrual (`models/farmer.rs`) | none | `eligible_harvest_until` | each slot paid once, at its rate and share; never fails |
| Farmer account (`models/farmer.rs`) | staked, vested, `vested_at`, `calculate_next_harvest_from`, credited harvests | update, promotion of vested stake, deposit, withdrawal, claim | stake adds up, the cursor only grows, vesting ends with the next snapshot |
| Farming endpoints (`endpoints/*`) | farms, farmers, vaults, wallets, whitelist | 18 endpoints | vaults cover what is owed; users can always leave |
| Token program, clock | balances, slot | transfers, `Clock::get` | external |
| AMM pool (`models/pool.rs`) | reserves, curve with its invariant, swap fee | `deposit_tokens`, `redeem_tokens`, `swap`, `update_curve_invariant` | roundings cost a user or the other providers one token at most; no reserve runs dry under LP tokens |
| AMM curve arithmetic (`math/*`) | none | `compute` (Newton's method), `get_buy_reserve_balance_after_swap` (quadratic formula) | the invariant is near the root; a swap does not lower what the reserves are worth; every pool has an invariant |
| AMM endpoints (`endpoints/*`) | pool, vaults, wallets, LP mint | create, deposit, redeem, swap, set fee | vaults back reserves; LP tokens are parts of the reserves; providers get out |
| AMM discounts, program toll | one discount per user, the toll account | create settings, put discount, create toll | a fee is part of the sale, the toll is part of the fee |

Interactions: every farmer endpoint except a claim and an airdrop first calls
`check_vested_period_and_update_harvest`, which reads the farm's ring
(`first_snapshot_after`, then the eligible windows) and each harvest's periods
(`tps_history`), and writes only the farmer.  `take_snapshot` reads the balance
of the stake vault, which deposits, withdrawals and compounding move.
`new_harvest_period` reads the oldest snapshot and moves the harvest vault,
which claims, airdrops and compounding move too.  Compounding across farms
writes a farmer of one farm with harvest of another.

In the AMM every endpoint works on one pool.  A swap takes the fee (less the
discount that applies in this slot) off the sale, asks the curve for the bought
amount, moves tokens between the trader and the vaults, mints LP tokens to the
owner of the program toll as if a part of the fee had been deposited, and
computes the invariant again.  Reserves are numbers in the pool beside the
balances of its vaults, which anybody may increase; the supply of LP tokens
belongs to the mint, and their owners may burn them without the program.

What is hard, and listed line by line as hazards in `PROJECT.json`: snapshots,
updates and withdrawals that share a slot; the division by a total recorded at
another time than the stake it divides; histories that have forgotten what is
asked of them; indices around the tip of the ring; subtractions that abort the
transaction and so block a withdrawal; flooring; edits of a scheduled launch
and the refunds that go with them; in the AMM, amounts that are rounded one way
where they are computed and another where they are compared, records that are
kept twice (reserve and vault, reserves and invariant), and a numerical method
whose termination was argued for numbers that are not truncated.

## Modules

| Module | Models | State and actions |
|---|---|---|
| `SnapshotBuffer` | `Snapshots` and its functions | operators; `Back(b, k)` is the index that the reverse cyclic iterators visit k-th, so a scan is a choice of the smallest *age* |
| `SnapshotQueue` | what the ring promises | abstract: a sequence of at most `RingLen` snapshots |
| `SnapshotRing` | `take_snapshot`, `set_min_snapshot_window` | slot, ring, window, stake vault |
| `HarvestPeriods` | the array of periods and `tps_history` | operators |
| `EmissionPromise` | what the schedule promises | abstract: a rate per slot and a fund that pays for it |
| `Emission` | `new_harvest_period` for one harvest | slot, periods, administrator's wallet, vault, oldest snapshot, and `promised`, a history variable of the announcements in force |
| `Accrual` | the free function `eligible_harvest_until` | operators: a fold over snapshots, inside it a recursion-free scan over emission ranges that carries the stack of ranges |
| `FarmerAccount` | the methods of `Farmer` | operators on a farmer's record |
| `Farming` | all endpoints | one action per endpoint; composes all of the above |
| `Decimals` | the `decimal` library (external) | operators on units of 1/`Wad`; each truncates where the library does |
| `StableCurve` | `math/stable_curve_invariant.rs`, `math/swap_equation.rs`, `scale_down_value` | operators that yield the set of results: empty when the code returns an error |
| `Pool` | `models/pool.rs`, `try_mul_div` | operators on a pool's record; a method that may fail yields a set |
| `LiquidityShares` | what a pool promises | abstract: a fund held in parts; contributions, withdrawals, exchanges |
| `Amm` | all endpoints of the AMM | slot, toll, discounts, pool, vaults, LP mint, wallets; one action per endpoint, and gifts and burns by the owners of accounts |
| `FoldFacts`, `HistoryFacts`, `AccrualProofs`, `MCAccrualProofs`, `FarmingProofs`, `SnapshotRingProofs`, `EmissionProofs`, `AmmProofs` | | theorems |

`SnapshotBuffer`, `HarvestPeriods`, `Accrual` and `FarmerAccount` are composed by
`Farming`, and `Decimals`, `StableCurve` and `Pool` by `Amm`: the endpoints of a
program are actions of one module, over the operators of the parts they call.

Numbers are naturals.  `Wad` is the scale of `Decimal` (10^18 in the code), so
the truncation of a share is in the model; the flooring of a harvest is too.
`RingLen`, `PeriodsLen`, `DefaultWindow` and `MaxHarvestMints` stand for
`consts.rs`.  `LimitUpdates` is the compile-time switch of `farm.rs:275`, which no
build but that of the unit tests turns on: it is `FALSE` in every run, and the
theorems hold for both values.
In the AMM `ScaleBase` is the 1000 by which large values are divided before the
stable curve's arithmetic, `InvertAbove` the 10^10 above which
`get_deposit_ratio` inverts its ratios, `MinProduct` the least product that the
stable curve accepts, and `MaxIterations`, `TollShare`, `MaxSwapFee` and
`MaxReserves` are the constants of the source.  An amplifier of 0 is the constant
product curve, as in `create_pool`, and a discount of 0 one that does not exist.
`None` is an account that does not exist.  Mints, farms, users and
administrators are model values; a user has one wallet per mint.

Operators that no behaviour uses, such as `PushAtOldTip` or `Unclamped`
variants, are wrong versions of the definition that follows them; they show
that each checked property can fail (`mutants` in `PROJECT.json`).

### The order of snapshots

`Farming!Spec` lets a snapshot land anywhere in its slot.  That breaks the
farm (see *Findings*): what is meant to hold, holds when a snapshot is the
first transaction of its slot that concerns a farmer.  `SnapshotsComeFirst`
says precisely that no farmer has been updated up to the slot in which a
snapshot is taken, and that a farmer who was is not closed and forgotten before
it.  This condition is this project's own: no comment of the code states it and
the program does not enforce it.  The bot that takes snapshots can meet it.
`OrderlySpec` is `Spec` with that restriction, and the positive runs of
`Farming` are runs of it.

## Runs

| Run | Question | Bounds |
|---|---|---|
| `snapshot_ring` | Does the ring behave as a queue, for its readers too? | ring of 3, 8 slots: the tip wraps twice; windows 0 (default), 1 and 3 |
| `emission` | Do schedule, deposits, refunds and history agree, and does the array tell what was announced for as long as it reaches back? | 3 periods in the array, 7 slots, lengths 1 to 3, starts now, late or in the future; the array overflows and periods are dropped |
| `accrual` | Is the double loop over windows and ranges right? | ring of 3, 2 periods, 5 slots, every history of snapshots with empty ones among them, every interval and split |
| `farming_shared` | Can one user be paid at another's expense? | 2 users, a running period whose mint is staked too, 4 slots, updates that stop up to one slot back |
| `farming_life` | Is the administration safe from the farm's creation on, and compounding into another farm? | 1 user, 2 administrators, launches of 2 slots, 4 slots, ring of 2; no farm at first and then one, or two farms in slot 4 with a harvest that nobody claimed yet, whose administrators and windows stay |
| `farming_payout` | Do users get their stake and harvest, and does anybody lose anything to snapshots, launches, others or rounding? | 2 users, 2 of 4 slots; one user can stake more in a running period, or a period is in its last slot and the administrator launches two more in an array of 2; updates that stop one slot back; liveness |
| `amm` | Do reserves, vaults, shares, fees and invariants agree, and do providers get out? | 2 mints, 2 users and the toll's owner, both curves, a fresh pool and one over existing liquidity; up to 5 LP tokens, 3 slots |
| `emission_unlimited`, `farming_unordered`, `farming_forgotten`, `amm_newton`, `amm_existing` | Does the program do what the documentation says here? | no: see *Findings* |

Why the bounds are enough: the ring and the array of periods only distinguish
"newest, in between, oldest, forgotten", which three entries have; the accrual
loop only compares slots, so five of them give every order of two windows, two
periods and an interval; shares of one and two parts out of up to six tokens
make every division inexact somewhere.  Users are interchangeable (symmetry) in
runs without liveness.  Some runs of `Farming` begin in the second slot
or later, in the state that one deposit per user and a first snapshot lead to (`SetUp` in
`MCFarming`), which leaves the depth for what follows.  Every run stops at
`MaxSlot`, hence `CHECK_DEADLOCK FALSE`, except in `snapshot_ring`, where
changes of the window remain possible.

The bounds of `amm` bring the thresholds of the code to amounts of a few tokens.
With `InvertAbove = 3` the same pool is deposited into by the direct and by the
inverted ratio; with `ScaleBase = 6` the sum of the reserves is scaled down once
or not at all; a `Wad` of 100 makes ratios and square roots inexact; the fees asked
for are one half and one and a half, which is above the limit; a fee and a
toll of one half make the toll of a sale of three tokens a whole LP token, and a
discount of everything, which ends one slot after it is granted, makes it
vanish.  Deposits are of at most `(3, 4)` and `(2, 1)`, off the pool's ratio in both
directions; redemptions are of two LP tokens or of everything.  Three or four
mints are not run: a swap's neutral reserves add terms to a sum and a product that
are folds already.  `MaxSupply` stops deposits and swaps, never redemptions.

What the properties say, beside the types:

- *Ring*: `HistoryInOrder`, `ImplementsQueue` (refinement),
  `FirstSnapshotAfterIsExact` and `EligibleSnapshotsAreExact` (each reader
  against its definition on the queue), `WindowsAreSpaced`.
- *Emission*: `PeriodsInOrder`, `HistoryIsExact`, `StartedPeriodIsKept` (no edit
  or cancellation touches what has started, and it leaves the array only from the
  last place), `LatestPromisesKept` (for as far back as the array reaches, it tells
  the rate that was announced for each slot), `ImplementsPromise` (refinement: the
  vault is funded slot by slot).  `PromiseKept`, that the array reaches back as far
  as snapshots do, is the documentation's claim and fails.
- *Accrual*: `AccrualIsExact` (the result is the sum over windows of what each
  releases in the interval times the farmer's share of it, each rounded down);
  `SplitLosesOnlyRounding`.
- *Farming*: `StakeIsConserved`, `SharesAreParts`, `Solvency`,
  `UpdateNeverFails`, `DepositFollowsUpdate`, `CursorNeverMovesBack`,
  `VestingIsNotProlonged`, `RemovalLeavesNobodyOut`, `WealthIsKept` (the converse
  of `Solvency`: what a user has in the wallet, in deposits and in harvest,
  credited or still to be computed, falls in no step, except for the token that
  the user's own update rounds off when it stops in the past, and for what ring or
  array forgot before an update, `HistoryIsLongEnough`), and the liveness
  properties `StakeComesBack` and `HarvestIsPaid`.
- *AMM*: `ReservesAreBacked` (every vault covers its reserve),
  `NoReserveRunsDry`, `DepositStaysWithinLimit` and `DepositDilutesByOneToken`
  (what rounding a deposit up may cost the user, and the others),
  `FeeFitsSale` (no underflow where the fee is subtracted unchecked),
  `TollIsPartOfFee` (the toll is worth its part of the fee at most, the precision
  of the ratio that was used included), `ImplementsShares` (refinement of `LiquidityShares`: no
  withdrawal takes more than its share of any asset, the last one leaves
  nothing, an exchange on a constant product curve keeps the product up to the
  truncation of one division, new parts are paid for in full in at least one
  asset), `InvariantIsNearRoot` and `SwapKeepsInvariant` (the stored invariant
  against the polynomial in exact integers), `InvariantIsCurrent` (it is that of
  the reserves of now), `InvariantIsAtMostSum`, and the liveness property
  `LiquidityComesBack`.

### Fairness

Nothing in the program happens by itself, so no action of it is fair.  What is
assumed (`UsersKeepAsking`) is that a user who is owed stake keeps calling
`stop_farming`, and one with credit keeps calling `claim_eligible_harvest`,
whenever the call would succeed: weak fairness of these two calls per farm,
user and mint.  Snapshots, updates, other users and the administrator owe
nothing.  The enabling conditions are written out (`MayWithdraw`, `MayClaim`)
instead of `ENABLED`, which TLC evaluates far more slowly.

In the AMM `LiveSpec` assumes weak fairness of `Leave(h)` for each holder of LP
tokens: a holder who keeps calling `redeem_liquidity` for everything, with no
minimum, while that would succeed.  `LiquidityComesBack` shows that no fee, toll,
swap or later deposit makes that call fail for good, the toll owner's included.
It is stated for the constant product curve: on a stable curve a redemption may
fail with Newton's method (`amm_newton`).

## Findings

- A snapshot that is taken after updates of its own slot makes that slot count
  twice, and one taken after a withdrawal of its slot makes shares exceed the
  whole; the farm then owes more than it has (`farming_unordered`).
- The limit on updates of the schedule is in no program that is built
  (`emission_unlimited`).  `README.md:562-564` and `farm.rs:87-89` say that periods
  are kept until no snapshot refers to them, except under the feature `dev`.  The
  check is compiled in under `prod` or in unit tests (`farm.rs:275`), and no crate
  declares `prod`: one launch into a full array drops a period that farmers have
  not been paid for, whose tokens then stay in the vault.
- A deposit older than everything in the ring never ends its vesting
  (`farming_forgotten`).
- Newton's method for the stable curve's invariant fails on reserves that its
  comments and tests expect it to accept (`amm_newton`).  Each operation of
  `Decimal` truncates, so near the root the polynomial may come out negative,
  which is an error of `try_sub`, or positive while no step lowers the value any
  more, which the code treats as an error too.  The run uses small scales; in
  exact integers with the code's scale of 10^18, two reserves of 987654321 each
  with amplifier 10 fail in the same way.
- A stable pool created over vaults that hold liquidity has reserves and an
  invariant of 0 until a deposit, a redemption or a swap computes it
  (`amm_existing`).
- `README.md:271-274` says of the stable curve "we do not recompute the invariant
  after a swap", so that small trades cannot shift the price.  The code does
  recompute it, with `update_curve_invariant` at the end of `swap` (`swap.rs:179`).
  The models follow the code: `InvariantIsCurrent` passes in `amm` and is proved,
  and says the opposite of that paragraph.

Observed while modelling, without a run of their own:

- Compounding across farms writes a target farmer that was not brought up to
  date, and so prolongs the vesting of stake that had already served it
  (`compound_across_farms.rs:103`); `VestingIsNotProlonged` holds within one farm.
- A deposit that the inverted ratio decides may take one token more than the
  user's limit, and more than that where the ratio is imprecise, that is, where
  the limit has more tokens than the ratio has units (`limit^2 > reserve * 10^18`).
  `DepositStaysWithinLimit` says exactly this.
- The values of the stable curve are scaled down until the sum of the reserves is
  at most 1000, and Newton's method stops at a step of one half of that scale.
  `InvariantIsNearRoot` allows for it (`NewtonSlack`).
- The toll is measured as a deposit.  With an imprecise inverted ratio it may
  exceed its part of the fee: the ratio is truncated by less than a unit for each
  token of the limit, so the reserve counts for that much less (`SeenReserve`).
  `TollIsPartOfFee` says so and is proved of every ratio; with the reserve itself
  in that place it is false.
- A farmer whose cursor, or whose vesting deposit, is older than every snapshot of
  the ring loses the harvest of the slots that were forgotten, and so does one
  whose cursor had not passed the period that a launch drops from a full array.
  `WealthIsKept` is about users whom the ring remembers (`IsRemembered`) and steps
  that drop no period they still need (`IsStillThere`).  With 1000 snapshots of at
  least the minimum window the first is the user's own delay; the second is in the
  hands of the administrator (`emission_unlimited`).

## Theorems

All are proved for every value of the constants that satisfies the named
assumptions of the modules: a ring of at least 2 and an array of at least 1
entry, a scale of at least 1 (2 in the AMM), finitely many users and mints,
amounts and windows that are natural numbers, shares and fees of at most one,
and initial accounts of the right type.  Where a theorem needs more, its
statement says so.

**Histories** (`HistoryFacts`).  What the readers of a ring and of an array in
order find, stated once for any ring and array and used by all that follow: the
ages of a ring (`Back` is a bijection), what a push does to them, which entry
`first_snapshot_after` returns, and that the ranges `tps_history` makes of the
periods tell the rate of each slot.

**`SnapshotRingProofs`.**  `HistoryInOrder` is inductive together with the
types (`HistoryStaysInOrder`): a snapshot is written at the successor of the tip,
so ages grow by one, the new entry starts later than the old tip because the
window is not empty, and the entry that is overwritten was the last in the
order.  From it follow `WindowsStaySpaced`, `FirstSnapshotAfterStaysExact` and
`EligibleSnapshotsStayExact` (in a ring in order, what started at or before a slot
are the oldest entries, and the entries written are the youngest, so both
readers answer from an interval of ages) and the refinement `RingImplementsQueue`:
`take_snapshot` appends to the queue read off by age, and drops its first
element exactly when the tip overwrites a snapshot.

**`EmissionProofs`.**  `PeriodsInOrder` is inductive together with the types:
what the code looks up with a linear search is the first or the second entry,
an accepted period starts after all that stay, and the step has the two cases of
the code, overwriting the launch that is first in the array or moving all periods
by one.  `HistoryStaysExact` follows with `HistoryFacts`.  `StartedPeriodsAreKept`
says that periods leave in the order in which they came, and `PromisesAreKept` is
about `LatestPromisesKept`, which is not inductive: it says nothing of the future,
nor why two announcements never claim the same slot.  `Remembered` adds that every
period of the array was announced, that every announcement in force is in the
array or ended before its last entry starts (`IsBeforeLast`), and that
announcements in force do not overlap.  For the refinement
`ImplementsEmissionPromise`, `Announced` adds that the vault holds what all
announcements emit, those that the array forgot included.
The abstract fund is a sum over slots: one announcement more is paid for with
all that it emits (`OneMorePaid`), and an edit leaves past slots alone.

**`AccrualProofs`.**  `HarvestIsAnAmount`: what `eligible_harvest_until` returns,
when it succeeds, is a number of tokens.  `HarvestIsExact`: for a ring and periods
in order it does succeed, and returns `Owed`, the sum over windows of the
truncated product of what the window releases in the interval with the farmer's
share.  The inner loop keeps `ScanIsAt`: what was summed is what the slots after
`until` release, and the ranges still on the stack tell the rates of the others.
The outer loop keeps `HarvestIsAt`, the same of whole windows.  `OwedSplits`
compares an interval with its two parts: only one window has slots in both, so
rounding it twice loses at most one token.  `OwedIsEarned` bounds what is paid by
what is earned before rounding (`Earned`, a sum over slots, in units of 1 / `Wad`),
and `Ahead` is what the periods release from a slot on, to which a new period
adds no more than it costs (`AheadAfterSetPeriod`).  `MCAccrualProofs` draws from these
`AccrualStaysExact` and `SplitsLoseOneToken`, the two invariants that the run
`accrual` checks, for every ring, array and choice of its bounds.

**`FarmingProofs`.**  Every transaction is a `Step`: it changes an account in one
of the ways listed in `Change` (an update and a withdrawal, an update and a
deposit, a deposit from another farm), stake vaults by as much as the deposits
(`Balanced`), and snapshots as the ring does.  One lemma per endpoint shows
that (`StartFarmingStep`, ..., `NextStep`), and the invariants are proved
of steps.

- `AccountsAreTyped`.  Inductive is `Typed`, which adds that a farmer belongs to a
  farm: an update reads the farm without asking whether it is there.
- `StakeStaysConserved`: a stake vault holds what its users deposited.
- `SharesStayParts`: nothing makes the farmers of a farm earn for more than the
  stake that the snapshot recorded.  It needs `LatestIsPast` (deposits after a
  snapshot vest until the next one) and `StakeIsConserved` for the next snapshot.
- `UpdatesSucceed`: no computation of a harvest fails, so that stake can always
  be withdrawn.  `HistoriesInOrder` carries the orders of the ring and of all
  arrays over every endpoint, and `HarvestIsExact` does the rest; the interval
  that the code asks for when a snapshot opened just now is empty, and is
  answered without a harvest.  This holds of `Spec`, wherever snapshots fall.
- `HistoryIsNotProcessedTwice` is about `OrderlySpec`: the cursor never moves
  back.  Inductive is `EndsAhead`, that the snapshot which ends a farmer's vesting
  starts no earlier than the cursor.  A late snapshot breaks it, which is the
  finding of `farming_unordered`.
- `DepositsFollowUpdates` (the assertion in the code) and `VestingStaysShort` are
  proved for `Pairs` within one farm: `compound_across_farms` deposits for a farmer
  that it did not update.  Inductive is `VestedAfterUpdate`.
- `VaultsStaySolvent` and `NobodyIsLeftOut` are about `OrderlySpec`, for any `Pairs`:
  every harvest vault covers what its farmers can claim and what is still to be
  released, so a claim never fails for lack of funds and `remove_harvest`, which
  asks for an empty vault, takes nothing from anybody.  `Solvency` rounds and is
  not inductive.  `Funded` is: before rounding, the vault covers the credits, what
  each account earned up to this slot (`Due`), and what the periods release after
  it (`Ahead`).  A snapshot taken or a period set now changes what this slot pays;
  `SnapshotsComeFirst` lets a snapshot be taken only before anybody is updated in
  the slot, and until then `Funds` asks the same seen from the slot before.  One lemma per
  endpoint shows that an account is `Settled`: afterwards it is due no more than
  before, but for what the vault paid or got.  Vesting that ends in an interval is
  where this is delicate, since the deposit earns only from the snapshot that
  ends it (`EarnsFrom`).  `SharesAreParts` bounds what all accounts earn of a
  slot by its rate, and a new period is paid for when it is set.  Without the order
  `Solvency` fails, which is the finding of `farming_unordered`.

- `NothingIsLost` is the other half of solvency, for `OrderlySpec` and `Pairs` within
  one farm.  `Solvency` would hold of a program that
  pays nothing; `WealthIsKept` says that nobody loses what they earned.  A farmer
  owns its deposits and its credit (`Owns`), and beside it `Pending` is what an
  update of now would credit, after the promotion of vested stake: one interval, or
  two when vesting has ended in between.  `Held` is the sum.  The lemmas follow
  what can change it.  An update turns pending harvest into credit
  (`UpdateCredits`): all of it when it goes up to now, and one token less at most when
  it stops before, since then one window is cut and floored twice
  (`AccruedSplits`, from `OwedSplits`).  A snapshot pushes out windows that nobody
  whom the ring remembers needs, and ends vesting no earlier than now
  (`PendingAfterPush`).  A new period keeps the rates of the slots since the user's cursor, unless it drops
  the last one too early (`RatesAreKept`, under `HistoryIsLongEnough`).  A harvest that
  is removed had an empty vault, hence by `FundedIsSolvent` nothing claimable and
  nothing pending (`NothingIsOwed`).  Time only adds (`PendingGrows`).  The endpoints
  of a farmer move tokens between the wallet and what that farmer owns (`IsFairTo`,
  one lemma per endpoint); those of an administrator and those of other users
  leave both alone (`KeepsAll`).  `WealthMoves` sums this over the farms.
  Compounding across farms is excluded because it deposits for a farmer that was not
  updated, which restarts the vesting of stake that had served it.

  The invariant of all of `OrderlySpec` is `Inv`: `Typed`, `LatestIsPast`,
  `StakeIsConserved`, `SharesAreParts`, `HistoriesInOrder`, `EndsAhead`, `InTime` and
  `Funded`.

**`AmmProofs`.**  `Sound` is the inductive invariant: the types, reserves that the
vaults back, and pools of at least one mint (the toll is divided by their
number).  It needs facts about rounding: a redemption is at most its share and so
at most the reserve, a bought amount is at most the reserve, a fee is at most the
sale.  `TypeCorrect` and `ReservesStayBacked` follow.  `DepositsStayWithinLimit` has
the two cases of the ratio, each a bound on a quotient of whole amounts.
`DepositsDilute` says that only deposits issue LP tokens to users, that what is
asked of two reserves is in their ratio up to truncation, and that LP tokens are
at most the first reserve's share; `DilutionBound` puts them together.
`FeeIsPartOfSale` covers the unchecked subtraction of `swap.rs:111`.
`TollStaysPartOfFee`: the toll is what a deposit of its part of the fee would earn
after the trade.  `DepositIsWorthLimit` bounds what a deposit earns by its limit, in
units as small as the ratio has; a discount only makes the fee smaller
(`FeeWithinShare`), a larger limit the bound weaker (`LimitMayGrow`), and only swaps
issue LP tokens to the toll's owner (`OnlySwapsToll`).  It holds on both curves and on both
sides of the inverted ratio, with `SeenReserve` for the reserve.
`InvariantStaysCurrent`: inductive is `Current`, `Sound` with the property itself;
each endpoint that leaves a stable pool with other reserves ends with
`update_curve_invariant`.  `InvariantStaysAtMostSum` is the one theorem on Newton's
method: the loop starts at the sum of the reserves and takes a step only if it
descends (`NewtonDescends`, by induction on the iterations left), and scaling down
and up again loses and never gains (`InvariantBound`).  `ScaleCoef` and `NewtonMethod`
are written as recursive functions over bounded sets, and shown to exist
(`IterationsExist`, `ScalesDown`) as the folds are; the power of `ScaleBase` that
`scale_down_value` divides by is computed by that recursion and not by `^`, of which
the provers know nothing.
`ReservesNeverRunDry` is about the constant product curve only: while there are LP
tokens, every reserve holds something; a redemption of less than all leaves a part
of each reserve, and a swap leaves one, as it asks for less than the whole.  On the
stable curve this is false: with the invariant of 0 of `amm_existing` one swap may
empty a reserve.  `SupplyStaysTotal`: LP tokens are what their holders have.
`ImplementsLiquidityShares` maps every endpoint to a contribution, a withdrawal or
an exchange of the abstract fund; for the exchange it bounds the product of the
reserves from the quotient that `calculate_swap` truncates, for any number of
mints, the neutral ones being a factor of both sides.  All hold for every `Wad`, and but for `ReservesNeverRunDry` on both curves.  But
for the two on the invariant, they use of the stable curve's arithmetic only that
its result is a Decimal, which `calculate_swap` subtracts from the reserve.

**Folds** (`FoldFacts`).  The models sum over slots, windows, mints and users with
the folds of the community modules, which are recursive functions over the subsets
of a set that pick an element with `CHOOSE` at each turn.  An induction theorem that
takes an operator cannot be instantiated here, so such a function is shown to
exist by induction on the set of sizes up to which it does, as a set of numbers
with a least counterexample; that the order of picking does not matter is shown
in the same way.  Sums split, are monotone, move with one summand and may be
indexed in another way.

Only model-checked:

- `InvariantIsNearRoot` and `SwapKeepsInvariant`.  They compare what truncated
  arithmetic returns with a polynomial of as many factors as there are mints, for
  which the provers have no exponentiation; and how near the truncated iterations
  come depends on the amounts, as the finding of `amm_newton` shows, so that a
  bound for all constants would not be the one that the run checks.
- Liveness: `StakeComesBack`, `HarvestIsPaid` and `LiquidityComesBack`.
- What is expected to be violated (see *Findings*).

## Not modelled

The layout and size of accounts, rent, error codes, the creation of token
accounts and mints, signer and address checks other than who is the
administrator or the owner (in `Amm` not even those: any caller may take an
administrator's action, which only adds behaviours), the TypeScript tests,
scripts and benches.  Naturals are unbounded: the release profile has
`overflow-checks = true` and the code uses checked arithmetic, so an overflow of
u64 or of the U192 of a `Decimal` aborts a transaction and changes nothing; the
hazards name where that matters.  `try_mul_div` is modelled on the path that it
takes for amounts of 64 bits.  The AMM model has one pool; pools share nothing
but the toll account and the discounts.

## Plan

Done: both programs, their abstract specifications, and the proofs above.  Left:
wider runs, with three mints in a pool, two harvest mints in one farm and longer
rings.
