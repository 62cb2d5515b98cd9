------------------------------ MODULE Emission ------------------------------
(***************************************************************************)
(* One harvest mint of one farm from the admin's side: the                 *)
(* new_harvest_period endpoint with the token transfers it makes           *)
(* (programs/farming/src/endpoints/new_harvest_period.rs).  Snapshots      *)
(* appear only through the start of the oldest one remembered.             *)
(***************************************************************************)
EXTENDS HarvestPeriods

CONSTANTS
  Rates,          \* tps the admin may ask for
  Lengths,        \* lengths of a period in slots the admin may ask for
  Delays,         \* where a period may be asked to start, relative to now
  InitialWallet,  \* harvest tokens the admin owns
  MaxSlot,        \* bound: the last slot explored
  Horizon         \* past every slot that a period can reach

ASSUME RatesAssumption == Rates \subseteq Nat
ASSUME LengthsAssumption == Lengths \subseteq Nat
ASSUME DelaysAssumption == Delays \subseteq Int
ASSUME InitialWalletAssumption == InitialWallet \in Nat
ASSUME MaxSlotAssumption == MaxSlot \in Nat \ {0}
ASSUME HorizonAssumption ==
  /\ Horizon \in Nat
  /\ \A d \in {0} \cup Delays, n \in Lengths : MaxSlot + d + n <= Horizon

VARIABLES
  slot,            \* Clock::get()?.slot
  periods,         \* harvest.periods
  wallet,          \* the admin's harvest wallet
  vault,           \* the harvest vault; no farmer claims here (see Farming)
  oldestSnapshot,  \* farm.oldest_snapshot().started_at
  promised         \* history: the periods ever set and not edited away

vars == <<slot, periods, wallet, vault, oldestSnapshot, promised>>

TypeOK ==
  /\ slot \in Nat \ {0}
  /\ periods \in Periods
  /\ wallet \in Nat
  /\ vault \in Nat
  /\ oldestSnapshot \in Nat
  /\ promised \subseteq Period

Init ==
  /\ slot = 1
  /\ periods = NoPeriods
  /\ wallet = InitialWallet
  /\ vault = 0
  /\ oldestSnapshot = 0
  /\ promised = {}

-----------------------------------------------------------------------------

\* Broken variant: the tokens of the edited launch are forgotten.
DepositedForNothing(ps, current) == 0

\* What an edited launch already paid for.
DepositedFor(ps, current) == IF IsScheduled(ps, current) THEN TotalEmitted(ps[1]) ELSE 0

\* The whole endpoint: starts_at = 0 stands for the current slot; the admin's
\* wallet pays the difference to an edited launch or is paid it.
NewHarvestPeriod(startsArg, length, tps) ==
  LET startsAt == IF startsArg = 0 THEN slot ELSE startsArg
      p        == [tps |-> tps, startsAt |-> startsAt, endsAt |-> startsAt + length - 1]
      charge   == TotalEmitted(p) - DepositedFor(periods, slot)
  IN  /\ length # 0
      /\ startsAt >= slot
      /\ AcceptsPeriod(periods, slot, p, oldestSnapshot)
      /\ charge <= wallet
      /\ -charge <= vault
      /\ periods' = SetPeriod(periods, slot, p)
      /\ wallet' = wallet - charge
      /\ vault' = vault + charge
      /\ promised' = {p} \cup (IF IsScheduled(periods, slot) THEN promised \ {periods[1]}
                                                             ELSE promised)
      /\ UNCHANGED <<slot, oldestSnapshot>>

\* The ring forgets its oldest snapshots as new ones are taken.
ForgetSnapshots(s) ==
  /\ oldestSnapshot < s
  /\ s <= slot
  /\ oldestSnapshot' = s
  /\ UNCHANGED <<slot, periods, wallet, vault, promised>>

Tick ==
  /\ slot < MaxSlot
  /\ slot' = slot + 1
  /\ UNCHANGED <<periods, wallet, vault, oldestSnapshot, promised>>

\* The start slots the admin may ask for.
Starts == {0} \cup {slot + d : d \in Delays}

Next ==
  \/ \E at \in Starts, n \in Lengths, tps \in Rates : NewHarvestPeriod(at, n, tps)
  \/ \E s \in 1 .. MaxSlot : ForgetSnapshots(s)
  \/ Tick

Spec == Init /\ [][Next]_vars

-----------------------------------------------------------------------------
(* Properties.                                                             *)

\* The three rules stated for Harvest.periods: they do not overlap, they are
\* sorted newest first with unused entries last, and at most the newest one is
\* still to start.  tps_history, and through it every farmer's harvest, is
\* wrong without them.
PeriodsInOrder ==
  /\ \A i \in 1 .. PeriodsLen :
       \/ periods[i] = NoPeriod
       \/ 0 < periods[i].startsAt /\ periods[i].startsAt < periods[i].endsAt
  /\ \A i, j \in 1 .. PeriodsLen :
       i < j => \/ periods[j] = NoPeriod
                \/ periods[j].endsAt < periods[i].startsAt /\ periods[j].startsAt <= slot

\* tps_history cuts the timeline into ranges that meet end to end from slot 1,
\* and each slot up to `until` lies in a range of the rate in force there.
HistoryIsExact ==
  \A until \in 1 .. slot :
    LET h == TpsHistory(periods, until)
    IN  /\ \A k \in 1 .. Len(h) :
             /\ h[k].from = IF k = 1 THEN 1 ELSE h[k - 1].to + 1
             /\ h[k].from <= h[k].to
             /\ \A s \in h[k].from .. h[k].to : h[k].tps = TpsAt(periods, s)
        /\ h[Len(h)].to >= until

\* The rate at which the admin's announcements, edited ones aside, release
\* tokens at a slot.
PromisedAt(s) ==
  IF \E p \in promised : Covers(p, s)
    THEN (CHOOSE p \in promised : Covers(p, s)).tps
    ELSE 0

\* The array still tells what was promised for every slot since the start of
\* its last entry, and for every slot at all while that entry is unused: no
\* launch, edit or cancellation alters or hides a rate before the array is full.
LatestPromisesKept ==
  \A s \in 1 .. slot :
    ~Used(periods[PeriodsLen]) \/ periods[PeriodsLen].startsAt <= s =>
      TpsAt(periods, s) = PromisedAt(s)

\* A claim of the documentation, expected to fail: "Changes to rho must be kept
\* until no snapshots refer that much back in time. This limits the update
\* frequency. For dev feature, this limitation is removed." (README.md:562-564;
\* HARVEST_PERIODS_LEN in farm.rs says the same.)  The limit is compiled in
\* under the feature "prod" or in unit tests; no Cargo.toml declares that
\* feature, so that the programs which are built have no limit either.
PromiseKept ==
  \A s \in 1 .. slot : s >= oldestSnapshot => TpsAt(periods, s) = PromisedAt(s)

\* A period that has started is never altered nor cut short, nor taken for a
\* launch that may be edited; it can leave the array only from its last place,
\* for a period that starts once it has ended.
StartedPeriodIsKept ==
  [][\A i \in 1 .. PeriodsLen :
       Used(periods[i]) /\ periods[i].startsAt <= slot =>
         \/ \E j \in 1 .. PeriodsLen : periods'[j] = periods[i]
         \/ i = PeriodsLen /\ periods[i].endsAt < periods'[1].startsAt]_vars

\* Every announcement is paid for in advance, and editing a launch neither
\* creates nor loses tokens.
Promise ==
  INSTANCE EmissionPromise
    WITH now <- slot, rate <- [s \in 1 .. Horizon |-> PromisedAt(s)], fund <- vault
ImplementsPromise == Promise!Spec
=============================================================================
