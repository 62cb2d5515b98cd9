--------------------------- MODULE HarvestPeriods ---------------------------
(***************************************************************************)
(* The harvest periods of one harvest mint: at what rate (tokens per slot, *)
(* tps) rewards are released and when (programs/farming/src/models/farm.rs,*)
(* Harvest and Farm::new_harvest_period).                                  *)
(*                                                                         *)
(* This module is data only.  The periods are an array of fixed length,    *)
(* newest first; an unused entry is the default period, all zero.          *)
(* Definitions marked "Broken variant" are mistakes that the properties    *)
(* are shown to notice, as in SnapshotBuffer.                              *)
(***************************************************************************)
EXTENDS Integers, Sequences, SequencesExt

CONSTANTS
  PeriodsLen,   \* consts::HARVEST_PERIODS_LEN
  LimitUpdates  \* whether cfg!(any(feature = "prod", test)) holds: only in the unit
                \* tests, since the package declares no feature "prod"

ASSUME PeriodsLenAssumption == PeriodsLen \in Nat \ {0}
ASSUME LimitUpdatesAssumption == LimitUpdates \in BOOLEAN

Period  == [tps : Nat, startsAt : Nat, endsAt : Nat]
Periods == [1 .. PeriodsLen -> Period]

NoPeriod  == [tps |-> 0, startsAt |-> 0, endsAt |-> 0]
NoPeriods == [i \in 1 .. PeriodsLen |-> NoPeriod]

Used(p) == p.endsAt # 0

\* Both ends belong to the period.
Covers(p, s) == Used(p) /\ p.startsAt <= s /\ s <= p.endsAt

\* total_tokens_emitted_per_period
TotalEmitted(p) == (p.endsAt - p.startsAt + 1) * p.tps

-----------------------------------------------------------------------------
(* Farm::new_harvest_period.                                               *)

Started(ps, current) == {i \in 1 .. PeriodsLen : ps[i].startsAt <= current}

\* The latest started period; it may have finished already.
LatestStarted(ps, current) ==
  CHOOSE i \in Started(ps, current) : \A j \in Started(ps, current) : i <= j

\* Broken variant: the period that ends now is not in the way.
IsAfterRunningPeriodLax(ps, current, startsAt) ==
  ps[LatestStarted(ps, current)].endsAt <= startsAt

IsAfterRunningPeriod(ps, current, startsAt) ==
  ps[LatestStarted(ps, current)].endsAt < startsAt

\* Broken variant: a period that starts now may still be edited.
IsScheduledOrStarting(ps, current) == ps[1].startsAt >= current

\* Whether the newest period is a scheduled launch, which may be edited.
IsScheduled(ps, current) == ps[1].startsAt > current

\* Whether the oldest period may be dropped: in a build that limits updates,
\* not while a snapshot refers that far back.
MayDropOldest(ps, oldestSnapshot) ==
  LimitUpdates => ~Used(ps[PeriodsLen]) \/ ps[PeriodsLen].endsAt < oldestSnapshot

AcceptsPeriod(ps, current, p, oldestSnapshot) ==
  /\ p.startsAt < p.endsAt
  /\ Started(ps, current) # {}
  /\ IsAfterRunningPeriod(ps, current, p.startsAt)
  /\ IsScheduled(ps, current) \/ MayDropOldest(ps, oldestSnapshot)

\* Broken variant: the new period is pushed and nothing is dropped.
SetPeriodGrows(ps, current, p) ==
  IF IsScheduled(ps, current) THEN [ps EXCEPT ![1] = p] ELSE <<p>> \o ps

\* Broken variant: the array is not rotated to make room.
SetPeriodInPlace(ps, current, p) == [ps EXCEPT ![1] = p]

SetPeriod(ps, current, p) ==
  IF IsScheduled(ps, current)
    THEN [ps EXCEPT ![1] = p]
    ELSE [i \in 1 .. PeriodsLen |-> IF i = 1 THEN p ELSE ps[i - 1]]

-----------------------------------------------------------------------------
(* Harvest::tps_history.                                                   *)

TpsRange(from, to, tps) == [from |-> from, to |-> to, tps |-> tps]

\* The period before the i-th in time; before the oldest there is none.
Before(ps, i) == IF i < PeriodsLen THEN ps[i + 1] ELSE NoPeriod

\* Broken variant: a one-slot gap is not filled.
GapFilledIfLong(ps, i) ==
  LET gapFrom == Before(ps, i).endsAt + 1
  IN  IF ps[i].startsAt # 0 /\ gapFrom + 1 < ps[i].startsAt
        THEN <<TpsRange(gapFrom, ps[i].startsAt - 1, 0)>> ELSE <<>>

\* The slots between a period and the one before it release nothing.
GapBefore(ps, i) ==
  LET gapFrom == Before(ps, i).endsAt + 1
  IN  IF ps[i].startsAt # 0 /\ gapFrom # ps[i].startsAt
        THEN <<TpsRange(gapFrom, ps[i].startsAt - 1, 0)>> ELSE <<>>

RangesOf(ps, i) ==
  IF ps[i].startsAt = 0 /\ Before(ps, i).startsAt = 0
    THEN <<>>
    ELSE GapBefore(ps, i) \o <<TpsRange(ps[i].startsAt, ps[i].endsAt, ps[i].tps)>>

\* Nothing is released after the newest period.
Trailing(ps, until) ==
  IF ps[1].endsAt < until THEN <<TpsRange(ps[1].endsAt + 1, until, 0)>> ELSE <<>>

\* All ranges of constant rate, oldest first.
TpsHistory(ps, until) ==
  FoldLeft(LAMBDA older, ranges : older \o ranges, <<>>,
           [k \in 1 .. PeriodsLen |-> RangesOf(ps, PeriodsLen + 1 - k)])
    \o Trailing(ps, until)

-----------------------------------------------------------------------------
(* What the periods mean, without ranges or padding.                       *)

TpsAt(ps, s) ==
  IF \E i \in 1 .. PeriodsLen : Covers(ps[i], s)
    THEN ps[CHOOSE i \in 1 .. PeriodsLen : Covers(ps[i], s)].tps
    ELSE 0
=============================================================================
