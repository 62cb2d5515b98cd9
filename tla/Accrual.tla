------------------------------- MODULE Accrual -------------------------------
(***************************************************************************)
(* How a farmer's share of the released tokens is computed from the        *)
(* snapshot history and the harvest periods                                *)
(* (programs/farming/src/models/farmer.rs, the free function               *)
(* eligible_harvest_until), and what it is meant to compute.               *)
(*                                                                         *)
(* This module is data only.  Decimals are integers in units of 1/Wad; the *)
(* products with slots and rates are exact, the division by the total      *)
(* stake is truncated, and each window's harvest is floored to tokens.     *)
(* The accumulators of the two loops of the code are records that a fold   *)
(* threads through them.                                                   *)
(***************************************************************************)
EXTENDS SnapshotBuffer, HarvestPeriods

CONSTANT Wad  \* solana_decimal's 10^18

ASSUME WadAssumption == Wad \in Nat \ {0}

Larger(a, b)  == IF a >= b THEN a ELSE b
Smaller(a, b) == IF a <= b THEN a ELSE b

\* Decimal::from(staked).try_div(total)
Share(staked, total) == (staked * Wad) \div total

-----------------------------------------------------------------------------
(* One window.                                                             *)

\* Broken variant: a range that spans the window's start is popped, although
\* the next (older) window still needs it.
PopsRangeAlways(r, from) == r.from # 0

\* Whether a range that was used is of no use to older windows.
PopsRange(r, from) == r.from >= from /\ r.from # 0

\* One turn of `while let Some((range, tps)) = history.last()` for the window
\* [from, to].  `left` ranges are left, `until` is calculate_until_slot.
UseRange(st, r, from, to, share) ==
  IF r.to < from THEN [st EXCEPT !.stop = TRUE]
  ELSE IF r.from > to THEN [st EXCEPT !.left = @ - 1]
  ELSE LET first == Larger(r.from, from)
           last  == Smaller(r.to, st.until)
           pops  == PopsRange(r, from)
       IN  [left  |-> IF pops THEN st.left - 1 ELSE st.left,
            until |-> IF pops THEN r.from - 1 ELSE st.until,
            sum   |-> st.sum + (last - first + 1) * share * r.tps,
            ok    |-> st.ok /\ (r.tps # 0 => first <= last),
            stop  |-> ~pops]

\* The harvest of one window and how many ranges of the history are left;
\* ok is FALSE when the code's checked_sub fails.
ScanWindow(history, left, from, to, share) ==
  FoldLeft(LAMBDA st, r : IF st.stop THEN st ELSE UseRange(st, r, from, to, share),
           [left |-> left, until |-> to, sum |-> 0, ok |-> TRUE, stop |-> FALSE],
           Reverse(SubSeq(history, 1, left)))

-----------------------------------------------------------------------------
(* All windows, newest first.                                              *)

\* Broken variant: what was harvested before is harvested again.
WindowStartUnclamped(s, since) == s.startedAt

\* "Never process history twice".
WindowStart(s, since) == Larger(s.startedAt, since)

\* What is known after the window w that snapshot s opened.
AddWindow(st, s, w) ==
  [left   |-> w.left,
   skip   |-> s.startedAt,
   tokens |-> st.tokens + w.sum \div Wad,
   ok     |-> st.ok /\ w.ok]

\* One turn of `for snapshot in snapshots`; `skip` is oldest_slot_to_skip.
UseSnapshot(st, s, history, since, staked) ==
  IF s.staked = 0
    THEN [st EXCEPT !.skip = s.startedAt]
    ELSE AddWindow(st, s, ScanWindow(history, st.left, WindowStart(s, since), st.skip - 1,
                                     Share(staked, s.staked)))

\* Broken variant: windows that open after `until` are looked at.
OpenedAnyTime(s, until) == s.startedAt > 0

\* Which snapshots are looked at: entries never written are filtered out, and
\* since the snapshots are newest first, skip_while drops those after `until`.
OpenedBy(s, until) == s.startedAt <= until /\ s.startedAt > 0

HarvestOver(history, snapshots, since, until, staked) ==
  FoldLeft(LAMBDA st, s : IF OpenedBy(s, until)
                            THEN UseSnapshot(st, s, history, since, staked) ELSE st,
           [left |-> Len(history), skip |-> until + 1, tokens |-> 0, ok |-> TRUE],
           snapshots)

\* eligible_harvest_until for one mint: tokens earned in [since, until] by
\* `staked` tokens, and ok unless the computation fails.  Without a stake it
\* returns before it looks at any snapshot.
EligibleHarvest(b, ps, since, until, staked) ==
  HarvestOver(TpsHistory(ps, until),
              IF staked = 0 THEN <<>> ELSE EligibleSnapshots(b, since),
              since, until, staked)

-----------------------------------------------------------------------------
(* What it is meant to compute: README, eq. (1) and (2), slot by slot.     *)

\* The slots of [since, until] in the window opened by the entry of age k.
WindowSlots(b, k, since, until) ==
  {s \in since .. until :
     /\ Nth(b, k).startedAt <= s
     /\ k > 0 => s < Nth(b, k - 1).startedAt}

\* Tokens released in those slots.
Released(b, ps, k, since, until) ==
  SumFunction([s \in WindowSlots(b, k, since, until) |-> TpsAt(ps, s)])

\* Ages of the windows in which somebody had a stake.
StakedAges(b) == {k \in Index : Nth(b, k).startedAt > 0 /\ Nth(b, k).staked > 0}

Owed(b, ps, since, until, staked) ==
  SumFunction([k \in StakedAges(b) |->
                 (Released(b, ps, k, since, until) * Share(staked, Nth(b, k).staked)) \div Wad])
=============================================================================
