--------------------------- MODULE SnapshotBuffer ---------------------------
(***************************************************************************)
(* The ring buffer in which a Farm remembers how many tokens its stake     *)
(* vault held at the start of each snapshot window                         *)
(* (programs/farming/src/models/farm.rs, Snapshots and the methods of Farm *)
(* that read and write it).                                                *)
(*                                                                         *)
(* This module is data only.  A buffer is a record of the tip and of the   *)
(* ring; an entry never written is the default Snapshot, which started at  *)
(* slot 0.  An Option<Snapshot> is a set of at most one snapshot.          *)
(*                                                                         *)
(* Definitions marked "Broken variant" are plausible mistakes; no          *)
(* definition uses them.  Each is substituted for the definition that      *)
(* follows it to show that a property notices the mistake.                 *)
(***************************************************************************)
EXTENDS Integers

CONSTANTS
  RingLen,       \* consts::SNAPSHOTS_LEN
  DefaultWindow  \* consts::MIN_SNAPSHOT_WINDOW_SLOTS

ASSUME RingLenAssumption == RingLen \in Nat /\ RingLen > 1
ASSUME DefaultWindowAssumption == DefaultWindow \in Nat \ {0}

Slot     == Nat
Index    == 0 .. RingLen - 1
Snapshot == [staked : Nat, startedAt : Slot]
Buffer   == [tip : Index, ring : [Index -> Snapshot]]

Unwritten   == [staked |-> 0, startedAt |-> 0]
EmptyBuffer == [tip |-> 0, ring |-> [i \in Index |-> Unwritten]]

-----------------------------------------------------------------------------
(* Index arithmetic.                                                       *)

\* Broken variant: the tip runs past the end of the ring.
NextIndexUnwrapped(i) == i + 1

\* The index that follows i, wrapping at the end of the ring.
NextIndex(i) == IF i = RingLen - 1 THEN 0 ELSE i + 1

\* The index reached by going k entries back in time from the tip: the order
\* in which `.rev().cycle().skip(inverted_tip)` visits the ring.
Back(b, k) == IF k <= b.tip THEN b.tip - k ELSE b.tip - k + RingLen

Nth(b, k) == b.ring[Back(b, k)]

-----------------------------------------------------------------------------
(* Reading.                                                                *)

Latest(b) == b.ring[b.tip]
Oldest(b) == b.ring[NextIndex(b.tip)]

\* Broken variant: the comparison excludes the slot itself.
AgesBefore(b, slot) == {k \in Index : Nth(b, k).startedAt < slot}

\* Ages (0 is the tip) of the entries that started at or before a slot.
AgesUpTo(b, slot) == {k \in Index : Nth(b, k).startedAt <= slot}

\* The youngest of a nonempty set of ages.
Youngest(ages) == CHOOSE k \in ages : \A j \in ages : k <= j

\* Farm::first_snapshot_after: the entry next to the youngest one that did
\* not start after the slot.  Nothing when no snapshot started after it, and
\* nothing when every entry of the ring did.
FirstSnapshotAfter(b, slot) ==
  IF Latest(b).startedAt <= slot \/ AgesUpTo(b, slot) = {}
    THEN {}
    ELSE {b.ring[NextIndex(Back(b, Youngest(AgesUpTo(b, slot))))]}

\* Broken variant: the open window is not counted.
ClosedSnapshots(b, since) ==
  LET ages == AgesUpTo(b, since)
  IN  [k \in 1 .. (IF ages = {} THEN RingLen ELSE Youngest(ages)) |-> Nth(b, k - 1)]

\* Farm::get_window_snapshots_eligible_to_harvest: from the open window back
\* to the window that holds the slot `since`, newest first; the whole ring
\* when that window is forgotten.
EligibleSnapshots(b, since) ==
  LET ages  == AgesUpTo(b, since)
      count == IF ages = {} THEN RingLen ELSE Youngest(ages) + 1
  IN  [k \in 1 .. count |-> Nth(b, k - 1)]

-----------------------------------------------------------------------------
(* Writing.                                                                *)

\* min_snapshot_window_slots = 0 stands for the default.
EffectiveWindow(minWindow) == IF minWindow = 0 THEN DefaultWindow ELSE minWindow

\* Broken variant: the window is measured from the oldest snapshot.
SufficientTimeSinceOldest(b, minWindow, clock) ==
  clock >= Oldest(b).startedAt + EffectiveWindow(minWindow)

SufficientTimePassed(b, minWindow, clock) ==
  clock >= Latest(b).startedAt + EffectiveWindow(minWindow)

\* Broken variant: the snapshot is written before the tip moves.
PushAtOldTip(b, stakeVault, clock) ==
  [tip  |-> NextIndex(b.tip),
   ring |-> [b.ring EXCEPT ![b.tip] = [staked |-> stakeVault, startedAt |-> clock]]]

\* Farm::take_snapshot once the time check passed: move the tip, then write.
Push(b, stakeVault, clock) ==
  LET tip == NextIndex(b.tip)
  IN  [tip  |-> tip,
       ring |-> [b.ring EXCEPT ![tip] = [staked |-> stakeVault, startedAt |-> clock]]]
=============================================================================
