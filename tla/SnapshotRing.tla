---------------------------- MODULE SnapshotRing ----------------------------
(***************************************************************************)
(* The snapshot history of one farm as it evolves on chain: the            *)
(* permissionless take_snapshot endpoint, the admin's                      *)
(* set_min_snapshot_window endpoint, and the environment (slots pass,      *)
(* farmers' deposits and withdrawals change the stake vault).              *)
(***************************************************************************)
EXTENDS SnapshotBuffer, Sequences

CONSTANTS
  Amounts,  \* amounts the stake vault may hold
  Windows,  \* values the admin may give to min_snapshot_window_slots
  MaxSlot   \* bound: the last slot explored

ASSUME AmountsAssumption == Amounts \subseteq Nat
ASSUME WindowsAssumption == Windows \subseteq Nat
ASSUME MaxSlotAssumption == MaxSlot \in Nat

VARIABLES
  slot,       \* Clock::get()?.slot
  buffer,     \* farm.snapshots
  minWindow,  \* farm.min_snapshot_window_slots
  stakeVault  \* amount of the stake vault token account

vars == <<slot, buffer, minWindow, stakeVault>>

TypeOK ==
  /\ slot \in Slot
  /\ buffer \in Buffer
  /\ minWindow \in Nat
  /\ stakeVault \in Nat

Init ==
  /\ slot = 1
  /\ buffer = EmptyBuffer
  /\ minWindow = 0
  /\ stakeVault = 0

-----------------------------------------------------------------------------

TakeSnapshot ==
  /\ SufficientTimePassed(buffer, minWindow, slot)
  /\ buffer' = Push(buffer, stakeVault, slot)
  /\ UNCHANGED <<slot, minWindow, stakeVault>>

SetMinSnapshotWindow(w) ==
  /\ minWindow' = w
  /\ UNCHANGED <<slot, buffer, stakeVault>>

\* Farmers' deposits and withdrawals, in full in module Farming.
MoveStake(a) ==
  /\ stakeVault' = a
  /\ UNCHANGED <<slot, buffer, minWindow>>

Tick ==
  /\ slot < MaxSlot
  /\ slot' = slot + 1
  /\ UNCHANGED <<buffer, minWindow, stakeVault>>

Next ==
  \/ TakeSnapshot
  \/ \E w \in Windows : SetMinSnapshotWindow(w)
  \/ \E a \in Amounts : MoveStake(a)
  \/ Tick

Spec == Init /\ [][Next]_vars

-----------------------------------------------------------------------------
(* The ring read as a queue.                                               *)

\* How many entries of the ring hold a snapshot.
Written == IF AgesUpTo(buffer, 0) = {} THEN RingLen ELSE Youngest(AgesUpTo(buffer, 0))

Recent == [i \in 1 .. Written |-> Nth(buffer, Written - i)]

Queue == INSTANCE SnapshotQueue
           WITH now <- slot, amount <- stakeVault, recent <- Recent

-----------------------------------------------------------------------------
(* Properties.                                                             *)

\* From now back through the tip, every snapshot is older than the one before
\* it and entries never written come last: first_snapshot_after and
\* get_window_snapshots_eligible_to_harvest stop at the first match and are
\* wrong without this order.
HistoryInOrder ==
  /\ Latest(buffer).startedAt <= slot
  /\ \A j, k \in Index :
       j < k => \/ Nth(buffer, j).startedAt > Nth(buffer, k).startedAt
                \/ Nth(buffer, k).startedAt = 0

\* The ring implements the queue: the last RingLen snapshots are kept in order
\* whatever the wrap-around of the tip does, and neither a change of the window
\* length nor a stake movement rewrites history.
ImplementsQueue == Queue!Spec

\* first_snapshot_after answers from the ring what the queue knows, for every
\* slot one may ask about: the cyclic scan neither skips a window at the
\* wrap-around nor takes a never-written entry for a snapshot.
FirstSnapshotAfterIsExact ==
  \A at \in 0 .. slot : FirstSnapshotAfter(buffer, at) = Queue!FirstAfter(at)

\* get_window_snapshots_eligible_to_harvest yields exactly the windows that
\* last until the slot or longer, newest first, and after them nothing but
\* entries never written, which farmer.rs drops.
EligibleSnapshotsAreExact ==
  \A at \in 0 .. slot :
    LET eligible == EligibleSnapshots(buffer, at)
        covering == Queue!Covering(at)
    IN  /\ Len(covering) <= Len(eligible)
        /\ \A k \in 1 .. Len(eligible) :
             IF k <= Len(covering) THEN eligible[k] = covering[k]
                                   ELSE eligible[k].startedAt = 0

\* Two snapshots are never closer than the window in force when the later one
\* is taken, and the oldest remembered one never moves back: this is what
\* bounds how long the ring's history reaches (min_snapshot_window_slots).
WindowsAreSpaced ==
  [][buffer' # buffer =>
       /\ Latest(buffer').startedAt >= Latest(buffer).startedAt + EffectiveWindow(minWindow)
       /\ Oldest(buffer').startedAt >= Oldest(buffer).startedAt]_vars
=============================================================================
