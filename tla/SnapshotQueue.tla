---------------------------- MODULE SnapshotQueue ----------------------------
(***************************************************************************)
(* What the snapshot history of a farm promises, with no ring and no tip:  *)
(* the last RingLen snapshots in the order in which they were taken, each  *)
(* recording the amount staked and a slot later than the one before it.    *)
(* SnapshotRing implements this specification.                             *)
(***************************************************************************)
EXTENDS Integers, Sequences, FiniteSets

CONSTANT RingLen  \* how many snapshots are remembered

VARIABLES
  now,     \* the current slot
  amount,  \* tokens in the stake vault
  recent   \* the remembered snapshots, oldest first

vars == <<now, amount, recent>>

LastStart == IF recent = <<>> THEN 0 ELSE recent[Len(recent)].startedAt

Init == now \in Nat /\ amount \in Nat /\ recent = <<>>

\* A window opens: the newest snapshot is the vault as it is now, later than
\* every snapshot before it; the oldest one is forgotten when there is no room.
OpenWindow ==
  /\ now > LastStart
  /\ recent' = Append(IF Len(recent) < RingLen THEN recent ELSE Tail(recent),
                      [staked |-> amount, startedAt |-> now])
  /\ UNCHANGED <<now, amount>>

\* Time passes, or stake moves: history is untouched.
Elapse == now' > now /\ UNCHANGED <<amount, recent>>
Stake  == amount' \in Nat /\ UNCHANGED <<now, recent>>

Next == OpenWindow \/ Elapse \/ Stake

Spec == Init /\ [][Next]_vars

-----------------------------------------------------------------------------
(* The two questions the farming program asks of the history, answered     *)
(* from the queue alone.  Snapshot i opens the window that lasts until     *)
(* snapshot i + 1; the newest window is still open.                        *)

EndsBefore(i, at) == i < Len(recent) /\ recent[i + 1].startedAt <= at

\* Until the queue is full nothing is forgotten.
Forgotten(at) == Len(recent) = RingLen /\ at < recent[1].startedAt

\* The first snapshot taken after a slot, when that is still known.
FirstAfter(at) ==
  {recent[i] : i \in {j \in 1 .. Len(recent) :
      /\ ~Forgotten(at)
      /\ recent[j].startedAt > at
      /\ \A k \in 1 .. j - 1 : recent[k].startedAt <= at}}

\* The remembered windows that last until the slot or longer, newest first.
Covering(at) ==
  LET live == {i \in 1 .. Len(recent) : ~EndsBefore(i, at)}
  IN  [k \in 1 .. Cardinality(live) |-> recent[Len(recent) + 1 - k]]
=============================================================================
