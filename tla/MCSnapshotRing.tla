--------------------------- MODULE MCSnapshotRing ---------------------------
(***************************************************************************)
(* SnapshotRing on a ring of RingLen entries: in MaxSlot slots the tip     *)
(* wraps at least once, with windows shorter and longer than the default.  *)
(***************************************************************************)
EXTENDS SnapshotRing

MCAmounts == {0, 1}
MCWindows == {0, 1, 3}
=============================================================================
