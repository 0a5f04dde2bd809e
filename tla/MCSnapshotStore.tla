-------------------------- MODULE MCSnapshotStore --------------------------
(* A small instance of SnapshotStore for TLC: one refresh() collects while  *)
(* the other joins it, or runs after it.                                    *)
EXTENDS SnapshotStore, TLC

CONSTANTS r1, r2

MCTwoRefreshers == {r1, r2}
============================================================================
