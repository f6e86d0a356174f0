--------------------------- MODULE MCSnapshotStore ---------------------------
(* The module the run of SnapshotStore is started from. *)
EXTENDS SnapshotStore
==============================================================================
