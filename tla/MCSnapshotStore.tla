--------------------------- MODULE MCSnapshotStore ---------------------------
(* SnapshotStore.tla with one command at a time. *)
EXTENDS SnapshotStore
CONSTANTS c1, g1

MC_Commands == {c1}
MC_Handlers == {g1}
=============================================================================
