-------------------------- MODULE MCSnapshotBuild --------------------------
(* SnapshotBuild.tla with three calls. *)
EXTENDS SnapshotBuild, TLC
CONSTANTS b1, b2, b3

MC_Builders == {b1, b2, b3}
=============================================================================
