----------------------------- MODULE MCRecover -----------------------------
(* Recover.tla with one manifest of three sessions and two runs. *)
EXTENDS Recover, TLC
CONSTANT m1

MC_Manifests == {m1}
MC_Sessions == 1 .. 3
=============================================================================
