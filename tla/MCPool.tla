------------------------------- MODULE MCPool -------------------------------
(* Pool.tla with two slots and two callers. *)
EXTENDS Pool, TLC
CONSTANTS a, b, g1, g2, c1, c2

MC_PoolSize == 2
MC_Slots == 0 .. MC_PoolSize - 1
MC_Sessions == {a, b}
MC_OneSession == {a}
MC_Pids == {}
MC_Drainers == {g1, g2}
MC_OneDrainer == {g1}
MC_Modes == {"graceful"}
MC_Callers == {c1, c2}
MC_Symmetry == Permutations(MC_Sessions) \cup Permutations(MC_Drainers) \cup Permutations(MC_Callers)
=============================================================================
