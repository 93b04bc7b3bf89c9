------------------------------ MODULE MCSpawn ------------------------------
(* Spawn.tla with one slot, two calls of Spawn, two processes and two drains. *)
EXTENDS Spawn, TLC
CONSTANTS s1, a, p1, p2, g1, g2, c1, c2

MC_Slots == {s1}
MC_Sessions == {a}
MC_Pids == {p1, p2}
MC_Drainers == {g1, g2}
MC_Spawners == {c1, c2}
MC_Modes == {"force", "spot"}
=============================================================================
