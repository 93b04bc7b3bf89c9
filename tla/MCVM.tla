-------------------------------- MODULE MCVM --------------------------------
(* VM.tla on a small pool: the model values of the configuration. *)
EXTENDS VM, TLC
CONSTANTS s1, s2, a, b, p1, g1, g2

MC_Slots == {s1, s2}
MC_Sessions == {a, b}
MC_Pids == {p1}
MC_Drainers == {g1, g2}
=============================================================================
