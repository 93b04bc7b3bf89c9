--------------------------- MODULE MCSpotEviction ---------------------------
(* SpotEviction.tla with one or two hosts of two slots. *)
EXTENDS SpotEviction, TLC
CONSTANTS h1, h2, s1, s2, a, b

MC_Host == {h1}
MC_Hosts == {h1, h2}
MC_Slots == {s1, s2}
MC_Sessions == {a, b}
MC_Remainders == {5, 10, 16}   \* around the floor of 10 seconds and the buffer of 15
=============================================================================
