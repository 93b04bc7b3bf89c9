--------------------------- MODULE MCClusterState ---------------------------
(* ClusterState.tla with two hosts, one of them configured, and two pool sizes. *)
EXTENDS ClusterState, TLC
CONSTANTS h1, h2, c1, c2, main

MC_Hosts == {h1, h2}
MC_Configured == {h1}
MC_PoolSize == [h \in MC_Configured |-> 2]
MC_AddedSize == 1
MC_Connection == {c1}
MC_Connections == {c1, c2}
=============================================================================
