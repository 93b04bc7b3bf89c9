--------------------------- MODULE MCProvisioning ---------------------------
(* Provisioning.tla with an instance and a machine in the configuration. *)
EXTENDS Provisioning, TLC
CONSTANTS r1, r2, m1, m2, h1

MC_Requests == {r1, r2}
MC_Batches == {r1}
MC_Locals == {h1}
MC_Instances == {m1, m2}
MC_Unnamed == {m2}
MC_Configured == <<"ec2", h1>>
=============================================================================
