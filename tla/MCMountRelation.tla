-------------------------- MODULE MCMountRelation --------------------------
(* Instances of MountRelation for TLC. *)
EXTENDS MountRelation

CONSTANTS q1, q2, nfs, lustre, r1, r2
=============================================================================
