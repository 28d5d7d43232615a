------------------------- MODULE MCFilesystemClient -------------------------
(* Instances of FilesystemClient for TLC. *)
EXTENDS FilesystemClient

CONSTANTS q1, q2, nfs, lustre, r1, r2
=============================================================================
