------------------------- MODULE MCFilesystemInfo -------------------------
(* Instances of FilesystemInfo for TLC. *)
EXTENDS FilesystemInfo

CONSTANTS u1, u2, c1, c2, key1, key2

H(name) == [name |-> name, upper |-> TRUE]
Info(type, hosts, steps, key) ==
    [type |-> type, hosts |-> hosts, key |-> key,
     path |-> [steps |-> steps, absolute |-> FALSE]]

(* A Ceph file system whose key is rotated; one without monitors. *)
Cephfs ==
    {NoInfo, Info("cephfs", <<H("mon1"), H("mon2")>>, <<"srv">>, key1),
     Info("cephfs", <<H("mon1"), H("mon2")>>, <<"srv">>, key2)}
Lustre ==
    {Info("lustre", <<>>, <<>>, NoKey), Info("lustre", <<H("mgs1")>>, <<>>, NoKey),
     Info("lustre", <<H("mgs2")>>, <<>>, NoKey)}
SomeProxies == {Cephfs, Lustre}
=============================================================================
