--------------------------- MODULE MCLustrePeer ---------------------------
(* Instances of LustrePeer for TLC. *)
EXTENDS LustrePeer, TLC

CONSTANTS m, n, a

Mgt == {"mgt-mdt"}
Ost == {"ost"}

(* One MGS unit and one OSS unit. *)
Pair == m :> Mgt @@ a :> Ost
(* Two units with storage for the MGS, one OSS unit. *)
TwoMgs == m :> Mgt @@ n :> Mgt @@ a :> Ost
(* Any kind of storage may be attached to any unit later on. *)
Anything == [u \in Units |-> Kinds]
=============================================================================
