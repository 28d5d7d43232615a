--------------------------- MODULE MCLnetConfig ---------------------------
(* Instances of LnetConfig for TLC. *)
EXTENDS LnetConfig, TLC

CONSTANTS eth0, eth1, ib0, ib1, typo, mlx, roce

Tcp0 == [base |-> "tcp", digits |-> <<0>>]
Tcp10 == [base |-> "tcp", digits |-> <<1, 0>>]

Token(name, interfaces) == [name |-> name, interfaces |-> interfaces]

(* Nothing; tcp0=eth0,eth1; o2ib=ib0;tcp=eth1; and what cannot be had. *)
SomeSpecs ==
    {<<>>,
     <<Token(Tcp0, {eth0, eth1})>>,
     <<Token(O2ib, {ib0}), Token(Tcp, {eth1})>>,
     <<Token(Tcp10, {eth0}), Token(Tcp, {typo})>>,
     <<Token(Tcp, {eth0}), Token(Tcp0, {eth1})>>,
     <<Token(Tcp, {eth0}), Token(NoName, {eth1})>>}

KernelNetworks == {Tcp, O2ib, Tcp10}

(* A machine with a RoCE card, which has its own netdev, and an InfiniBand device
   with two netdevs, of which sysfs names the device. *)
Wired ==
    [route |-> eth0,
     netdev |-> mlx :> NoInterface @@ roce :> eth1,
     devices |-> eth0 :> {} @@ eth1 :> {roce} @@ ib0 :> {mlx} @@ ib1 :> {mlx} @@ typo :> {},
     active |-> {mlx, roce},
     down |-> {}]
SomeMachines ==
    {Wired,
     [Wired EXCEPT !.active = {mlx}, !.down = {ib1}],
     [Wired EXCEPT !.route = NoInterface, !.active = {}]}
=============================================================================
