----------------------------- MODULE LnetConfig -----------------------------
(***************************************************************************)
(* LNet on one machine: how lustre-ops brings the networks of the kernel   *)
(* to what the operator asked for, or to what it detects, and keeps them   *)
(* over a reboot (lnet.py, lnet_detection.py), called by the install hook  *)
(* of lustre-server or by every event of filesystem-client.                *)
(*                                                                         *)
(* Each command of lnetctl is a step, which may fail or be killed half     *)
(* way.  A name is a base and the digits after it: tcp0 is "tcp", <<0>>.   *)
(***************************************************************************)
EXTENDS Naturals, Sequences, FiniteSets

CONSTANTS
    Interfaces,
    NoInterface,
    RdmaDevices,
    Networks,      \* the names under which the kernel shows networks
    Specs,         \* the values of lnet-networks, split into tokens
    NoConf,
    Present,       \* the interfaces that the machine has, of Interfaces
    Machines,      \* what the machine may look like
    Roles,         \* of {"server", "client"}
    MaxFaults,     \* bound: commands that fail
    MaxCrashes,    \* bound: hooks that are killed
    MaxReboots,    \* bound: reboots of the machine
    MaxChanges     \* bound: changes of the configuration or of the machine

VARIABLES
    role,          \* the charm that runs here
    spec,          \* its lnet-networks
    machine,       \* interfaces, routes, RDMA links
    nets,          \* nets[k]: the interfaces that the kernel has bound to k
    conf,          \* the contents of LUSTRE_LNET_CONF
    task,          \* the running lnet.init
    used           \* how much of each bound has been spent

vars == <<role, spec, machine, nets, conf, task, used>>

-----------------------------------------------------------------------------
(* State. *)

Names == [base : {"tcp", "o2ib"}, digits : Seq(0..9)]
Tcp == [base |-> "tcp", digits |-> <<>>]
O2ib == [base |-> "o2ib", digits |-> <<>>]
NoName == [base |-> "", digits |-> <<>>]  \* as in "=eth0", or without a "="

(* The network that the kernel means by a name: its digits are a number. *)
Kernel(name) ==
    LET zeros == {i \in DOMAIN name.digits : \A j \in 1..i : name.digits[j] = 0}
    IN  [name EXCEPT !.digits = SubSeq(@, Cardinality(zeros) + 1, Len(@))]

Tokens == [name : Names \cup {NoName}, interfaces : SUBSET Interfaces]
Requests == [name : Names, interfaces : (SUBSET Interfaces) \ {{}}]

(* netdev: what "rdma link" says of a device; devices: the InfiniBand devices
   of a netdev in sysfs; active: links that are ACTIVE and LINK_UP; down:
   netdevs whose operstate is "down" or unknown. *)
Machine == [route : Interfaces \cup {NoInterface},
            netdev : [RdmaDevices -> Interfaces \cup {NoInterface}],
            devices : [Interfaces -> SUBSET RdmaDevices],
            active : SUBSET RdmaDevices,
            down : SUBSET Interfaces]

Bindings == [Networks -> SUBSET Interfaces]
NoNets == [k \in Networks |-> {}]

ASSUME NetworksAssumption ==
    /\ NoInterface \notin Interfaces
    /\ Networks \subseteq Names /\ {Tcp, O2ib} \subseteq Networks
    /\ \A k \in Networks : Kernel(k) = k
    /\ NoConf \notin Bindings /\ Present \subseteq Interfaces
ASSUME InputsAssumption ==
    /\ Specs \subseteq Seq(Tokens) /\ Machines \subseteq Machine
    /\ Roles \subseteq {"server", "client"}
ASSUME LimitsAssumption ==
    /\ MaxFaults \in Nat /\ MaxCrashes \in Nat
    /\ MaxReboots \in Nat /\ MaxChanges \in Nat

Task == [pc : {"idle", "failed", "blocked", "query", "add", "remove", "persist", "done"},
         want : Seq(Requests), seen : Bindings, at : Nat]
Idle == [pc |-> "idle", want |-> <<>>, seen |-> NoNets, at |-> 0]

TypeOK ==
    /\ role \in Roles /\ spec \in Specs /\ machine \in Machines
    /\ nets \in Bindings
    /\ conf \in Bindings \cup {NoConf}
    /\ task \in Task
    /\ used \in [faults : Nat, crashes : Nat, reboots : Nat, changes : Nat]

Init ==
    /\ role \in Roles /\ spec \in Specs /\ machine \in Machines
    /\ nets = NoNets /\ conf = NoConf /\ task = Idle
    /\ used = [faults |-> 0, crashes |-> 0, reboots |-> 0, changes |-> 0]

Resting == task.pc \in {"idle", "failed", "blocked"}
Goto(pc) == task' = [task EXCEPT !.pc = pc]
Fault == used.faults < MaxFaults /\ used' = [used EXCEPT !.faults = @ + 1]

-----------------------------------------------------------------------------
(* parse_network_config. *)

(* A single trailing 0 is dropped.  Mutant: it is kept. *)
Normal_Kept(name) == name
Normal(name) == IF name.digits = <<0>> THEN [name EXCEPT !.digits = <<>>] ELSE name

(* Mutant: an empty name is accepted. *)
Malformed_NoName(s) ==
    \/ \E i \in DOMAIN s : s[i].interfaces = {}
    \/ \E i, j \in DOMAIN s : i # j /\ Normal(s[i].name) = Normal(s[j].name)
Malformed(s) ==
    \/ \E i \in DOMAIN s : s[i].name = NoName \/ s[i].interfaces = {}
    \/ \E i, j \in DOMAIN s : i # j /\ Normal(s[i].name) = Normal(s[j].name)
Parsed(s) ==
    [i \in DOMAIN s |-> [name |-> Normal(s[i].name), interfaces |-> s[i].interfaces]]

-----------------------------------------------------------------------------
(* detect_networks. *)

(* From an RDMA device to its netdev, for netdevs with one device; of several
   netdevs of a device the last one that the directory lists remains. *)
IpoibDevices(m) == {d \in RdmaDevices : \E i \in Interfaces : m.devices[i] = {d}}
IpoibMaps(m) ==
    {f \in [IpoibDevices(m) -> Interfaces] : \A d \in DOMAIN f : m.devices[f[d]] = {d}}

ResolveLink(m, f, d) ==
    IF m.netdev[d] # NoInterface THEN m.netdev[d]
    ELSE IF d \in DOMAIN f THEN f[d] ELSE NoInterface

RdmaInterfaces(m, f) ==
    {ResolveLink(m, f, d) : d \in m.active} \ (m.down \cup {NoInterface})

OneNetwork(name, interfaces) ==
    IF interfaces = {} THEN <<>> ELSE <<[name |-> name, interfaces |-> interfaces]>>
Detected(m, f) ==
    OneNetwork(Tcp, {m.route} \ {NoInterface}) \o OneNetwork(O2ib, RdmaInterfaces(m, f))

-----------------------------------------------------------------------------
(* init. *)

(* The install hook calls it once, and again if it is killed; the client calls
   it until there is a configuration file.  Mutant: it does not look. *)
Due_Always ==
    IF role = "server" THEN task.pc = "failed" \/ (task.pc = "idle" /\ conf = NoConf)
    ELSE TRUE
Due ==
    IF role = "server" THEN task.pc = "failed" \/ (task.pc = "idle" /\ conf = NoConf)
    ELSE conf = NoConf

(* An LNetError: the install hook ends Blocked, the client tries again. *)
Raise == Goto("blocked")

Start(want) ==
    IF want = <<>> THEN Raise
    ELSE task' = [pc |-> "query", want |-> want, seen |-> NoNets, at |-> 0]

CallInit ==
    /\ Resting /\ Due
    /\ \/ Malformed(spec) /\ Raise /\ UNCHANGED used
       \/ /\ ~Malformed(spec) /\ spec # <<>>
          /\ Start(Parsed(spec)) /\ UNCHANGED used
       \/ /\ spec = <<>>
          /\ \E f \in IpoibMaps(machine) : Start(Detected(machine, f))
          /\ UNCHANGED used
       \/ spec = <<>> /\ Fault /\ Raise
    /\ UNCHANGED <<role, spec, machine, nets, conf>>

(* lnetctl net show, parsed. *)
Query ==
    /\ task.pc = "query"
    /\ \/ task' = [task EXCEPT !.pc = "add", !.seen = nets, !.at = 1] /\ UNCHANGED used
       \/ Fault /\ Raise
    /\ UNCHANGED <<role, spec, machine, nets, conf>>

Request == task.want[task.at]
Target == Kernel(Request.name)
(* existing_networks.get(name): a network that is not shown has none. *)
Existing == IF Request.name \in Networks THEN task.seen[Request.name] ELSE {}
(* Mutant: interfaces are only given to a new network. *)
ToAdd_New == IF Existing = {} THEN Request.interfaces ELSE {}
ToAdd == Request.interfaces \ Existing
(* Mutant: stale interfaces stay. *)
ToRemove_None == {}
ToRemove == Existing \ Request.interfaces

AddNextTo(pc) ==
    task' = IF task.at < Len(task.want) THEN [task EXCEPT !.pc = "add", !.at = @ + 1]
            ELSE [task EXCEPT !.pc = pc]

(* The kernel refuses an interface that it does not have, or has in this network
   already; the ones before it on the command line are bound. *)
Addable == ToAdd \cap (Present \ nets[Target])

(* net add of a new network, interface add of an existing one. *)
Add ==
    /\ task.pc = "add"
    /\ \/ /\ ToAdd \subseteq Addable
          /\ nets' = [nets EXCEPT ![Target] = @ \cup ToAdd]
          /\ Goto("remove") /\ UNCHANGED used
       \/ /\ \/ ~(ToAdd \subseteq Addable) /\ UNCHANGED used
             \/ ToAdd # {} /\ Fault
          /\ \E s \in SUBSET Addable : nets' = [nets EXCEPT ![Target] = @ \cup s]
          /\ Raise
    /\ UNCHANGED <<role, spec, machine, conf>>

(* interface del. *)
Remove ==
    /\ task.pc = "remove"
    /\ \/ /\ nets' = [nets EXCEPT ![Target] = @ \ ToRemove]
          /\ AddNextTo("persist") /\ UNCHANGED used
       \/ /\ ToRemove # {} /\ Fault
          /\ \E s \in SUBSET ToRemove : nets' = [nets EXCEPT ![Target] = @ \ s]
          /\ Raise
    /\ UNCHANGED <<role, spec, machine, conf>>

(* lnetctl export, then the file is replaced in one step. *)
Persist ==
    /\ task.pc = "persist"
    /\ \/ conf' = nets /\ Goto("done") /\ UNCHANGED used
       \/ Fault /\ Raise /\ UNCHANGED conf
    /\ UNCHANGED <<role, spec, machine, nets>>

(* The rest of the hook. *)
Finish ==
    /\ task.pc = "done"
    /\ task' = Idle
    /\ UNCHANGED <<role, spec, machine, nets, conf, used>>

-----------------------------------------------------------------------------
(* The machine and the operator. *)

(* The hook is killed; a command it was running may have done some of its work. *)
Crash ==
    /\ ~Resting /\ used.crashes < MaxCrashes
    /\ used' = [used EXCEPT !.crashes = @ + 1]
    /\ Goto("failed")
    /\ \/ UNCHANGED <<nets, conf>>
       \/ /\ task.pc = "add"
          /\ \E s \in SUBSET Addable : nets' = [nets EXCEPT ![Target] = @ \cup s]
          /\ UNCHANGED conf
       \/ /\ task.pc = "remove"
          /\ \E s \in SUBSET ToRemove : nets' = [nets EXCEPT ![Target] = @ \ s]
          /\ UNCHANGED conf
    /\ UNCHANGED <<role, spec, machine>>

(* LNet comes up from its file. *)
Reboot ==
    /\ Resting /\ used.reboots < MaxReboots
    /\ used' = [used EXCEPT !.reboots = @ + 1]
    /\ nets' = IF conf = NoConf THEN NoNets ELSE conf
    /\ UNCHANGED <<role, spec, machine, conf, task>>

Change ==
    used.changes < MaxChanges /\ used' = [used EXCEPT !.changes = @ + 1]

(* The configuration is read once, when a hook starts. *)
Configure ==
    /\ Resting /\ Change
    /\ spec' \in Specs \ {spec}
    /\ UNCHANGED <<role, machine, nets, conf, task>>

(* Links and routes come and go at any moment. *)
ChangeMachine ==
    /\ Change
    /\ machine' \in Machines \ {machine}
    /\ UNCHANGED <<role, spec, nets, conf, task>>

-----------------------------------------------------------------------------
InitStep == Query \/ Add \/ Remove \/ Persist \/ Finish
Environment == Crash \/ Reboot \/ Configure \/ ChangeMachine

Next == CallInit \/ InitStep \/ Environment

Spec == Init /\ [][Next]_vars

(* Juju runs a hook to its end, runs a killed one again, and dispatches
   update_status for ever. *)
Fairness == WF_vars(CallInit) /\ WF_vars(InitStep)
FairSpec == Spec /\ Fairness

-----------------------------------------------------------------------------
(* Properties. *)

(* What is saved is what was asked for, in full: every requested network of the
   kernel has just its interfaces, whatever earlier attempts left behind
   (lnet.py:209-260). *)
SavesWhatWasAsked ==
    [][conf' # conf =>
        /\ conf' = nets
        /\ \A i \in DOMAIN task.want :
             nets[Kernel(task.want[i].name)] = task.want[i].interfaces]_vars

(* The networks in use are the saved ones, over failures, crashes and reboots:
   filesystem-client takes the file for a sign that LNet is configured
   (manager.py:158), and after a reboot nothing else is. *)
SavedIsInUse ==
    (conf # NoConf /\ (role = "client" \/ task.pc = "idle")) => nets = conf

(* A network that works keeps an interface while its interfaces are exchanged,
   and when the exchange fails or is killed: new ones are added before stale ones
   are removed (lnet.py:249-259). *)
KeepsAnInterface ==
    [][used'.reboots = used.reboots =>
        \A k \in Networks : nets[k] # {} => nets'[k] # {}]_vars

(* The configuration can be had: it is well-formed and the machine has the
   interfaces, or some can be detected. *)
Usable ==
    IF spec = <<>> THEN \A f \in IpoibMaps(machine) : Detected(machine, f) # <<>>
    ELSE ~Malformed(spec) /\ \A i \in DOMAIN spec : spec[i].interfaces \subseteq Present

(* "Idempotent" (lnet.py:55): a client whose configuration can be had gets it in
   the end, starting from whatever a failed or killed attempt did. *)
EventuallyConfigured ==
    (role = "client") => (<>[]Usable => <>(conf # NoConf))
=============================================================================
