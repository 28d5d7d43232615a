------------------------- MODULE LnetConfig_proofs -------------------------
(***************************************************************************)
(* Proofs about LnetConfig, for any interfaces, networks, requests,        *)
(* machines and bounds: its types, and its three safety properties.        *)
(***************************************************************************)
EXTENDS LnetConfig, SequenceTheorems, TLAPS

(* Every good lnet-networks names networks as the kernel shows them, once they
   are normalised; tcp00 does not. *)
Canonical ==
    \A s \in Specs : ~Malformed(s) =>
        \A i \in DOMAIN s : Normal(s[i].name) \in Networks

(* What init is called with: no network twice. *)
GoodWant(w) ==
    /\ w \in Seq(Requests)
    /\ \A i, j \in DOMAIN w : i # j => w[i].name # w[j].name
    /\ Canonical => \A i \in DOMAIN w : w[i].name \in Networks

(* The inductive invariant: how far the running reconciliation is. *)
Name(j) == task.want[j].name
Wanted(j) == task.want[j].interfaces
Left(j) ==
    \/ task.pc = "add" /\ j >= task.at
    \/ task.pc = "remove" /\ j > task.at
Reconciled(j) ==
    \/ task.pc \in {"add", "remove"} /\ j < task.at
    \/ task.pc = "persist"

(* Nobody took an interface from a network that is still to be reconciled; of a
   canonical request nobody gave it one either. *)
LeftAsSeen ==
    \A j \in DOMAIN task.want : Left(j) /\ Name(j) \in Networks =>
        /\ task.seen[Name(j)] \subseteq nets[Name(j)]
        /\ Canonical => nets[Name(j)] = task.seen[Name(j)]
HalfDone ==
    task.pc = "remove" /\ Name(task.at) \in Networks =>
        /\ Wanted(task.at) \subseteq nets[Name(task.at)]
        /\ Canonical => nets[Name(task.at)] = task.seen[Name(task.at)] \cup Wanted(task.at)
ReconciledAsWanted ==
    Canonical => \A j \in DOMAIN task.want : Reconciled(j) => nets[Name(j)] = Wanted(j)

Steps == {"query", "add", "remove", "persist"}
Reconciling ==
    /\ task.pc \in Steps => GoodWant(task.want) /\ task.want # <<>>
    /\ task.pc \in {"add", "remove"} => task.at \in DOMAIN task.want
    /\ LeftAsSeen /\ HalfDone /\ ReconciledAsWanted

(* While a client reconciles there is no file. *)
Saved ==
    /\ SavedIsInUse
    /\ task.pc = "done" => nets = conf
    /\ role = "client" /\ task.pc \in Steps => conf = NoConf

IInv == TypeOK /\ Reconciling /\ Saved

-----------------------------------------------------------------------------
(* What init is called with. *)

LEMMA NormalType == ASSUME NEW n \in Names PROVE Normal(n) \in Names
<1>1. <<>> \in Seq(0..9)
    BY EmptySeq
<1> QED
    BY <1>1 DEF Normal, Names

LEMMA ParsedIsGood ==
    ASSUME spec \in Specs, ~Malformed(spec)
    PROVE  GoodWant(Parsed(spec)) /\ (spec # <<>> => Parsed(spec) # <<>>)
<1> DEFINE w == Parsed(spec)
<1>1. spec \in Seq(Tokens)
    BY InputsAssumption
<1>2. w = [i \in 1..Len(spec) |->
             [name |-> Normal(spec[i].name), interfaces |-> spec[i].interfaces]]
    BY <1>1 DEF Parsed
<1>3. \A i \in 1..Len(spec) :
        /\ spec[i].name \in Names
        /\ spec[i].interfaces \in (SUBSET Interfaces) \ {{}}
  <2> TAKE i \in 1..Len(spec)
  <2>1. spec[i] \in Tokens /\ i \in DOMAIN spec
      BY <1>1, ElementOfSeq
  <2>2. spec[i].name # NoName /\ spec[i].interfaces # {}
      BY <2>1 DEF Malformed
  <2> QED
      BY <2>1, <2>2 DEF Tokens
<1>4. \A i \in 1..Len(spec) : w[i] \in Requests /\ w[i].name = Normal(spec[i].name)
    BY <1>2, <1>3, NormalType DEF Requests
<1>5. w \in [1..Len(spec) -> Requests] /\ Len(spec) \in Nat
    BY <1>1, <1>2, <1>4
<1>6. w \in Seq(Requests) /\ DOMAIN w = 1..Len(spec)
    BY <1>5, SeqDef
<1>7. \A i, j \in DOMAIN w : i # j => w[i].name # w[j].name
    BY <1>1, <1>4, <1>6 DEF Malformed
<1>8. Canonical => \A i \in DOMAIN w : w[i].name \in Networks
    BY <1>1, <1>4, <1>6 DEF Canonical
<1>9. spec # <<>> => w # <<>>
    BY <1>1, <1>6
<1> QED
    BY <1>6, <1>7, <1>8, <1>9 DEF GoodWant

LEMMA OneNetworkType ==
    ASSUME NEW n \in {Tcp, O2ib}, NEW s \in SUBSET Interfaces
    PROVE  /\ OneNetwork(n, s) \in Seq(Requests) /\ Len(OneNetwork(n, s)) <= 1
           /\ \A i \in DOMAIN OneNetwork(n, s) : i = 1 /\ OneNetwork(n, s)[i].name = n
<1>1. n \in Names
    BY NetworksAssumption
<1>2. CASE s = {}
    BY <1>2 DEF OneNetwork
<1>3. CASE s # {}
  <2>1. [name |-> n, interfaces |-> s] \in Requests
      BY <1>1, <1>3 DEF Requests
  <2> QED
      BY <1>3, <2>1 DEF OneNetwork
<1> QED
    BY <1>2, <1>3

LEMMA DetectedIsGood ==
    ASSUME machine \in Machines, NEW f \in IpoibMaps(machine)
    PROVE  GoodWant(Detected(machine, f))
<1> DEFINE t == OneNetwork(Tcp, {machine.route} \ {NoInterface})
           o == OneNetwork(O2ib, RdmaInterfaces(machine, f))
<1>1. machine \in Machine
    BY InputsAssumption
<1>2. {machine.route} \ {NoInterface} \in SUBSET Interfaces
    BY <1>1 DEF Machine
<1>3. RdmaInterfaces(machine, f) \in SUBSET Interfaces
  <2>1. \A d \in machine.active : ResolveLink(machine, f, d) \in Interfaces \cup {NoInterface}
      BY <1>1 DEF Machine, ResolveLink, IpoibMaps, IpoibDevices
  <2> QED
      BY <2>1 DEF RdmaInterfaces
<1>4. /\ t \in Seq(Requests) /\ Len(t) <= 1
      /\ \A i \in DOMAIN t : i = 1 /\ t[i].name = Tcp
    BY <1>2, OneNetworkType
<1>5. /\ o \in Seq(Requests) /\ Len(o) <= 1
      /\ \A i \in DOMAIN o : i = 1 /\ o[i].name = O2ib
    BY <1>3, OneNetworkType
<1>6. Tcp # O2ib
    BY DEF Tcp, O2ib
<1> HIDE DEF t, o
<1>7. t \o o \in Seq(Requests)
    BY <1>4, <1>5
<1>8. \A i \in DOMAIN (t \o o) :
        (t \o o)[i].name = IF i <= Len(t) THEN Tcp ELSE O2ib
    BY <1>4, <1>5
<1>9. \A i, j \in DOMAIN (t \o o) : i # j => (t \o o)[i].name # (t \o o)[j].name
    BY <1>4, <1>5, <1>6, <1>8
<1>10. \A i \in DOMAIN (t \o o) : (t \o o)[i].name \in Networks
    BY <1>8, NetworksAssumption
<1>11. Detected(machine, f) = t \o o
    BY DEF Detected, t, o
<1> QED
    BY <1>7, <1>9, <1>10, <1>11 DEF GoodWant

-----------------------------------------------------------------------------
(* The types. *)

LEMMA SubsetType ==
    ASSUME nets \in Bindings, NEW k, NEW s \in SUBSET Interfaces
    PROVE  [nets EXCEPT ![k] = s] \in Bindings
BY DEF Bindings

LEMMA RequestType ==
    ASSUME TypeOK, task.pc \in {"add", "remove"}, GoodWant(task.want),
           task.at \in DOMAIN task.want
    PROVE  /\ Request \in Requests
           /\ Existing \subseteq Interfaces /\ ToAdd \subseteq Interfaces
           /\ ToRemove \subseteq Interfaces /\ Addable \subseteq Interfaces
           /\ Request.interfaces # {} /\ Request.interfaces \subseteq Interfaces
<1>1. task.seen \in Bindings /\ task.want \in Seq(Requests)
    BY DEF TypeOK, Task, GoodWant
<1>2. Request \in Requests
    BY <1>1, ElementOfSeq DEF Request
<1> QED
    BY <1>1, <1>2 DEF Existing, ToAdd, ToRemove, Addable, Bindings, Requests

LEMMA GotoType ==
    ASSUME task \in Task, NEW pc, Goto(pc),
           pc \in {"idle", "failed", "blocked", "query", "add", "remove", "persist", "done"}
    PROVE  /\ task' \in Task /\ task'.pc = pc /\ task'.at = task.at
           /\ task'.want = task.want /\ task'.seen = task.seen
BY DEF Goto, Task

LEMMA FaultType ==
    ASSUME TypeOK, Fault
    PROVE  used' \in [faults : Nat, crashes : Nat, reboots : Nat, changes : Nat]
           /\ used'.reboots = used.reboots
BY DEF TypeOK, Fault

(* A hook that is not reconciling owes nothing. *)
LEMMA NothingLeft == task.pc \notin Steps => Reconciling
BY DEF Steps, Reconciling, LeftAsSeen, HalfDone, ReconciledAsWanted, Left, Reconciled

LEMMA InitInv == Init => IInv
<1> SUFFICES ASSUME Init PROVE IInv
    OBVIOUS
<1>1. NoNets \in Bindings
    BY DEF NoNets, Bindings
<1>2. Idle \in Task /\ Idle.pc = "idle"
    BY <1>1, EmptySeq DEF Idle, Task
<1>3. used \in [faults : Nat, crashes : Nat, reboots : Nat, changes : Nat]
    BY DEF Init
<1>4. TypeOK
    BY <1>1, <1>2, <1>3 DEF Init, TypeOK
<1>5. Reconciling
    BY <1>2, NothingLeft DEF Init, Steps
<1>6. Saved
    BY <1>2 DEF Init, Saved, SavedIsInUse, Steps
<1> QED
    BY <1>4, <1>5, <1>6 DEF IInv

-----------------------------------------------------------------------------
(* The steps. *)

UsedType == used \in [faults : Nat, crashes : Nat, reboots : Nat, changes : Nat]

(* An attempt that ends early. *)
LEMMA StopInv ==
    ASSUME IInv, NEW pc \in {"failed", "blocked"}, Goto(pc), UsedType',
           UNCHANGED <<role, spec, machine, conf>>, nets' \in Bindings,
           role = "client" /\ conf # NoConf => nets' = conf
    PROVE  IInv'
<1>1. task' \in Task /\ task'.pc = pc
    BY GotoType DEF IInv, TypeOK
<1>2. TypeOK'
    BY <1>1 DEF IInv, TypeOK, UsedType
<1>3. Reconciling'
    BY <1>1 DEF Steps, Reconciling, LeftAsSeen, HalfDone, ReconciledAsWanted, Left, Reconciled
<1>4. Saved'
    BY <1>1 DEF Saved, SavedIsInUse, Steps
<1> QED
    BY <1>2, <1>3, <1>4 DEF IInv

LEMMA StartInv ==
    ASSUME IInv, Resting, Due, NEW w, GoodWant(w), Start(w), UsedType',
           UNCHANGED <<role, spec, machine, nets, conf>>
    PROVE  IInv'
<1>1. CASE w = <<>>
    BY <1>1, StopInv DEF Start, Raise, IInv, TypeOK, Saved, SavedIsInUse
<1>2. CASE w # <<>>
  <2>1. task' = [pc |-> "query", want |-> w, seen |-> NoNets, at |-> 0]
      BY <1>2 DEF Start
  <2>2. task' \in Task
      BY <2>1 DEF Task, GoodWant, NoNets, Bindings
  <2>3. TypeOK'
      BY <2>2 DEF IInv, TypeOK, UsedType
  <2>4. Reconciling'
    <3>1. GoodWant(w)'
        BY DEF GoodWant, Canonical
    <3> QED
        BY <1>2, <2>1 DEF Reconciling, LeftAsSeen, HalfDone, ReconciledAsWanted,
            Left, Reconciled, Name, Wanted, GoodWant, Canonical
  <2>5. Saved'
      BY <2>1 DEF IInv, Saved, SavedIsInUse, Steps, Due
  <2> QED
      BY <2>3, <2>4, <2>5 DEF IInv
<1> QED
    BY <1>1, <1>2

LEMMA CallInitInv == ASSUME IInv, CallInit PROVE IInv'
<1>1. UsedType'
    BY FaultType DEF CallInit, IInv, TypeOK, UsedType
<1>2. CASE Raise
    BY <1>1, <1>2, StopInv DEF CallInit, Raise, IInv, TypeOK, Saved, SavedIsInUse
<1>3. CASE ~Malformed(spec) /\ spec # <<>> /\ Start(Parsed(spec))
    BY <1>1, <1>3, StartInv, ParsedIsGood DEF CallInit, IInv, TypeOK
<1>4. ASSUME NEW f \in IpoibMaps(machine), Start(Detected(machine, f)) PROVE IInv'
    BY <1>1, <1>4, StartInv, DetectedIsGood DEF CallInit, IInv, TypeOK
<1> QED
    BY <1>2, <1>3, <1>4 DEF CallInit

LEMMA QueryInv == ASSUME IInv, Query PROVE IInv'
<1>0. task \in Task /\ task.pc = "query" /\ nets \in Bindings
    BY DEF Query, IInv, TypeOK
<1>1. CASE Raise /\ Fault
    BY <1>1, FaultType, StopInv DEF Query, Raise, IInv, TypeOK, UsedType, Saved, SavedIsInUse
<1>2. CASE task' = [task EXCEPT !.pc = "add", !.seen = nets, !.at = 1] /\ UNCHANGED used
  <2>1. /\ task' \in Task /\ task'.pc = "add" /\ task'.seen = nets /\ task'.at = 1
        /\ task'.want = task.want
      BY <1>0, <1>2 DEF Task
  <2>2. TypeOK'
      BY <1>2, <2>1 DEF Query, IInv, TypeOK
  <2>3. GoodWant(task.want) /\ task.want # <<>>
      BY <1>0 DEF IInv, Reconciling, Steps
  <2>4. 1 \in DOMAIN task.want
      BY <2>3 DEF GoodWant
  <2>6. Reconciling'
      BY <2>1, <2>3, <2>4 DEF Query, Reconciling, GoodWant, Canonical, LeftAsSeen, HalfDone,
          ReconciledAsWanted, Left, Reconciled, Name, Wanted, Steps
  <2>7. Saved'
      BY <1>0, <2>1 DEF Query, IInv, Saved, SavedIsInUse, Steps
  <2> QED
      BY <2>2, <2>6, <2>7 DEF IInv
<1> QED
    BY <1>1, <1>2 DEF Query

(* A step of the command for the running request: what it takes for its network,
   and the others. *)
LEMMA Running ==
    ASSUME IInv, task.pc \in {"add", "remove"}
    PROVE  /\ GoodWant(task.want) /\ task.want # <<>> /\ task.at \in DOMAIN task.want
           /\ task \in Task /\ nets \in Bindings
           /\ Request = task.want[task.at] /\ Request.name = Name(task.at)
           /\ Request.interfaces = Wanted(task.at)
           /\ Request.name \in Networks => Target = Request.name
           /\ Request.name \notin Networks => ToRemove = {}
           /\ Canonical => Request.name \in Networks
<1>1. GoodWant(task.want) /\ task.want # <<>> /\ task.at \in DOMAIN task.want
    BY DEF IInv, Reconciling, Steps
<1>2. Canonical => Request.name \in Networks
    BY <1>1 DEF GoodWant, Request
<1> QED
    BY <1>1, <1>2, NetworksAssumption
       DEF IInv, TypeOK, Request, Name, Wanted, Target, ToRemove, Existing

LEMMA AddInv == ASSUME IInv, Add PROVE IInv'
<1>0. task.pc = "add"
    BY DEF Add
<1>1. /\ Request.interfaces \subseteq Interfaces /\ ToAdd \subseteq Interfaces
      /\ Addable \subseteq Interfaces
    BY <1>0, Running, RequestType DEF IInv
<1>2. nets' \in Bindings
    BY <1>1 DEF Add, IInv, TypeOK, Bindings
<1>3. UsedType'
    BY FaultType DEF Add, IInv, TypeOK, UsedType
<1>4. role = "client" => conf = NoConf
    BY <1>0 DEF IInv, Saved, Steps
<1>5. CASE Raise
    BY <1>2, <1>3, <1>4, <1>5, StopInv DEF Add, Raise
<1>6. CASE nets' = [nets EXCEPT ![Target] = @ \cup ToAdd] /\ Goto("remove")
  <2>1. /\ task' \in Task /\ task'.pc = "remove" /\ task'.at = task.at
        /\ task'.want = task.want /\ task'.seen = task.seen
      BY <1>6, GotoType DEF IInv, TypeOK
  <2>2. TypeOK'
      BY <1>2, <1>3, <2>1 DEF Add, IInv, TypeOK, UsedType
  <2>3. \A j \in DOMAIN task.want :
          j # task.at /\ Name(j) \in Networks =>
            /\ nets[Name(j)] \subseteq nets'[Name(j)]
            /\ Canonical => nets'[Name(j)] = nets[Name(j)]
      BY <1>0, <1>6, Running DEF GoodWant, Name, Bindings
  <2>4. LeftAsSeen'
      BY <1>0, <2>1, <2>3, Running DEF IInv, Reconciling, LeftAsSeen, Left, Name, GoodWant, Canonical
  <2>5. HalfDone'
    <3> SUFFICES ASSUME Name(task.at) \in Networks
        PROVE  /\ Wanted(task.at) \subseteq nets'[Name(task.at)]
               /\ Canonical => nets'[Name(task.at)] = task.seen[Name(task.at)] \cup Wanted(task.at)
        BY <2>1 DEF HalfDone, Name, Wanted, Canonical
    <3>1. nets'[Name(task.at)] = nets[Name(task.at)] \cup (Wanted(task.at) \ task.seen[Name(task.at)])
        BY <1>0, <1>6, Running DEF ToAdd, Existing, Bindings
    <3>2. /\ task.seen[Name(task.at)] \subseteq nets[Name(task.at)]
          /\ Canonical => nets[Name(task.at)] = task.seen[Name(task.at)]
        BY <1>0, Running DEF IInv, Reconciling, LeftAsSeen, Left, GoodWant
    <3> QED
        BY <3>1, <3>2
  <2>6. ReconciledAsWanted'
      BY <1>0, <2>1, <2>3, Running
         DEF IInv, Reconciling, ReconciledAsWanted, Reconciled, Name, Wanted, GoodWant, Canonical
  <2>7. Reconciling'
      BY <1>0, <2>1, <2>4, <2>5, <2>6, Running DEF Reconciling, Steps, GoodWant, Canonical
  <2>8. Saved'
      BY <1>4, <2>1 DEF Add, Saved, SavedIsInUse, Steps
  <2> QED
      BY <2>2, <2>7, <2>8 DEF IInv
<1> QED
    BY <1>5, <1>6 DEF Add

LEMMA RemoveInv == ASSUME IInv, Remove PROVE IInv'
<1>0. task.pc = "remove"
    BY DEF Remove
<1>1. /\ Request.interfaces \subseteq Interfaces /\ ToRemove \subseteq Interfaces
    BY <1>0, Running, RequestType DEF IInv
<1>2. nets' \in Bindings
    BY <1>1 DEF Remove, IInv, TypeOK, Bindings
<1>3. UsedType'
    BY FaultType DEF Remove, IInv, TypeOK, UsedType
<1>4. role = "client" => conf = NoConf
    BY <1>0 DEF IInv, Saved, Steps
<1>5. CASE Raise
    BY <1>2, <1>3, <1>4, <1>5, StopInv DEF Remove, Raise
<1>6. CASE nets' = [nets EXCEPT ![Target] = @ \ ToRemove] /\ AddNextTo("persist")
  <2>1. /\ task'.want = task.want /\ task'.seen = task.seen
        /\ \/ task'.pc = "add" /\ task'.at = task.at + 1 /\ task.at < Len(task.want)
           \/ task'.pc = "persist" /\ ~(task.at < Len(task.want))
        /\ task' \in Task
    <3>0. task \in Task /\ task.at \in Nat
        BY <1>0, Running DEF Task
    <3>1. CASE task.at < Len(task.want)
      <4>1. task' = [task EXCEPT !.pc = "add", !.at = @ + 1]
          BY <1>6, <3>1 DEF AddNextTo
      <4>2. /\ task'.pc = "add" /\ task'.at = task.at + 1
            /\ task'.want = task.want /\ task'.seen = task.seen
          BY <3>0, <4>1 DEF Task
      <4>3. task.at + 1 \in Nat
          BY <3>0
      <4>4. task' \in Task
          BY <3>0, <4>1, <4>3 DEF Task
      <4> QED
          BY <3>1, <4>2, <4>4
    <3>2. CASE ~(task.at < Len(task.want))
      <4>1. task' = [task EXCEPT !.pc = "persist"]
          BY <1>6, <3>2 DEF AddNextTo
      <4> QED
          BY <3>0, <3>2, <4>1 DEF Task
    <3> QED
        BY <3>1, <3>2
  <2>2. TypeOK'
      BY <1>2, <1>3, <2>1 DEF Remove, IInv, TypeOK, UsedType
  <2>3. \A j \in DOMAIN task.want :
          j # task.at /\ Name(j) \in Networks => nets'[Name(j)] = nets[Name(j)]
    <3> SUFFICES ASSUME NEW j \in DOMAIN task.want, j # task.at, Name(j) \in Networks
                 PROVE  nets'[Name(j)] = nets[Name(j)]
        OBVIOUS
    <3>1. CASE Request.name \in Networks
        BY <1>0, <1>6, <3>1, Running DEF GoodWant, Name, Bindings
    <3>2. CASE Request.name \notin Networks
        BY <1>0, <1>6, <3>2, Running DEF Bindings
    <3> QED
        BY <3>1, <3>2
  <2>4. LeftAsSeen'
    <3>1. \A j \in DOMAIN task.want : Left(j)' => Left(j) /\ j # task.at
        BY <1>0, <2>1, Running DEF Left, GoodWant, Task
    <3> QED
        BY <2>1, <2>3, <3>1
           DEF IInv, Reconciling, LeftAsSeen, Name, Canonical
  <2>5. HalfDone'
      BY <2>1 DEF HalfDone
  <2>6. ReconciledAsWanted'
    <3> SUFFICES ASSUME Canonical, NEW j \in DOMAIN task.want, Reconciled(j)'
                 PROVE  nets'[Name(j)] = Wanted(j)
        BY <2>1 DEF ReconciledAsWanted, Name, Wanted, Canonical
    <3>1. CASE j = task.at
      <4>1. /\ nets'[Name(j)] = nets[Name(j)] \ (task.seen[Name(j)] \ Wanted(j))
            /\ nets[Name(j)] = task.seen[Name(j)] \cup Wanted(j)
          BY <1>0, <1>6, <3>1, Running DEF IInv, Reconciling, HalfDone, ToRemove, Existing, Bindings
      <4> QED
          BY <4>1
    <3>2. CASE j # task.at
      <4>1. Reconciled(j)
          BY <1>0, <2>1, <3>2, Running DEF Reconciled, GoodWant, Task
      <4>2. nets[Name(j)] = Wanted(j) /\ Name(j) \in Networks
          BY <1>0, <4>1, Running DEF IInv, Reconciling, ReconciledAsWanted, GoodWant, Name
      <4> QED
          BY <2>3, <3>2, <4>2
    <3> QED
        BY <3>1, <3>2
  <2>7. Reconciling'
    <3>1. task'.pc \in {"add", "remove"} => task'.at \in DOMAIN task.want
        BY <1>0, <2>1, Running DEF GoodWant
    <3> QED
        BY <1>0, <2>1, <2>4, <2>5, <2>6, <3>1, Running DEF Reconciling, Steps, GoodWant, Canonical
  <2>8. Saved'
      BY <1>4, <2>1 DEF Remove, Saved, SavedIsInUse, Steps
  <2> QED
      BY <2>2, <2>7, <2>8 DEF IInv
<1> QED
    BY <1>5, <1>6 DEF Remove

LEMMA PersistInv == ASSUME IInv, Persist PROVE IInv'
<1>0. task.pc = "persist"
    BY DEF Persist
<1>1. UsedType'
    BY FaultType DEF Persist, IInv, TypeOK, UsedType
<1>2. CASE Raise /\ UNCHANGED conf
    BY <1>0, <1>1, <1>2, StopInv DEF Persist, Raise, IInv, TypeOK, Saved, Steps
<1>3. CASE conf' = nets /\ Goto("done")
  <2>1. task' \in Task /\ task'.pc = "done"
      BY <1>3, GotoType DEF IInv, TypeOK
  <2>2. TypeOK'
      BY <1>1, <1>3, <2>1 DEF Persist, IInv, TypeOK, UsedType
  <2>3. Reconciling'
      BY <2>1 DEF Steps, Reconciling, LeftAsSeen, HalfDone, ReconciledAsWanted, Left, Reconciled
  <2>4. Saved'
      BY <1>3, <2>1 DEF Persist, Saved, SavedIsInUse, Steps
  <2> QED
      BY <2>2, <2>3, <2>4 DEF IInv
<1> QED
    BY <1>2, <1>3 DEF Persist

LEMMA FinishInv == ASSUME IInv, Finish PROVE IInv'
<1>1. task' \in Task /\ task'.pc = "idle" /\ nets = conf
    BY EmptySeq DEF Finish, Idle, Task, NoNets, Bindings, IInv, Saved
<1>2. TypeOK'
    BY <1>1 DEF Finish, IInv, TypeOK
<1>3. Reconciling'
    BY <1>1 DEF Steps, Reconciling, LeftAsSeen, HalfDone, ReconciledAsWanted, Left, Reconciled
<1>4. Saved'
    BY <1>1 DEF Finish, Saved, SavedIsInUse, Steps
<1> QED
    BY <1>2, <1>3, <1>4 DEF IInv

LEMMA CrashInv == ASSUME IInv, Crash PROVE IInv'
<1>1. UsedType'
    BY DEF Crash, IInv, TypeOK, UsedType
<1>2. CASE UNCHANGED <<nets, conf>>
    BY <1>1, <1>2, StopInv DEF Crash, IInv, TypeOK, Saved, SavedIsInUse
<1>3. CASE task.pc = "add" /\ UNCHANGED conf
           /\ \E s \in SUBSET Addable : nets' = [nets EXCEPT ![Target] = @ \cup s]
  <2>1. Addable \subseteq Interfaces
      BY <1>3, Running, RequestType DEF IInv
  <2>2. nets' \in Bindings
      BY <1>3, <2>1 DEF IInv, TypeOK, Bindings
  <2> QED
      BY <1>1, <1>3, <2>2, StopInv DEF Crash, IInv, Saved, Steps
<1>4. CASE task.pc = "remove" /\ UNCHANGED conf
           /\ \E s \in SUBSET ToRemove : nets' = [nets EXCEPT ![Target] = @ \ s]
  <2>1. nets' \in Bindings
      BY <1>4 DEF IInv, TypeOK, Bindings
  <2> QED
      BY <1>1, <1>4, <2>1, StopInv DEF Crash, IInv, Saved, Steps
<1> QED
    BY <1>2, <1>3, <1>4 DEF Crash

LEMMA RebootInv == ASSUME IInv, Reboot PROVE IInv'
<1>1. task.pc \notin Steps /\ task.pc # "done" /\ UNCHANGED task
    BY DEF Reboot, Resting, Steps
<1>2. nets' \in Bindings /\ UsedType'
    BY DEF Reboot, IInv, TypeOK, UsedType, NoNets, Bindings
<1>3. TypeOK'
    BY <1>2 DEF Reboot, IInv, TypeOK, UsedType
<1>4. Reconciling'
    BY <1>1 DEF Steps, Reconciling, LeftAsSeen, HalfDone, ReconciledAsWanted, Left, Reconciled
<1>5. Saved'
    BY <1>1 DEF Reboot, Saved, SavedIsInUse
<1> QED
    BY <1>3, <1>4, <1>5 DEF IInv

LEMMA ChangeInv == ASSUME IInv, Configure \/ ChangeMachine \/ UNCHANGED vars PROVE IInv'
<1>1. TypeOK'
    BY DEF Configure, ChangeMachine, Change, vars, IInv, TypeOK
<1>2. UNCHANGED <<role, nets, conf, task>>
    BY DEF Configure, ChangeMachine, vars
<1>3. Reconciling'
    BY <1>2 DEF IInv, Steps, Reconciling, LeftAsSeen, HalfDone, ReconciledAsWanted, Left,
        Reconciled, Name, Wanted, GoodWant, Canonical
<1>4. Saved'
    BY <1>2 DEF IInv, Saved, SavedIsInUse
<1> QED
    BY <1>1, <1>3, <1>4 DEF IInv

LEMMA NextInv == IInv /\ [Next]_vars => IInv'
BY CallInitInv, QueryInv, AddInv, RemoveInv, PersistInv, FinishInv, CrashInv, RebootInv, ChangeInv
   DEF Next, InitStep, Environment

LEMMA AlwaysInv == Spec => []IInv
BY InitInv, NextInv, PTL DEF Spec

-----------------------------------------------------------------------------
(* The theorems. *)

(* Every variable keeps its type: nothing is reconciled but named networks with
   interfaces. *)
THEOREM TypeCorrect == Spec => []TypeOK
<1>1. IInv => TypeOK
    BY DEF IInv
<1> QED
    BY AlwaysInv, <1>1, PTL

(* The file, which filesystem-client takes for a configured LNet, is what the
   kernel has, whatever failed or was killed, and after a reboot (lnet.py:263-282,
   manager.py:158). *)
THEOREM FileIsInUse == Spec => []SavedIsInUse
<1>1. IInv => SavedIsInUse
    BY DEF IInv, Saved
<1> QED
    BY AlwaysInv, <1>1, PTL

(* A network in use keeps an interface (lnet.py:249-259). *)
THEOREM NeverCutOff == Spec => KeepsAnInterface
<1>1. IInv /\ [Next]_vars =>
        [used'.reboots = used.reboots =>
            \A k \in Networks : nets[k] # {} => nets'[k] # {}]_vars
  <2> SUFFICES ASSUME IInv, Next, used'.reboots = used.reboots, NEW k \in Networks, nets[k] # {}
               PROVE  nets'[k] # {}
      OBVIOUS
  <2>0. nets \in Bindings
      BY DEF IInv, TypeOK
  <2>1. ASSUME NEW s, nets' = [nets EXCEPT ![Target] = @ \cup s] PROVE nets'[k] # {}
      BY <2>0, <2>1 DEF Bindings
  <2>2. ASSUME task.pc = "remove", NEW s \in SUBSET ToRemove,
               nets' = [nets EXCEPT ![Target] = @ \ s]
        PROVE  nets'[k] # {}
    <3>1. CASE Request.name \notin Networks
        BY <2>0, <2>2, <3>1, Running DEF Bindings
    <3>2. CASE Request.name \in Networks
      <4>1. Wanted(task.at) \subseteq nets[Target] /\ Target = Name(task.at)
          BY <2>2, <3>2, Running DEF IInv, Reconciling, HalfDone
      <4>2. Wanted(task.at) # {} /\ Wanted(task.at) \cap ToRemove = {}
          BY <2>2, Running, RequestType DEF IInv, ToRemove
      <4> QED
          BY <2>0, <2>2, <4>1, <4>2 DEF Bindings
    <3> QED
        BY <3>1, <3>2
  <2>3. CASE UNCHANGED nets
      BY <2>3
  <2>4. CASE Add
      BY <2>1, <2>4 DEF Add
  <2>5. CASE Remove
    <3>1. task.pc = "remove"
        BY <2>5 DEF Remove
    <3>2. \E s \in SUBSET ToRemove : nets' = [nets EXCEPT ![Target] = @ \ s]
        BY <2>5 DEF Remove
    <3> QED
        BY <2>2, <3>1, <3>2
  <2>6. CASE Crash
      BY <2>1, <2>2, <2>3, <2>6 DEF Crash
  <2>7. CASE Reboot
      BY <2>7 DEF Reboot, IInv, TypeOK
  <2> QED
      BY <2>3, <2>4, <2>5, <2>6, <2>7
         DEF Next, InitStep, Environment, CallInit, Query, Persist, Finish, Configure, ChangeMachine
<1> QED
    BY AlwaysInv, <1>1, PTL DEF Spec, KeepsAnInterface

(* What is saved is what was asked for, if networks are named as the kernel shows
   them (lnet.py:209-260). *)
THEOREM FileIsAsAsked == Canonical => (Spec => SavesWhatWasAsked)
<1> SUFFICES ASSUME Canonical PROVE Spec => SavesWhatWasAsked
    OBVIOUS
<1>1. IInv /\ [Next]_vars =>
        [conf' # conf =>
            /\ conf' = nets
            /\ \A i \in DOMAIN task.want :
                 nets[Kernel(task.want[i].name)] = task.want[i].interfaces]_vars
  <2> SUFFICES ASSUME IInv, Next, conf' # conf
               PROVE  /\ conf' = nets
                      /\ \A i \in DOMAIN task.want :
                           nets[Kernel(task.want[i].name)] = task.want[i].interfaces
      OBVIOUS
  <2>1. Persist /\ conf' = nets
      BY DEF Next, InitStep, Environment, CallInit, Query, Add, Remove, Persist, Finish, Crash,
          Reboot, Configure, ChangeMachine
  <2>2. task.pc = "persist" /\ GoodWant(task.want)
      BY <2>1 DEF Persist, IInv, Reconciling, Steps
  <2>3. \A i \in DOMAIN task.want : nets[Name(i)] = Wanted(i) /\ Name(i) \in Networks
      BY <2>2 DEF IInv, Reconciling, ReconciledAsWanted, Reconciled, GoodWant, Name
  <2> QED
      BY <2>1, <2>3, NetworksAssumption DEF Name, Wanted
<1> QED
    BY AlwaysInv, <1>1, PTL DEF Spec, SavesWhatWasAsked
=============================================================================
