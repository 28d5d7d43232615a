-------------------------- MODULE LustreFs_proofs --------------------------
(***************************************************************************)
(* Proofs about LustreFs, for any devices, NIDs and bounds: its types, and *)
(* that it implements Target.                                              *)
(***************************************************************************)
EXTENDS LustreFs, FiniteSetTheorems, TLAPS

(* The disk is as far as the running hook, and a target lies on a pool. *)
Progress ==
    /\ imported => pool # {}
    /\ label # None => pool # {}
    /\ hook.pc \in {"format", "mount"} => pool # {}
    /\ hook.pc = "mount" => label # None

IInv == TypeOK /\ Progress

LEMMA IdleIsAHook == Idle \in Hook /\ Idle.pc = "idle"
BY DEF Idle, Hook

LEMMA Working ==
    ASSUME hook \in Hook, hook.pc # "idle"
    PROVE  /\ hook \in [pc : {"pool", "format", "mount"},
                        devices : (SUBSET Devices) \ {{}}, label : Labels]
           /\ hook.devices \subseteq Devices /\ hook.devices # {}
           /\ hook.label \in Labels
BY DEF Hook, Idle

LEMMA NextIsAHook ==
    ASSUME hook \in Hook, hook.pc # "idle",
           NEW pc \in {"pool", "format", "mount"}, Goto(pc)
    PROVE  hook' \in Hook /\ hook'.pc = pc
BY Working DEF Hook, Goto

LEMMA FaultKeepsType ==
    ASSUME used \in [faults : Nat, crashes : Nat, reboots : Nat], Fault
    PROVE  used' \in [faults : Nat, crashes : Nat, reboots : Nat]
BY DEF Fault

LEMMA InitInv == Init => IInv
<1> SUFFICES ASSUME Init PROVE IInv
    OBVIOUS
<1>1. used \in [faults : Nat, crashes : Nat, reboots : Nat]
    BY DEF Init
<1>2. hook \in Hook /\ hook.pc = "idle"
    BY IdleIsAHook DEF Init
<1> QED
    BY <1>1, <1>2 DEF Init, IInv, TypeOK, Progress

LEMMA NextInv == IInv /\ [Next]_vars => IInv'
<1> SUFFICES ASSUME IInv, [Next]_vars PROVE IInv'
    OBVIOUS
<1> USE DEF IInv, TypeOK, Progress
<1>1. CASE Call
  <2>1. hook' \in Hook /\ hook'.pc = "pool"
      <3>1. PICK n \in Labels : hook' = [pc |-> "pool", devices |-> attached, label |-> n]
          BY <1>1 DEF Call
      <3>2. attached \in (SUBSET Devices) \ {{}}
          BY <1>1 DEF Call, Callable
      <3> QED
          BY <3>1, <3>2 DEF Hook
  <2> QED
      BY <1>1, <2>1 DEF Call, Hook, disk
<1>2. CASE ZPool
  <2>0. hook.pc = "pool" /\ hook.devices \subseteq Devices /\ hook.devices # {}
      BY <1>2, Working DEF ZPool
  <2>1. /\ hook' \in Hook /\ hook'.pc \in {"idle", "format"}
        /\ hook'.pc = "format" => imported' = TRUE
      BY <1>2, <2>0, NextIsAHook, IdleIsAHook DEF ZPool, Raise
  <2>2. used' \in [faults : Nat, crashes : Nat, reboots : Nat]
      BY <1>2, FaultKeepsType DEF ZPool
  <2>3. /\ pool' \in {pool, hook.devices} /\ imported' \in BOOLEAN
        /\ pool # {} => pool' # {}
        /\ imported' => pool' # {}
    <3>1. Imported \in BOOLEAN /\ (Imported => pool # {})
        BY DEF Imported
    <3>2. CASE imported' = TRUE /\ UNCHANGED pool /\ Imported
        BY <3>1, <3>2
    <3>3. CASE imported' = TRUE /\ pool' = hook.devices
        BY <2>0, <3>3
    <3>4. CASE imported' \in {imported, Imported} /\ UNCHANGED pool
      <4>1. CASE imported' = imported
          BY <3>4, <4>1
      <4>2. CASE imported' = Imported
          BY <3>1, <3>4, <4>2
      <4> QED
          BY <3>4, <4>1, <4>2
    <3>5. CASE UNCHANGED <<pool, imported>>
        BY <3>5
    <3> QED
        BY <1>2, <3>2, <3>3, <3>4, <3>5 DEF ZPool
  <2> QED
      BY <1>2, <2>0, <2>1, <2>2, <2>3 DEF ZPool, Hook
<1>3. CASE LustreTarget
  <2>0. hook.pc = "format" /\ hook.label \in Labels
      BY <1>3, Working DEF LustreTarget
  <2>1. hook' \in Hook /\ hook'.pc \in {"idle", "mount"}
      BY <1>3, <2>0, NextIsAHook, IdleIsAHook DEF LustreTarget, Raise
  <2>2. used' \in [faults : Nat, crashes : Nat, reboots : Nat]
      BY <1>3, FaultKeepsType DEF LustreTarget
  <2>3. /\ label' \in Labels \cup {None}
        /\ hook'.pc = "mount" => label' # None
    <3>1. CASE label' = IF TargetExists THEN label ELSE hook.label
        BY <2>0, <3>1, TargetAssumption DEF TargetExists
    <3>2. CASE Raise /\ UNCHANGED label
        BY <3>2, IdleIsAHook DEF Raise
    <3> QED
        BY <1>3, <3>1, <3>2 DEF LustreTarget
  <2> QED
      BY <1>3, <2>0, <2>1, <2>2, <2>3 DEF LustreTarget, Hook
<1>4. CASE MountTarget
  <2>1. hook' \in Hook /\ hook'.pc = "idle"
      BY <1>4, IdleIsAHook DEF MountTarget
  <2>2. used' \in [faults : Nat, crashes : Nat, reboots : Nat]
      BY <1>4, FaultKeepsType DEF MountTarget
  <2> QED
      BY <1>4, <2>1, <2>2 DEF MountTarget, Hook
<1>5. CASE Reattach
    BY <1>5 DEF Reattach, disk, Hook
<1>6. CASE Crash
  <2>1. hook' \in Hook /\ hook'.pc = "idle"
      BY <1>6, IdleIsAHook DEF Crash
  <2>2. used' \in [faults : Nat, crashes : Nat, reboots : Nat]
      BY <1>6 DEF Crash
  <2>3. hook.devices \subseteq Devices /\ hook.devices # {} /\ hook.label \in Labels
      BY <1>6, Working DEF Crash
  <2>4. CASE UNCHANGED disk
      BY <1>6, <2>1, <2>2, <2>4 DEF Crash, disk, Hook
  <2>5. CASE hook.pc = "pool" /\ pool' = hook.devices /\ imported' = TRUE
             /\ UNCHANGED <<label, mounted>>
      BY <1>6, <2>1, <2>2, <2>3, <2>5 DEF Crash, Hook
  <2>6. CASE hook.pc = "format" /\ label' = hook.label /\ UNCHANGED <<pool, imported, mounted>>
      BY <1>6, <2>1, <2>2, <2>3, <2>6 DEF Crash, Hook
  <2>7. CASE hook.pc = "mount" /\ mounted' = TRUE /\ UNCHANGED <<pool, imported, label>>
      BY <1>6, <2>1, <2>2, <2>7 DEF Crash, Hook
  <2> QED
      BY <1>6, <2>4, <2>5, <2>6, <2>7 DEF Crash
<1>7. CASE Reboot
  <2>1. used' \in [faults : Nat, crashes : Nat, reboots : Nat]
      BY <1>7 DEF Reboot
  <2>2. visible' \in BOOLEAN /\ imported' \in BOOLEAN /\ (imported' => pool # {})
      BY <1>7 DEF Reboot
  <2> QED
      BY <1>7, <2>1, <2>2 DEF Reboot, Hook
<1>8. ASSUME NEW d \in Devices, AttachStorage(d) PROVE IInv'
    BY <1>8 DEF AttachStorage, disk, Hook
<1>9. CASE UNCHANGED vars
    BY <1>9 DEF vars, disk, Hook
<1> QED
    BY <1>1, <1>2, <1>3, <1>4, <1>5, <1>6, <1>7, <1>8, <1>9 DEF Next, HookStep

LEMMA AlwaysInv == Spec => []IInv
BY InitInv, NextInv, PTL DEF Spec

(* Every variable keeps its type: no hook works without storage or NIDs. *)
THEOREM TypeCorrect == Spec => []TypeOK
<1>1. IInv => TypeOK
    BY DEF IInv
<1> QED
    BY AlwaysInv, <1>1, PTL

-----------------------------------------------------------------------------
(* A count of devices that the code takes makes a redundant pool. *)
LEMMA FittingIsRedundant ==
    ASSUME TypeOK, NEW l \in SUBSET Devices, Fits(Cardinality(l))
    PROVE  Redundant(l)
<1> DEFINE n == Cardinality(l)
<1>1. n \in Nat
    BY FS_Subset, FS_CardinalityType, TargetAssumption
<1>2. CASE kind = "ost"
    BY <1>1, <1>2 DEF Fits, Redundant
<1>3. CASE kind # "ost"
  <2>1. n >= 2 /\ n % 2 = 0
      BY <1>3, TargetAssumption DEF Fits, TypeOK
  <2>2. n = 2 * (n \div 2) /\ n \div 2 \in 1..n
      BY <1>1, <2>1
  <2> QED
      BY <1>3, <2>2 DEF Redundant
<1> QED
    BY <1>2, <1>3

LEMMA EmptyIsNotRedundant == ~Redundant({})
BY FS_EmptySet DEF Redundant

(* What a target may become in one step. *)
Layouts == {l \in SUBSET Devices : Redundant(l)}
TargetStep == ATarget!Next \/ UNCHANGED <<Layouts, pool, label, mounted>>

LEMMA SameLayouts == ASSUME UNCHANGED kind PROVE UNCHANGED Layouts
BY DEF Layouts, Redundant

LEMMA StepImplements == IInv /\ [Next]_vars => TargetStep
<1> SUFFICES ASSUME IInv, [Next]_vars PROVE TargetStep
    OBVIOUS
<1>0. UNCHANGED Layouts
    BY SameLayouts DEF Next, HookStep, Call, ZPool, LustreTarget, MountTarget,
        Reattach, Crash, Reboot, AttachStorage, vars
<1> USE <1>0 DEF TargetStep, ATarget!Next, Layouts
<1>1. ASSUME UNCHANGED <<pool, label, mounted>> PROVE TargetStep
    BY <1>1
<1>2. ASSUME pool = {}, pool' = hook.devices, hook.pc = "pool",
             Fits(Cardinality(hook.devices)), UNCHANGED <<label, mounted>>
      PROVE  TargetStep
  <2>1. hook.devices \in SUBSET Devices
      BY <1>2 DEF IInv, TypeOK, Hook, Idle
  <2>2. hook.devices \in Layouts
      BY <1>2, <2>1, FittingIsRedundant DEF IInv
  <2> QED
      BY <1>2, <2>2 DEF ATarget!Create
<1>3. ASSUME hook.pc = "format", label = None, label' = hook.label,
             UNCHANGED <<pool, mounted>>
      PROVE  TargetStep
    BY <1>3 DEF IInv, TypeOK, Progress, Hook, Idle, ATarget!Format
<1>4. ASSUME hook.pc = "mount", mounted' = TRUE, UNCHANGED <<pool, label>>
      PROVE  TargetStep
    BY <1>4 DEF IInv, Progress, ATarget!Mount
<1>5. ASSUME mounted' = FALSE, UNCHANGED <<pool, label>> PROVE TargetStep
    BY <1>5 DEF ATarget!Unmount
<1>6. CASE Call \/ Reattach \/ UNCHANGED vars \/ \E d \in Devices : AttachStorage(d)
    BY <1>1, <1>6 DEF Call, Reattach, AttachStorage, vars, disk
<1>7. CASE ZPool
    BY <1>1, <1>2, <1>7 DEF ZPool, Imported
<1>8. CASE LustreTarget
    BY <1>1, <1>3, <1>8 DEF LustreTarget, TargetExists
<1>9. CASE MountTarget
    BY <1>1, <1>4, <1>9 DEF MountTarget
<1>10. CASE Crash
    BY <1>1, <1>2, <1>3, <1>4, <1>10 DEF Crash, disk, Imported, TargetExists
<1>11. CASE Reboot
    BY <1>5, <1>11 DEF Reboot
<1> QED
    BY <1>6, <1>7, <1>8, <1>9, <1>10, <1>11 DEF Next, HookStep

(* The set-up implements Target, for any devices and any number of failures,
   crashes and reboots: no pool is made twice, no target is formatted twice
   (lustre_fs.py:128-290). *)
THEOREM SetupImplementsTarget == Spec => ImplementsTarget
<1>1. Init => ATarget!Init
    BY EmptyIsNotRedundant DEF Init, ATarget!Init
<1>2. IInv /\ [Next]_vars => [ATarget!Next]_(ATarget!vars)
    BY StepImplements DEF TargetStep, ATarget!vars, Layouts
<1> QED
    BY <1>1, <1>2, AlwaysInv, PTL DEF Spec, ImplementsTarget, ATarget!Spec
=============================================================================
