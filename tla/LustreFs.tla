------------------------------ MODULE LustreFs ------------------------------
(***************************************************************************)
(* The target of one unit of lustre-server: mgs_mds_setup and oss_setup    *)
(* command by command (lustre_fs.py), called again by every hook that      *)
(* comes, while storage is attached one device at a time.                  *)
(***************************************************************************)
EXTENDS Naturals, FiniteSets

CONSTANTS
    Devices,
    Labels,       \* the MGS NIDs that a hook may have read
    None,
    Kinds,        \* of {"mgt-mdt", "ost"}: what the unit is given
    MaxFaults,    \* bound: commands that fail
    MaxCrashes,   \* bound: hooks that are killed
    MaxReboots    \* bound: reboots

ASSUME TargetAssumption ==
    /\ IsFiniteSet(Devices) /\ None \notin Labels /\ Kinds \subseteq {"mgt-mdt", "ost"}
    /\ MaxFaults \in Nat /\ MaxCrashes \in Nat /\ MaxReboots \in Nat

VARIABLES
    kind,
    attached,  \* the devices that Juju has attached
    visible,   \* their locations can be read
    pool,      \* the devices that carry the pool
    imported,  \* zpool list shows it
    label,     \* what the target was formatted with
    mounted,
    due,       \* Juju has a hook for this unit that will set it up
    hook,      \* the step, the devices and the NIDs of the running hook
    used       \* how much of each bound has been spent

disk == <<pool, imported, label, mounted>>
vars == <<kind, attached, visible, disk, due, hook, used>>

Idle == [pc |-> "idle", devices |-> {}, label |-> None]
Hook == {Idle} \cup [pc : {"pool", "format", "mount"},
                     devices : (SUBSET Devices) \ {{}}, label : Labels]

TypeOK ==
    /\ kind \in Kinds
    /\ attached \subseteq Devices /\ visible \in BOOLEAN
    /\ pool \subseteq Devices /\ imported \in BOOLEAN
    /\ label \in Labels \cup {None} /\ mounted \in BOOLEAN
    /\ due \in BOOLEAN
    /\ hook \in Hook
    /\ used \in [faults : Nat, crashes : Nat, reboots : Nat]

Init ==
    /\ kind \in Kinds
    /\ attached = {} /\ visible = TRUE
    /\ pool = {} /\ imported = FALSE /\ label = None /\ mounted = FALSE
    /\ due = FALSE
    /\ hook = Idle
    /\ used = [faults |-> 0, crashes |-> 0, reboots |-> 0]

Goto(pc) == hook' = [hook EXCEPT !.pc = pc]
(* A LustreFilesystemError blocks the unit; nothing calls the set-up again. *)
Raise == hook' = Idle
Fault == used.faults < MaxFaults /\ used' = [used EXCEPT !.faults = @ + 1]

(* The device counts that _mgt_mdt_zpool and _ost_zpool take: pairs of mirrors;
   RAIDZ2.  Mutant: the pairs are not counted. *)
Fits_Odd(n) == IF kind = "mgt-mdt" THEN n >= 2 ELSE n >= 3
Fits(n) == IF kind = "mgt-mdt" THEN n >= 2 /\ n % 2 = 0 ELSE n >= 3

-----------------------------------------------------------------------------
(* A hook.  Without readable storage it fails, and Juju runs it again. *)

(* Mutant: the set-up is called without any storage. *)
Callable_NoStorage == due /\ hook.pc = "idle" /\ visible
Callable == due /\ hook.pc = "idle" /\ visible /\ attached # {}

Call ==
    /\ Callable
    /\ \E n \in Labels : hook' = [pc |-> "pool", devices |-> attached, label |-> n]
    /\ due' = FALSE
    /\ UNCHANGED <<kind, attached, visible, disk, used>>

(* _ensure_zfs_import_service: a pool whose service has not run is imported.
   Mutant: nobody does that. *)
Imported_AsFound == imported
Imported == imported \/ pool # {}

(* zpool create takes only devices that carry no pool. *)
ZPool ==
    /\ hook.pc = "pool"
    /\ \/ /\ Imported
          /\ imported' = TRUE
          /\ Goto("format") /\ UNCHANGED <<pool, used>>
       \/ /\ ~Imported /\ Fits(Cardinality(hook.devices)) /\ pool \cap hook.devices = {}
          /\ pool' = hook.devices /\ imported' = TRUE
          /\ Goto("format") /\ UNCHANGED used
       \/ /\ ~Imported
          /\ ~Fits(Cardinality(hook.devices)) \/ pool \cap hook.devices # {}
          /\ Raise /\ UNCHANGED <<pool, imported, used>>
       \/ Fault /\ Raise /\ imported' \in {imported, Imported} /\ UNCHANGED pool
    /\ UNCHANGED <<kind, attached, visible, label, mounted, due>>

TargetExists == label # None

LustreTarget ==
    /\ hook.pc = "format"
    /\ \/ /\ label' = IF TargetExists THEN label ELSE hook.label
          /\ Goto("mount") /\ UNCHANGED used
       \/ Fault /\ Raise /\ UNCHANGED label
    /\ UNCHANGED <<kind, attached, visible, pool, imported, mounted, due>>

MountTarget ==
    /\ hook.pc = "mount"
    /\ \/ mounted' = TRUE /\ UNCHANGED used
       \/ ~mounted /\ Fault /\ UNCHANGED mounted
    /\ hook' = Idle
    /\ UNCHANGED <<kind, attached, visible, pool, imported, label, due>>

-----------------------------------------------------------------------------
(* The operator, Juju, the machine. *)

(* storage-attached. *)
AttachStorage(d) ==
    /\ d \notin attached
    /\ attached' = attached \cup {d} /\ due' = TRUE
    /\ UNCHANGED <<kind, visible, disk, hook, used>>

(* The hook is killed, after its command or before it, and run again. *)
Crash ==
    /\ hook.pc # "idle" /\ used.crashes < MaxCrashes
    /\ used' = [used EXCEPT !.crashes = @ + 1]
    /\ \/ UNCHANGED disk
       \/ /\ hook.pc = "pool" /\ ~Imported /\ Fits(Cardinality(hook.devices))
          /\ pool \cap hook.devices = {}
          /\ pool' = hook.devices /\ imported' = TRUE /\ UNCHANGED <<label, mounted>>
       \/ /\ hook.pc = "format" /\ ~TargetExists
          /\ label' = hook.label /\ UNCHANGED <<pool, imported, mounted>>
       \/ hook.pc = "mount" /\ mounted' = TRUE /\ UNCHANGED <<pool, imported, label>>
    /\ hook' = Idle /\ due' = TRUE
    /\ UNCHANGED <<kind, attached, visible>>

(* The pool is imported at boot if its devices are there by then; storage may
   be attached again later; start runs. *)
Reboot ==
    /\ hook.pc = "idle" /\ used.reboots < MaxReboots
    /\ used' = [used EXCEPT !.reboots = @ + 1]
    /\ mounted' = FALSE
    /\ \E there \in BOOLEAN : visible' = there /\ imported' = (there /\ pool # {})
    /\ due' = TRUE
    /\ UNCHANGED <<kind, attached, pool, label, hook>>

Reattach ==
    /\ ~visible /\ visible' = TRUE
    /\ UNCHANGED <<kind, attached, disk, due, hook, used>>

-----------------------------------------------------------------------------
HookStep == Call \/ ZPool \/ LustreTarget \/ MountTarget

Next ==
    \/ HookStep \/ Reattach \/ Crash \/ Reboot
    \/ \E d \in Devices : AttachStorage(d)

Spec == Init /\ [][Next]_vars

(* Juju runs its hooks and attaches the storage again. *)
FairSpec == Spec /\ WF_vars(HookStep) /\ WF_vars(Reattach)

-----------------------------------------------------------------------------
(* Properties. *)

(* Every device of a pool has another one to recover from. *)
Redundant(l) ==
    IF kind = "ost" THEN Cardinality(l) > 2
    ELSE \E pairs \in 1..Cardinality(l) : Cardinality(l) = 2 * pairs

ATarget == INSTANCE Target WITH layouts <- {l \in SUBSET Devices : Redundant(l)}

(* The set-up keeps the promises of a Target, whichever command fails or is
   killed and whatever a later hook brings: one pool of a fitting number of
   devices, one format, with the NIDs of the first time ("Idempotent",
   lustre_fs.py:144, :180, :220, :268). *)
ImplementsTarget == ATarget!Spec

(* A unit that has, in the end, a number of devices that fits serves its target
   in the end, over crashes and reboots, if no command fails: the refused counts
   on the way, one storage-attached hook at a time, leave nothing behind that
   stands in the way (lustre_fs.py:143, charm.py:84). *)
ComesUp ==
    ([](used.faults = 0) /\ <>[](attached # {} /\ Fits(Cardinality(attached))))
        => <>[]mounted
=============================================================================
