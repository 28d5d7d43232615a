-------------------------- MODULE FilesystemClient --------------------------
(***************************************************************************)
(* One unit of the filesystem-client charm: the handler it runs for every  *)
(* event (charm.py), what that handler does to the machine (manager.py),   *)
(* and the two relations it serves (filesystem_info.py, mount_info.py).    *)
(*                                                                         *)
(* The handler is cut where it works on the machine for long: the set-up,  *)
(* the write of the autofs map, the reload of autofs.  A request or an     *)
(* endpoint may change in between; a relation comes or goes only between   *)
(* two hooks of the unit.  The configuration is read once, at the start: a *)
(* change during a hook is one right after it.                             *)
(***************************************************************************)
EXTENDS Naturals

CONSTANTS
    Requests,         \* a mountpoint with its mount options
    NoRequest,
    Endpoints,        \* a filesystem that a provider may offer
    LustreEndpoints,  \* those that are mounted through LNet
    NoEndpoint,
    Relations,        \* the mount relations that may exist
    Unrelated,
    Faults,           \* the commands that may fail, of Commands
    MaxFaults,        \* bound: commands that fail
    MaxCrashes,       \* bound: hooks that are killed
    MaxReboots,       \* bound: reboots of the machine
    MaxChanges        \* bound: changes by the operator and the other charms

Commands == {"packages", "touch", "write", "lnet", "reload"}

ASSUME EndpointsAssumption ==
    /\ LustreEndpoints \subseteq Endpoints
    /\ NoEndpoint \notin Endpoints /\ NoRequest \notin Requests
    /\ Unrelated \notin Requests \cup {NoRequest}
ASSUME LimitsAssumption ==
    /\ Faults \subseteq Commands
    /\ MaxFaults \in Nat /\ MaxCrashes \in Nat
    /\ MaxReboots \in Nat /\ MaxChanges \in Nat

VARIABLES
    config,     \* the configuration of the application
    mount,      \* mount[r]: the request in mount relation r, if it exists
    provider,   \* the endpoint in the filesystem relation
    supported,  \* the machine is no container
    host,       \* packages and files on the machine
    served,     \* the map entry that the running autofs serves
    mounted,    \* mounted[r]: the flag in the unit databag of r
    status,     \* the kind of the unit status
    hook,       \* the handler, where it runs
    used        \* how much of each bound has been spent

world == <<config, mount, provider, supported>>
vars == <<world, host, served, mounted, status, hook, used>>

-----------------------------------------------------------------------------
(* State. *)

Config == [request : Requests \cup {NoRequest}, lustre : BOOLEAN,
           networks : BOOLEAN]  \* lnet-networks can be parsed

(* One line of the autofs map. *)
Entry(q, e) == [request |-> q, endpoint |-> e]
NoEntry == Entry(NoRequest, NoEndpoint)
Entries == [request : Requests, endpoint : Endpoints]

Host == [packages : SUBSET {"base", "lustre"},
         master : {"absent", "empty", "written"},
         mapExists : BOOLEAN,
         map : Entries \cup {NoEntry},
         lnet : BOOLEAN]  \* LUSTRE_LNET_CONF exists

Hook == [pc : {"idle", "failed", "setup", "mount", "reload", "commit"},
         flag : {"false", "true"}]  \* the mounted flag it writes

TypeOK ==
    /\ config \in Config
    /\ mount \in [Relations -> Requests \cup {NoRequest, Unrelated}]
    /\ provider \in Endpoints \cup {NoEndpoint}
    /\ supported \in BOOLEAN
    /\ host \in Host
    /\ served \in Entries \cup {NoEntry}
    /\ mounted \in [Relations -> {"unset", "false", "true"}]
    /\ status \in {"unknown", "maintenance", "waiting", "active", "blocked"}
    /\ hook \in Hook
    /\ used \in [faults : Nat, crashes : Nat, reboots : Nat, changes : Nat]

Init ==
    /\ config \in Config
    /\ mount = [r \in Relations |-> Unrelated]
    /\ provider = NoEndpoint
    /\ supported \in BOOLEAN
    /\ host = [packages |-> {}, master |-> "absent", mapExists |-> FALSE,
               map |-> NoEntry, lnet |-> FALSE]
    /\ served = NoEntry
    /\ mounted = [r \in Relations |-> "unset"]
    /\ status = "unknown"
    /\ hook = [pc |-> "idle", flag |-> "false"]
    /\ used = [faults |-> 0, crashes |-> 0, reboots |-> 0, changes |-> 0]

Related == {r \in Relations : mount[r] # Unrelated}
Resting == hook.pc \in {"idle", "failed"}

Fault(command) ==
    /\ command \in Faults /\ used.faults < MaxFaults
    /\ used' = [used EXCEPT !.faults = @ + 1]
Goto(pc) == hook' = [hook EXCEPT !.pc = pc]

(* StopCharm, and any exception: the flag stays at its first write, "false". *)
Stop(s) == Goto("commit") /\ status' = s

-----------------------------------------------------------------------------
(* manager.py: set-up.  Every step is skipped if its effect is there. *)

Needed(lustre) == IF lustre THEN {"base", "lustre"} ELSE {"base"}

(* Mutant: LNet is not looked at. *)
IsSetup_NoLnet(h, lustre) ==
    Needed(lustre) \subseteq h.packages /\ h.master # "absent" /\ h.mapExists
IsSetup(h, lustre) ==
    /\ Needed(lustre) \subseteq h.packages
    /\ h.master # "absent" /\ h.mapExists
    /\ lustre => h.lnet

Installed(h, lustre) == [h EXCEPT !.packages = @ \cup Needed(lustre)]
TouchMaster(h) == [h EXCEPT !.master = IF @ = "absent" THEN "empty" ELSE @]
(* Mutant: the map is created anew. *)
TouchMap_Truncates(h) == [h EXCEPT !.mapExists = TRUE, !.map = NoEntry]
TouchMap(h) == [h EXCEPT !.mapExists = TRUE]
(* Mutant: the master file keeps what touch left. *)
WriteMaster_Touched(h) == h
WriteMaster(h) == [h EXCEPT !.master = "written"]
InitLnet(h, lustre) == [h EXCEPT !.lnet = @ \/ lustre]

Touched(h, lustre) == TouchMap(TouchMaster(Installed(h, lustre)))
Prepared(h, lustre) == InitLnet(WriteMaster(Touched(h, lustre)), lustre)

(* What a set-up leaves behind when this command fails. *)
LeftBy(command, h, lustre) ==
    CASE command = "packages" -> {h, Installed(h, FALSE)}
      [] command = "touch" -> {Installed(h, lustre), TouchMaster(Installed(h, lustre))}
      [] command = "write" -> {Touched(h, lustre), [Touched(h, lustre) EXCEPT !.master = "empty"]}
      [] command = "lnet" -> IF lustre THEN {WriteMaster(Touched(h, lustre))} ELSE {}
      [] OTHER -> {}

(* The Lustre repository is set up again in every event, before is_setup can
   look at the packages. *)
SetupFailures(command) ==
    IF ~IsSetup(host, config.lustre) THEN LeftBy(command, host, config.lustre)
    ELSE IF config.lustre /\ command = "packages" THEN {host} ELSE {}

Setup ==
    /\ hook.pc = "setup"
    /\ \/ /\ host' = IF IsSetup(host, config.lustre) THEN host
                     ELSE Prepared(host, config.lustre)
          /\ Goto("mount") /\ UNCHANGED <<status, used>>
       \/ \E c \in Commands : \E h \in SetupFailures(c) :
            Fault(c) /\ host' = h /\ Stop("blocked")
    /\ UNCHANGED <<world, served, mounted>>

-----------------------------------------------------------------------------
(* manager.py: mounts() and the autofs map.  charm.py: _handle_event. *)

(* Mutant: only the first map is written. *)
MapChanged_First(e) == host.map = NoEntry
MapChanged(e) == host.map # e

(* What autofs serves once it has read its files again. *)
Loaded(h) == IF h.master = "written" THEN h.map ELSE NoEntry

(* _get_config found a single source for the request q. *)
Asked(q) ==
    \/ config.request = q /\ q # NoRequest /\ Related = {}
    \/ config.request = NoRequest /\ \E r \in Relations : Related = {r} /\ mount[r] = q

(* The mount relation has no mountpoint yet.  Mutant: nobody looks. *)
Waits_Never == FALSE
Waits == Asked(NoRequest)

(* No source, or several; no endpoint; a Lustre endpoint without enable-lustre. *)
CannotMount ==
    \/ ~\E q \in Requests \cup {NoRequest} : Asked(q)
    \/ ~Waits /\ provider = NoEndpoint
    \/ ~Waits /\ provider \in LustreEndpoints /\ ~config.lustre
    \/ ~Waits /\ ~host.mapExists

(* _handle_event up to _ensure_setup, in any of its events: update_status comes
   again and again. *)
HandleEvent ==
    /\ Resting
    /\ \/ /\ supported /\ (config.lustre => config.networks)
          /\ hook' = [pc |-> "setup", flag |-> "false"]
          /\ status' = "maintenance"
       \/ /\ ~supported \/ (config.lustre /\ ~config.networks)
          /\ hook' = [pc |-> "commit", flag |-> "false"]
          /\ status' = "blocked"
    /\ UNCHANGED <<world, host, served, mounted, used>>

(* The body of the with statement, then the end of mounts() up to the reload. *)
Mount ==
    /\ hook.pc = "mount"
    /\ \/ /\ CannotMount
          /\ Stop("blocked") /\ UNCHANGED <<host, used>>
       \/ /\ ~CannotMount /\ Waits
          /\ Stop("waiting") /\ UNCHANGED <<host, used>>
       \/ /\ ~CannotMount /\ ~Waits
          /\ \E q \in Requests \cup {NoRequest} :
               /\ Asked(q)
               /\ LET e == Entry(q, provider) IN
                  \/ /\ ~MapChanged(e)
                     /\ hook' = [pc |-> "commit", flag |-> "true"] /\ status' = "active"
                     /\ UNCHANGED <<host, used>>
                  \/ /\ MapChanged(e)
                     /\ host' = [host EXCEPT !.map = e]
                     /\ Goto("reload") /\ status' = "active" /\ UNCHANGED used
                  \/ /\ MapChanged(e) /\ Fault("write")
                     /\ host' \in {host, [host EXCEPT !.map = NoEntry]}
                     /\ Stop("blocked")
    /\ UNCHANGED <<world, served, mounted>>

(* systemctl reload-or-restart autofs; a restart that fails may stop it. *)
Reload ==
    /\ hook.pc = "reload"
    /\ \/ /\ served' = Loaded(host)
          /\ hook' = [pc |-> "commit", flag |-> "true"]
          /\ UNCHANGED <<status, used>>
       \/ /\ Fault("reload")
          /\ served' \in {served, NoEntry}
          /\ Stop("blocked")
    /\ UNCHANGED <<world, host, mounted>>

(* The end of the hook: set_mount_status reaches the mount relations. *)
Commit ==
    /\ hook.pc = "commit"
    /\ mounted' = [r \in Relations |-> IF r \in Related THEN hook.flag ELSE mounted[r]]
    /\ Goto("idle")
    /\ UNCHANGED <<world, host, served, status, used>>

-----------------------------------------------------------------------------
(* The machine, the operator and the other charms. *)

(* What the machine may look like when the hook is killed. *)
KilledHosts ==
    {host} \cup
    (IF hook.pc = "setup" /\ ~IsSetup(host, config.lustre)
     THEN {Prepared(host, config.lustre)}
          \cup UNION {LeftBy(c, host, config.lustre) : c \in Commands}
     ELSE IF hook.pc = "mount" THEN {[host EXCEPT !.map = NoEntry]} ELSE {})

Crash ==
    /\ ~Resting /\ used.crashes < MaxCrashes
    /\ used' = [used EXCEPT !.crashes = @ + 1]
    /\ host' \in KilledHosts
    /\ Goto("failed")
    /\ UNCHANGED <<world, served, mounted, status>>

(* Between two hooks; autofs and LNet come up from their files. *)
Reboot ==
    /\ Resting /\ used.reboots < MaxReboots
    /\ used' = [used EXCEPT !.reboots = @ + 1]
    /\ served' = Loaded(host)
    /\ UNCHANGED <<world, host, mounted, status, hook>>

Change ==
    used.changes < MaxChanges /\ used' = [used EXCEPT !.changes = @ + 1]

Configure ==
    /\ Resting /\ Change
    /\ config' \in Config \ {config}
    /\ UNCHANGED <<mount, provider, supported, host, served, mounted, status, hook>>

(* A mount relation is made or removed, with what its databag held. *)
Relate(r) ==
    /\ Resting /\ Change
    /\ mount' = [mount EXCEPT ![r] = IF @ = Unrelated THEN NoRequest ELSE Unrelated]
    /\ mounted' = [mounted EXCEPT ![r] = "unset"]
    /\ UNCHANGED <<config, provider, supported, host, served, status, hook>>

SetMountInfo(r, q) ==
    /\ mount[r] \notin {Unrelated, q} /\ Change
    /\ mount' = [mount EXCEPT ![r] = q]
    /\ UNCHANGED <<config, provider, supported, host, served, mounted, status, hook>>

SetEndpoint(e) ==
    /\ e # provider /\ Change
    /\ provider' = e
    /\ UNCHANGED <<config, mount, supported, host, served, mounted, status, hook>>

(* The filesystem relation is removed. *)
UmountFilesystem ==
    /\ provider # NoEndpoint /\ Resting /\ Change
    /\ provider' = NoEndpoint
    /\ UNCHANGED <<config, mount, supported, host, served, mounted, status, hook>>

-----------------------------------------------------------------------------
HookStep == Setup \/ Mount \/ Reload \/ Commit

Environment ==
    \/ Crash \/ Reboot \/ Configure \/ UmountFilesystem
    \/ \E r \in Relations : Relate(r) \/ \E q \in Requests : SetMountInfo(r, q)
    \/ \E e \in Endpoints : SetEndpoint(e)

Next == HandleEvent \/ HookStep \/ Environment

Spec == Init /\ [][Next]_vars

(* Juju runs a hook to its end and dispatches update_status for ever. *)
Fairness == WF_vars(HandleEvent) /\ WF_vars(HookStep)
FairSpec == Spec /\ Fairness

-----------------------------------------------------------------------------
(* Properties. *)

(* What the operator and the other charms ask for, if it can be had. *)
Wanted(q, e) ==
    /\ supported /\ (config.lustre => config.networks)
    /\ Asked(q) /\ provider = e
    /\ e \in LustreEndpoints => config.lustre

(* The flag does not lie to the workload: after a hook that sets it to "true",
   the running autofs serves what the map says, "any mount that is added to
   `Mounts` will be mounted by the manager" (manager.py:202-203, charm.py:94). *)
MountedIsServed ==
    hook.pc = "idle" =>
        \A r \in Relations : mounted[r] = "true" =>
            served = host.map /\ served # NoEntry

(* A Lustre filesystem is neither in the map nor served before the kernel modules
   are installed and LNet is configured, even if Lustre was enabled on a unit
   that was set up without (manager.py:146-188). *)
LustreNeedsLnet ==
    \A e \in {host.map, served} : e.endpoint \in LustreEndpoints =>
        "lustre" \in host.packages /\ host.lnet

(* The umount requests of charm.py:23: the filesystem is gone (umount_filesystem,
   filesystem_info.py:597-598), or the request is (no mountpoint is configured and
   no mount relation has one). *)
UmountRequested ==
    \/ provider = NoEndpoint
    \/ config.request = NoRequest /\ \A r \in Related : mount[r] = NoRequest

(* Errors do not unmount: as long as nobody asked for an umount, a map that has a
   mount keeps one through every error that stops the handler and through a set-up
   that runs again (manager.py:209-211, 173-176). *)
KeepsMounts ==
    [][~UmountRequested /\ host.map # NoEntry => host'.map # NoEntry]_vars

(* The umount of umount_filesystem, which says that "the filesystem needs to be
   unmounted" (filesystem_info.py:35): a handler that gets to the mounts when the
   filesystem is gone finds none to add, and those of "previous executions will get
   removed if they're not added again" (manager.py:203-205). *)
Unmounts == [][Mount /\ provider = NoEndpoint => host'.map = NoEntry]_vars

(* If in the end there is something to mount, then in the end it is mounted and the
   workload knows, whatever failed or was mounted before (charm.py:50-101). *)
Converges ==
    \A q \in Requests, e \in Endpoints :
        <>[]Wanted(q, e) =>
            <>[](served = Entry(q, e) /\ \A r \in Related : mounted[r] = "true")
=============================================================================
