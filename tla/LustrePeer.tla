----------------------------- MODULE LustrePeer -----------------------------
(***************************************************************************)
(* The lustre-server charm as a distributed protocol: the hooks of every   *)
(* unit (charm.py), the peer relation through which they agree on one MGS  *)
(* and report readiness (lustre_peer.py), what they leave on disk          *)
(* (lustre_fs.py, abstracted to "formatted" and "mounted") and the status  *)
(* they show (state.py).                                                   *)
(*                                                                         *)
(* A hook runs as a transaction.  It reads a databag once and keeps that   *)
(* copy (hook[u].app), its own writes go to the copy, and they reach the   *)
(* other units together when the hook ends (Flush) or not at all (a failed *)
(* hook is retried from the start).  Two things escape the transaction:    *)
(* disks, which change at once, and is_leader(), which is never cached.    *)
(***************************************************************************)
EXTENDS Integers, FiniteSets

CONSTANTS
    Units,            \* every unit the application may ever have
    NoUnit,           \* Python's None where a unit name is expected
    InitUnits,        \* the units of the first deployment
    InitStorage,      \* [Units -> SUBSET Kinds], attached at deployment
    MaxStorage,       \* [Units -> SUBSET Kinds], what may be attached later on
    Addresses,        \* the addresses a unit may have on the LNet network
    MaxElections,     \* bound: leadership moves
    MaxCrashes,       \* bound: hook crashes and machine reboots
    MaxFaults,        \* bound: installation and provisioning commands that fail
    SettledElections  \* TRUE: a unit is elected only between two of its hooks

Kinds == {"mgt-mdt", "ost"}

ASSUME UnitsAssumption == NoUnit \notin Units /\ InitUnits \subseteq Units
ASSUME FiniteUnitsAssumption == IsFiniteSet(Units)
ASSUME StorageAssumption ==
    /\ InitStorage \in [Units -> SUBSET Kinds]
    /\ MaxStorage \in [Units -> SUBSET Kinds]
    /\ \A u \in Units : InitStorage[u] \subseteq MaxStorage[u]
ASSUME BoundsAssumption ==
    /\ MaxElections \in Nat /\ MaxCrashes \in Nat /\ MaxFaults \in Nat
    /\ SettledElections \in BOOLEAN
ASSUME AddressesAssumption == Addresses # {}

VARIABLES
    leader,     \* the unit that holds Juju's leadership
    units,      \* the units that exist: their number is planned_units()
    storage,    \* storage[u]: the kinds of storage attached to u
    usable,     \* usable[u]: s.location can be read (not while a reboot reattaches)
    address,    \* address[u]: the address lnetctl reports on u
    software,   \* software[u]: how far the install hook got
    disk,       \* disk[u]: the targets formatted and mounted on u
    status,     \* status[u]: the kind of u's unit status
    app,        \* committed peer app databag (LustrePeerAppData)
    bag,        \* bag[u]: committed peer unit databag (LustrePeerUnitData)
    endpoint,   \* committed filesystem info, as the NIDs it names
    pending,    \* pending[u]: the events Juju still has to dispatch to u
    hook,       \* hook[u]: the hook running on u
    used        \* how much of each bound has been spent

data == <<app, bag, endpoint>>
machine == <<storage, usable, address, software>>
vars == <<leader, units, machine, disk, status, data, pending, hook, used>>

-----------------------------------------------------------------------------
(* Databags, events and hooks. *)

NoNids == [host |-> NoUnit, addr |-> NoUnit]
Nids == [host : Units, addr : Addresses]
NidsOrNone == Nids \cup {NoNids}

NoApp == [unit |-> NoUnit, nids |-> NoNids]
AppData == [unit : Units, nids : Nids] \cup {NoApp}
UnitData == [ready : BOOLEAN, nids : NidsOrNone]

(* data.mgs_unit_name is set and data.mgs_nids is not empty. *)
Promoted(a) == a.unit # NoUnit /\ a.nids # NoNids

Install == [kind |-> "install", unit |-> NoUnit]
Start == [kind |-> "start", unit |-> NoUnit]
(* relation-changed; NoUnit is event.unit = None, the app databag changed. *)
Changed(v) == [kind |-> "changed", unit |-> v]
Events == {Install, Start} \cup {Changed(v) : v \in Units \cup {NoUnit}}

(* ost is the NID list the OST was formatted with (--mgsnode). *)
Disk == [mgs : BOOLEAN, ost : NidsOrNone, mounted : SUBSET Kinds]
BlankDisk == [mgs |-> FALSE, ost |-> NoNids, mounted |-> {}]

Running == {"mgs", "promote", "oss", "publish", "commit"}
Hook == [pc : Running \cup {"idle", "failed"}, event : Events,
         app : AppData,        \* the app databag as this hook sees it
         writes : BOOLEAN,     \* the hook wrote the app databag
         nids : NidsOrNone,    \* its own unit databag as this hook sees it
         ready : BOOLEAN,
         endpoint : NidsOrNone, \* the filesystem info it set, if any
         stale : SUBSET Units,  \* units it read as not ready earlier on
         refresh : BOOLEAN]     \* check_lustre runs at the end

AtRest(pc, e) ==
    [pc |-> pc, event |-> e, app |-> NoApp, writes |-> FALSE, nids |-> NoNids,
     ready |-> FALSE, endpoint |-> NoNids, stale |-> {}, refresh |-> FALSE]
Idle == AtRest("idle", Start)
Failed(e) == AtRest("failed", e)

(* What a hook sees when it is dispatched: the databags committed so far.
   Mutant: the app databag loads as a default instance. *)
Dispatched_Default(u, e) ==
    [AtRest("idle", e) EXCEPT !.nids = bag[u].nids, !.ready = bag[u].ready]
Dispatched(u, e) ==
    [AtRest("idle", e) EXCEPT !.app = app, !.nids = bag[u].nids,
                              !.ready = bag[u].ready]

InHook(u) == hook[u].pc \in Running

(* A failed hook is retried before anything else; install, start and
   storage-attached run before the hooks of the relation. *)
Dispatchable(u, e) ==
    \/ hook[u].pc = "failed" /\ hook[u].event = e
    \/ /\ hook[u].pc = "idle" /\ e \in pending[u]
       /\ e.kind = "changed" => {Install, Start} \cap pending[u] = {}

Consume(u, e) ==
    pending' = IF hook[u].pc = "failed" THEN pending
               ELSE [pending EXCEPT ![u] = @ \ {e}]

Become(u, h) == hook' = [hook EXCEPT ![u] = h]
SetStatus(u, s) == status' = [status EXCEPT ![u] = s]
Fault == used.faults < MaxFaults /\ used' = [used EXCEPT !.faults = @ + 1]

TypeOK ==
    /\ leader \in Units
    /\ units \in SUBSET Units
    /\ storage \in [Units -> SUBSET Kinds]
    /\ usable \in [Units -> BOOLEAN]
    /\ address \in [Units -> Addresses]
    /\ software \in [Units -> {"none", "packages", "lnet"}]
    /\ disk \in [Units -> Disk]
    /\ status \in [Units -> {"unknown", "maintenance", "waiting", "active", "blocked"}]
    /\ app \in AppData
    /\ bag \in [Units -> UnitData]
    /\ endpoint \in NidsOrNone
    /\ pending \in [Units -> SUBSET Events]
    /\ hook \in [Units -> Hook]
    /\ used \in [elections : Nat, crashes : Nat, faults : Nat]

(* Every unit starts with its install hook pending, the storage-attached hook
   of the storage it was deployed with, and the first relation-changed of each
   other unit. *)
FirstEvents(u, others) ==
    {Install} \cup {Changed(v) : v \in others \ {u}}
              \cup (IF InitStorage[u] # {} THEN {Start} ELSE {})

Init ==
    /\ leader \in InitUnits
    /\ units = InitUnits
    /\ storage = InitStorage
    /\ usable = [u \in Units |-> TRUE]
    /\ address \in [Units -> Addresses]
    /\ software = [u \in Units |-> "none"]
    /\ disk = [u \in Units |-> BlankDisk]
    /\ status = [u \in Units |-> "unknown"]
    /\ app = NoApp
    /\ bag = [u \in Units |-> [ready |-> FALSE, nids |-> NoNids]]
    /\ endpoint = NoNids
    /\ pending = [u \in Units |->
                    IF u \in InitUnits THEN FirstEvents(u, InitUnits) ELSE {}]
    /\ hook = [u \in Units |-> Idle]
    /\ used = [elections |-> 0, crashes |-> 0, faults |-> 0]

-----------------------------------------------------------------------------
(* state.py *)

(* check_lustre: a passing check shows Active, a failing one keeps an existing
   Blocked and otherwise waits for the MGS or blocks. *)
RoleMounted(u, a) ==
    IF a.unit = u THEN "mgt-mdt" \in disk[u].mounted ELSE "ost" \in disk[u].mounted
CheckLustre(u, a, existing) ==
    IF Promoted(a) /\ RoleMounted(u, a) THEN "active"
    ELSE IF existing = "blocked" \/ Promoted(a) THEN "blocked"
    ELSE "waiting"

-----------------------------------------------------------------------------
(* lustre_fs.py: each command is skipped if its effect is already there. *)

FormatMgs(d) == [d EXCEPT !.mgs = TRUE]
FormatOst(d, n) == [d EXCEPT !.ost = IF @ = NoNids THEN n ELSE @]
Mount(d, k) == [d EXCEPT !.mounted = @ \cup {k}]

(* The targets mgs_mds_setup and oss_setup work towards, at step pc. *)
Formatted(u) ==
    CASE hook[u].pc = "mgs" -> FormatMgs(disk[u])
      [] hook[u].pc = "oss" -> FormatOst(disk[u], hook[u].app.nids)
      [] OTHER -> disk[u]

(* A command of the sequence may fail; without packages one always does, and
   without LNet any may. *)
CommandFails(u) == IF software[u] = "lnet" THEN Fault ELSE UNCHANGED used
(* What a failure or a crash may leave: nothing more, or an unmounted target. *)
PartlyProvisioned(u) ==
    IF software[u] = "none" THEN {disk[u]} ELSE {disk[u], Formatted(u)}

-----------------------------------------------------------------------------
(* charm.py: install, start and storage-attached *)

(* _on_install: a failure blocks the unit and is never retried; start follows. *)
OnInstall(u) ==
    /\ Dispatchable(u, Install)
    /\ pending' = [pending EXCEPT ![u] = (@ \ {Install}) \cup {Start}]
    /\ \/ /\ software' = [software EXCEPT ![u] = "lnet"]
          /\ SetStatus(u, "maintenance")
          /\ UNCHANGED used
       \/ /\ \E s \in {"none", "packages"} : software' = [software EXCEPT ![u] = s]
          /\ SetStatus(u, "blocked")
          /\ Fault
    /\ Become(u, Idle)
    /\ UNCHANGED <<leader, units, storage, usable, address, disk, data>>

(* The conditions under which _on_start stops with a Blocked status. *)
StartBlocks(u, a) ==
    \/ storage[u] = Kinds \/ storage[u] = {}
    \/ storage[u] = {"mgt-mdt"} /\ a.unit \notin {NoUnit, u}

(* An unhandled ModelError: the hook fails and Juju retries it.
   Mutant: the error is caught and the hook ends. *)
StorageUnavailable_Caught(u) ==
    ~usable[u] /\ SetStatus(u, "maintenance") /\ Become(u, Idle)
StorageUnavailable(u) ==
    ~usable[u] /\ SetStatus(u, "maintenance") /\ Become(u, Failed(Start))

(* The calls of mgs_mds_setup and of oss_setup, in which the hook h goes on.
   Mutants: NIDs are published, readiness is set, before the target exists. *)
ToMgsMds_NidsFirst(u, h) ==
    [h EXCEPT !.pc = "mgs", !.nids = [host |-> u, addr |-> address[u]]]
ToMgsMds(u, h) == [h EXCEPT !.pc = "mgs"]
ToOss_ReadyFirst(h) == [h EXCEPT !.pc = "oss", !.ready = TRUE]
ToOss(h) == [h EXCEPT !.pc = "oss"]

(* _on_start up to the call of _become_mgs_mds or _become_oss. *)
OnStart(u) ==
    /\ Dispatchable(u, Start) /\ Consume(u, Start)
    /\ LET h == [Dispatched(u, Start) EXCEPT !.refresh = TRUE] IN
       \/ /\ software[u] = "none"
          /\ SetStatus(u, IF status[u] = "blocked" THEN "blocked" ELSE "maintenance")
          /\ Become(u, Idle)
       \/ /\ software[u] # "none"
          /\ \/ StorageUnavailable(u)
             \/ /\ usable[u] /\ StartBlocks(u, h.app)
                /\ SetStatus(u, "blocked")
                /\ Become(u, Idle)
             \/ /\ usable[u] /\ ~StartBlocks(u, h.app) /\ storage[u] = {"mgt-mdt"}
                /\ SetStatus(u, "maintenance")
                /\ Become(u, ToMgsMds(u, h))
             \/ /\ usable[u] /\ storage[u] = {"ost"} /\ Promoted(h.app)
                /\ SetStatus(u, "maintenance")
                /\ Become(u, ToOss(h))
             \/ /\ usable[u] /\ storage[u] = {"ost"} /\ ~Promoted(h.app)
                /\ SetStatus(u, CheckLustre(u, h.app, "maintenance"))
                /\ Become(u, Idle)
    /\ UNCHANGED <<leader, units, machine, disk, data, used>>

(* A StopCharm, or an early return of relation-changed: the databag writes made
   so far are still flushed, and check_lustre is not called.
   Mutant: the status is not set. *)
StopWith_Silent(u, h, s) ==
    /\ Become(u, [h EXCEPT !.pc = "commit", !.refresh = FALSE])
    /\ UNCHANGED status
StopWith(u, h, s) ==
    /\ Become(u, [h EXCEPT !.pc = "commit", !.refresh = FALSE])
    /\ SetStatus(u, s)

(* mgs_mds_setup, then the first half of mgs_nids_published: get_nids and the
   write of the unit databag. *)
MgsMdsSetup(u) ==
    /\ hook[u].pc = "mgs"
    /\ \/ /\ disk' = [disk EXCEPT ![u] = Mount(FormatMgs(@), "mgt-mdt")]
          /\ Become(u, [hook[u] EXCEPT !.pc = "promote",
                           !.nids = [host |-> u, addr |-> address[u]]])
          /\ UNCHANGED <<status, used>>
       \/ /\ CommandFails(u)
          /\ \E d \in PartlyProvisioned(u) \cup {Mount(Formatted(u), "mgt-mdt")} :
                disk' = [disk EXCEPT ![u] = d]
          /\ StopWith(u, hook[u], "blocked")
    /\ UNCHANGED <<leader, units, machine, data, pending>>

-----------------------------------------------------------------------------
(* lustre_peer.py *)

(* _promote_mgs_nids on the hook's copy a of the app databag. *)
RefusesMgs(a, v, n) == Promoted(a) /\ (a.unit # v \/ a.nids # n)
(* Mutant: only the unit name is written. *)
PromoteMgsNids_NameOnly(h, v, n) ==
    IF Promoted(h.app) THEN h
    ELSE [h EXCEPT !.app.unit = v, !.writes = TRUE]
PromoteMgsNids(h, v, n) ==
    IF Promoted(h.app) THEN h
    ELSE [h EXCEPT !.app = [unit |-> v, nids |-> n], !.writes = TRUE]

(* The second half of mgs_nids_published: the leader promotes itself and sets
   itself ready; any other unit leaves it to the leader. *)
MgsNidsPublished(u) ==
    /\ hook[u].pc = "promote"
    /\ LET h == hook[u] IN
       \/ /\ leader # u
          /\ Become(u, [h EXCEPT !.pc = "commit"]) /\ UNCHANGED status
       \/ /\ leader = u /\ RefusesMgs(h.app, u, h.nids)
          /\ StopWith(u, h, "blocked")
       \/ /\ leader = u /\ ~RefusesMgs(h.app, u, h.nids)
          /\ Become(u, [PromoteMgsNids(h, u, h.nids) EXCEPT
                           !.pc = "publish", !.ready = TRUE])
          /\ UNCHANGED status
    /\ UNCHANGED <<leader, units, machine, disk, data, pending, used>>

(* _try_promote_mgs looks at event.unit's NIDs only on the leader.
   Mutant: only the NIDs of a unit that is ready count. *)
Observes(u, v) == leader = u /\ v # NoUnit
Candidate_Ready(u, v) == Observes(u, v) /\ bag[v].nids # NoNids /\ bag[v].ready
Candidate(u, v) == Observes(u, v) /\ bag[v].nids # NoNids

(* Promotion fails: a second MGS blocks this unit, changed NIDs are logged. *)
PromotionRefused(u, v, a) ==
    /\ Candidate(u, v) /\ RefusesMgs(a, v, bag[v].nids)
    /\ IF a.unit # v THEN SetStatus(u, "blocked") ELSE UNCHANGED status
    /\ Become(u, Idle)

(* "OSS service must not be enabled on MGS+MDS unit".  Mutant: no such check. *)
IsMgs_Unchecked(u, h) == FALSE
IsMgs(u, h) == h.app.unit = u

(* _on_relation_changed after a promotion that did not fail: on to set_unit_ready
   on the MGS unit, to _try_oss_setup on the others. *)
Reconfigure(u, h) ==
    \/ /\ ~Promoted(h.app)
       /\ Become(u, Idle) /\ UNCHANGED status
    \/ /\ Promoted(h.app) /\ IsMgs(u, h)
       /\ Become(u, [h EXCEPT !.pc = "publish", !.ready = TRUE])
       /\ UNCHANGED status
    \/ /\ Promoted(h.app) /\ ~IsMgs(u, h)
       /\ usable[u] /\ "ost" \in storage[u]
       /\ Become(u, ToOss(h)) /\ UNCHANGED status
    \/ /\ Promoted(h.app) /\ ~IsMgs(u, h)
       /\ ~(usable[u] /\ "ost" \in storage[u])
       /\ StopWith(u, h, status[u])

OnRelationChanged(u, v) ==
    /\ Dispatchable(u, Changed(v)) /\ Consume(u, Changed(v))
    /\ LET seen == [Dispatched(u, Changed(v)) EXCEPT
                      !.refresh = TRUE,
                      !.stale = IF Observes(u, v) /\ ~bag[v].ready THEN {v} ELSE {}]
           h == IF Candidate(u, v) THEN PromoteMgsNids(seen, v, bag[v].nids) ELSE seen
       IN  \/ PromotionRefused(u, v, seen.app)
           \/ /\ ~(Candidate(u, v) /\ RefusesMgs(seen.app, v, bag[v].nids))
              /\ Reconfigure(u, h)
    /\ UNCHANGED <<leader, units, machine, disk, data, used>>

(* oss_setup, called by _become_oss and by _try_oss_setup; set_unit_ready. *)
OssSetup(u) ==
    /\ hook[u].pc = "oss"
    /\ \/ /\ software[u] # "none"
          /\ disk' = [disk EXCEPT ![u] = Mount(FormatOst(@, hook[u].app.nids), "ost")]
          /\ Become(u, [hook[u] EXCEPT !.pc = "publish", !.ready = TRUE])
          /\ UNCHANGED <<status, used>>
       \/ /\ CommandFails(u)
          /\ \E d \in PartlyProvisioned(u) : disk' = [disk EXCEPT ![u] = d]
          /\ StopWith(u, hook[u], "blocked")
    /\ UNCHANGED <<leader, units, machine, data, pending>>

(* _all_units_ready: this unit's own value is the one it is about to commit.
   Mutants: this unit is not counted; one unit may be missing. *)
ReadyUnits_Others(u) == {v \in units \ {u} : bag[v].ready} \ hook[u].stale
ReadyUnits(u) == ({v \in units : bag[v].ready} \ hook[u].stale) \cup {u}
AllUnitsReady_ButOne(u) == Cardinality(ReadyUnits(u)) + 1 >= Cardinality(units)
AllUnitsReady(u) == Cardinality(ReadyUnits(u)) >= Cardinality(units)

(* _try_publish_filesystem_info and FilesystemProvides.set_info. *)
TryPublishFilesystemInfo(u) ==
    /\ hook[u].pc = "publish"
    /\ Become(u, [hook[u] EXCEPT !.pc = "commit",
                     !.endpoint = IF leader = u /\ AllUnitsReady(u)
                                  THEN hook[u].app.nids ELSE NoNids])
    /\ UNCHANGED <<leader, units, machine, disk, status, data, pending, used>>

-----------------------------------------------------------------------------
(* The end of a hook. *)

(* An application databag may be written by the leader alone. *)
NeedsLeadership(u) == hook[u].writes \/ hook[u].endpoint # NoNids
Refreshed(u) ==
    IF hook[u].refresh THEN CheckLustre(u, hook[u].app, status[u]) ELSE status[u]

(* Every databag write of the hook becomes visible, and Juju notifies the other
   units of the databags that changed. *)
Flush(u) ==
    /\ hook[u].pc = "commit"
    /\ NeedsLeadership(u) => leader = u
    /\ app' = IF hook[u].writes THEN hook[u].app ELSE app
    /\ bag' = [bag EXCEPT ![u] = [ready |-> hook[u].ready, nids |-> hook[u].nids]]
    /\ endpoint' = IF hook[u].endpoint # NoNids THEN hook[u].endpoint ELSE endpoint
    /\ pending' = [v \in Units |->
          IF v \notin units \ {u} THEN pending[v]
          ELSE pending[v] \cup (IF bag' # bag THEN {Changed(u)} ELSE {})
                         \cup (IF app' # app THEN {Changed(NoUnit)} ELSE {})]
    /\ SetStatus(u, Refreshed(u))
    /\ Become(u, Idle)
    /\ UNCHANGED <<leader, units, machine, disk, used>>

(* Leadership moved away while the hook ran: its writes are discarded. *)
FlushRefused(u) ==
    /\ hook[u].pc = "commit"
    /\ NeedsLeadership(u) /\ leader # u
    /\ SetStatus(u, Refreshed(u))
    /\ Become(u, Failed(hook[u].event))
    /\ UNCHANGED <<leader, units, machine, disk, data, pending, used>>

OnUpdateStatus(u) ==
    /\ u \in units /\ hook[u].pc = "idle" /\ {Install, Start} \cap pending[u] = {}
    /\ SetStatus(u, CheckLustre(u, app, status[u]))
    /\ UNCHANGED <<leader, units, machine, disk, data, pending, hook, used>>

-----------------------------------------------------------------------------
(* The environment: Juju, the machines and the operator. *)

Elect(u) ==
    /\ u \in units \ {leader}
    /\ used.elections < MaxElections
    /\ SettledElections => ~InHook(u)
    /\ leader' = u
    /\ used' = [used EXCEPT !.elections = @ + 1]
    /\ UNCHANGED <<units, machine, disk, status, data, pending, hook>>

Spend == used.crashes < MaxCrashes /\ used' = [used EXCEPT !.crashes = @ + 1]

Crash(u) ==
    /\ InHook(u) /\ Spend
    /\ \E d \in PartlyProvisioned(u) : disk' = [disk EXCEPT ![u] = d]
    /\ Become(u, Failed(hook[u].event))
    /\ UNCHANGED <<leader, units, machine, status, data, pending>>

(* A reboot unmounts everything, detaches the storage for a while and may bring
   the unit up with another address; Juju runs start again. *)
Reboot(u) ==
    /\ u \in units /\ Install \notin pending[u] /\ Spend
    /\ \E d \in PartlyProvisioned(u) :
          disk' = [disk EXCEPT ![u] = [d EXCEPT !.mounted = {}]]
    /\ \E a \in Addresses : address' = [address EXCEPT ![u] = a]
    /\ usable' = [usable EXCEPT ![u] = storage[u] = {}]
    /\ pending' = [pending EXCEPT ![u] = @ \cup {Start}]
    /\ Become(u, IF InHook(u) THEN Failed(hook[u].event) ELSE hook[u])
    /\ UNCHANGED <<leader, units, storage, software, status, data>>

Reattach(u) ==
    /\ ~usable[u]
    /\ usable' = [usable EXCEPT ![u] = TRUE]
    /\ UNCHANGED <<leader, units, storage, address, software, disk, status, data,
                   pending, hook, used>>

AttachStorage(u, k) ==
    /\ u \in units /\ k \in MaxStorage[u] \ storage[u]
    /\ storage' = [storage EXCEPT ![u] = @ \cup {k}]
    /\ pending' = [pending EXCEPT ![u] = @ \cup {Start}]
    /\ UNCHANGED <<leader, units, usable, address, software, disk, status, data,
                   hook, used>>

AddUnit(u) ==
    /\ u \in Units \ units
    /\ units' = units \cup {u}
    /\ pending' = [v \in Units |->
          IF v = u THEN FirstEvents(u, units)
          ELSE IF v \in units THEN pending[v] \cup {Changed(u)} ELSE pending[v]]
    /\ UNCHANGED <<leader, machine, disk, status, data, hook, used>>

-----------------------------------------------------------------------------
HookStep(u) ==
    \/ MgsMdsSetup(u) \/ MgsNidsPublished(u) \/ OssSetup(u)
    \/ TryPublishFilesystemInfo(u) \/ Flush(u) \/ FlushRefused(u)

Dispatch(u) ==
    \/ OnInstall(u) \/ OnStart(u)
    \/ \E v \in Units \cup {NoUnit} : OnRelationChanged(u, v)

Environment(u) ==
    \/ Elect(u) \/ Crash(u) \/ Reboot(u) \/ Reattach(u) \/ AddUnit(u)
    \/ \E k \in Kinds : AttachStorage(u, k)

Next == \E u \in Units :
    HookStep(u) \/ Dispatch(u) \/ OnUpdateStatus(u) \/ Environment(u)

Spec == Init /\ [][Next]_vars

(* Juju runs a hook to its end, retries a failed one, delivers every event it
   queued, and reattaches storage.  Nothing is assumed of the environment. *)
Fairness == \A u \in Units :
    /\ WF_vars(HookStep(u)) /\ WF_vars(OnInstall(u)) /\ WF_vars(OnStart(u))
    /\ \A v \in Units \cup {NoUnit} : WF_vars(OnRelationChanged(u, v))
    /\ WF_vars(Reattach(u))

FairSpec == Spec /\ Fairness

-----------------------------------------------------------------------------
(* Safety. *)

Quiet(u) == hook[u].pc = "idle" /\ pending[u] = {}

(* What the disks dk of all the units say of a unit, of an app databag and of
   NIDs in a unit databag. *)
Provisioned(dk, u) == dk[u].mgs \/ dk[u].ost # NoNids
PromotedFromMgs(dk, a) == Promoted(a) => a.nids.host = a.unit /\ dk[a.unit].mgs
PublishedFromMgs(dk, u, n) == n # NoNids => n.host = u /\ dk[u].mgs

(* An MGS that has been promoted to the app databag was formatted on its unit,
   and published these very NIDs from it, before: no OSS is ever configured
   against a unit that has no MGS (lustre_peer.py:106-115, 229-249). *)
PromotedMgsExists ==
    /\ PromotedFromMgs(disk, app)
    /\ \A u \in Units : disk[u].ost # NoNids => disk[disk[u].ost.host].mgs

(* ready is never taken back, so it must not be set early: a unit that reports
   ready has a formatted target, whatever failed, crashed or was rebooted in
   between (lustre_peer.py:159-168, 185-189; charm.py:194-196). *)
ReadyIsProvisioned == \A u \in Units : bag[u].ready => Provisioned(disk, u)

(* What makes the two inductive: the same is true of what a hook h of unit u has
   not flushed yet, and a hook has the NIDs it promotes, and an MGS for its OSS. *)
HookOk(dk, u, h) ==
    /\ PublishedFromMgs(dk, u, h.nids)
    /\ PromotedFromMgs(dk, h.app)
    /\ h.ready => Provisioned(dk, u)
    /\ h.pc = "promote" => h.nids # NoNids
    /\ h.pc = "oss" => Promoted(h.app)
HookInv ==
    \A u \in Units :
        PublishedFromMgs(disk, u, bag[u].nids) /\ HookOk(disk, u, hook[u])

(* The leader's hook sees the committed app databag, or is the one that is about
   to write it for the first time. *)
LeaderView ==
    InHook(leader) =>
        IF hook[leader].writes THEN ~Promoted(app) ELSE hook[leader].app = app

(* Clients get the filesystem only when it can serve: the endpoint names the
   promoted MGS, and every unit of the first deployment has reported ready,
   the OSS units with a target formatted against that very MGS
   (lustre_peer.py:321-332). *)
PublishedIsServable ==
    endpoint # NoNids =>
        /\ endpoint = app.nids /\ disk[app.unit].mgs
        /\ \A u \in InitUnits : bag[u].ready
        /\ \A u \in InitUnits \ {app.unit} : disk[u].ost = endpoint

(* "OSS service must not be enabled on MGS+MDS unit" (lustre_peer.py:268). *)
OssOffMgsUnit == \A u \in Units : ~(disk[u].mgs /\ disk[u].ost # NoNids)

(* Once there is an MGS, a unit that is not ready and has nothing left to do by
   itself shows Blocked.  Failed provisioning is not retried by a timer, so a
   unit that stopped otherwise would stay so unnoticed (charm.py:171-202,
   lustre_peer.py:262-294, state.py:79-108). *)
NoSilentStall ==
    Promoted(app) => \A u \in units :
        Quiet(u) /\ ~bag[u].ready => status[u] = "blocked"

(* NIDs in a unit databag that nobody promoted yet are on their way: the leader
   has still to see that databag, or is looking at it (lustre_peer.py:90-91). *)
PromotionUnderWay ==
    \A v \in units : bag[v].nids # NoNids /\ ~Promoted(app) =>
        \/ Changed(v) \in pending[leader]
        \/ hook[leader].pc # "idle" /\ hook[leader].event = Changed(v)

Registry == INSTANCE MgsRegistry WITH
    Nobody <- NoApp, Nothing <- NoNids,
    formatted <- {u \in Units : disk[u].mgs}, mgs <- app, offered <- endpoint

(* The units together are a registry: one MGS among those that exist, chosen once,
   and clients are offered no other, whichever hooks and leaders race
   (lustre_peer.py:229-249, 321-332). *)
ImplementsRegistry == Registry!Spec

(* "Never overwrites: the original MGS unit must remain stable across leader
   re-elections" (lustre_peer.py:232-233). *)
MgsStable == [][Promoted(app) => app' = app]_vars

-----------------------------------------------------------------------------
(* Liveness. *)

(* NIDs that a unit publishes get promoted (lustre_peer.py:90-91). *)
NidsPromoted ==
    (\E v \in Units : bag[v].nids # NoNids) ~> Promoted(app)

(* Once there is an MGS, every unit with OST storage becomes ready. *)
PromotionReachesEveryOss ==
    \A u \in Units :
        (u \in units /\ storage[u] = {"ost"} /\ Promoted(app)) ~> bag[u].ready

(* The cluster comes up: the filesystem is offered to clients. *)
EventuallyPublished == <>(endpoint # NoNids)
=============================================================================
