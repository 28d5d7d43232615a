# filesystem-charms in TLA+

Models, checks and proofs for the charms of this repository. The first part is
the inventory of the system, the second what is modelled, checked and proved
today, the third the plan for the rest.

All paths are below `src/`; `server/` stands for `charms/lustre-server/src/`,
`client/` for `charms/filesystem-client/`, `lustre_ops/` for
`internal/lustre-ops/src/lustre_ops/`.

## 1. Inventory

The repository holds Juju charms. A charm is a set of handlers that Juju
dispatches, one *hook* at a time per unit, many units at once. Units share
nothing but relation databags; what one unit writes, another sees in a
`relation-changed` hook later on.

| component | state | operations | what makes it correct |
|---|---|---|---|
| lustre-server, hooks (`server/charm.py`) | unit status; packages and LNet on the machine | install, start, storage-attached, update-status | a unit that cannot go on says so; a hook may be repeated |
| lustre-server, peer relation (`server/lustre_peer.py`) | app databag (MGS unit and NIDs), one databag per unit (ready, NIDs) | `mgs_nids_published`, relation-changed, promotion, readiness, publication | one MGS for ever; nothing announced that has not been provisioned; published only when all serve; the cluster comes up |
| lustre-server, targets (`server/lustre_fs.py`) | zpools, Lustre targets, mounts | `mgs_mds_setup`, `oss_setup` | idempotent; never formats twice; a partial run is completed by the next |
| lustre-server, health (`server/state.py`) | none | `check_lustre` | Active only with an MGS and a mount; a Blocked status survives a failing check |
| LNet (`lustre_ops/lnet.py`) | networks and interfaces of the kernel, a configuration file | `init`, reconciliation, `get_nids`, `parse_network_config` | converges to the requested networks, never drops the last interface of a network, survives a reboot |
| interface detection (`lustre_ops/lnet_detection.py`) | none | `detect_networks` | only interfaces that are up, each once |
| package repository (`lustre_ops/ppa.py`) | apt sources | `setup_lustre_repository` | sequential I/O |
| filesystem_info (`client/lib/.../filesystem_info.py`) | endpoint kept in the provider's peer relation, endpoint in each client relation, Ceph secret | `set_info`, relation-joined, relation-changed and -broken on the other side, URI conversions | every related client eventually has the endpoint the provider published; a URI reads back as what was written |
| mount_info (`client/lib/.../mount_info.py`) | mount request and mounted flag in a relation | `set_mount_info`, `set_mount_status`, changed, broken | a workload hears "mounted" only of its own request |
| filesystem-client (`client/src/charm.py`, `client/src/utils/manager.py`) | autofs master and map file, the running autofs, unit status | one handler for every event; setup; `mounts()` | what is mounted is what the relations ask for; a failure is not forgotten |
| proxies (`charms/*-server-proxy`) | none | config-changed | the endpoint follows the configuration |
| test-mount-client, `repository.py`, terraform, CI | - | - | tools and tests |

How they interact: lustre-server units talk through the peer relation, and
publish an endpoint through filesystem_info to filesystem-client, which mounts
it and tells a workload through mount_info. The proxies play lustre-server's
part for filesystems that exist already. lustre-server and filesystem-client
both configure LNet with lustre-ops.

What is hard here:

- **Hooks are transactions, mostly.** Databag reads are cached for the whole
  dispatch and writes committed at its end, but `is_leader()` is asked anew each
  time and the disk changes at once. So a hook can act on a stale databag with
  fresh leadership, or leave a disk for a databag that was never written.
- **Nobody is notified of what it wrote itself**, and events that a unit consumed
  as a non-leader do not come again when it becomes the leader.
- **Nothing runs by itself** but `update-status`, which repairs nothing. Whatever
  a hook gives up on stays until an event happens to come by.
- **Reboots** unmount, detach the storage for a while, run `start` again and may
  change addresses.
- **Sequences of external commands** fail half way and are expected to be
  idempotent.

The full list, with the line where each bites and the properties that cover it,
is `hazards` in `PROJECT.json`.

## 2. What is modelled, checked and proved

### `LustrePeer` - lustre-server as a distributed protocol

One module for what the units of lustre-server do together. `Units` is the set
of units the application may ever have, `InitUnits` the deployed ones.

| TLA+ | code |
|---|---|
| `app`, `bag[u]` | `LustrePeerAppData`, `LustrePeerUnitData`: what is committed in the databags |
| `endpoint` | what `FilesystemProvides.set_info` wrote |
| `disk[u]` | formatted MGS target; OST target and the `--mgsnode` it was formatted with; mounts |
| `storage[u]`, `usable[u]` | attached storage; whether `s.location` can be read |
| `address[u]` | the answer of `lnet.get_nids` |
| `software[u]` | how far the install hook got: nothing, packages, LNet |
| `status[u]` | the kind of the unit status |
| `pending[u]` | events that Juju has queued; equal ones coalesce |
| `hook[u]` | the running hook: its step, its copy of the databags, its writes |

A hook is a sequence of actions:

    OnInstall                              (one step, it shares nothing)
    OnStart -> MgsMdsSetup -> MgsNidsPublished -> TryPublish... -> Flush
    OnStart -> OssSetup -> TryPublishFilesystemInfo -> Flush
    OnRelationChanged -> [OssSetup] -> TryPublishFilesystemInfo -> Flush

`OnStart` is `_on_start` up to the call of `_become_mgs_mds` or `_become_oss`,
`OnRelationChanged` is the handler up to `_try_oss_setup`. The cut is where the
hook asks Juju for something that is not cached (`is_leader`, another unit's
databag) or works on the disk, because there another unit may move in between. `Flush` commits every
write at once, queues `relation-changed` on the units that are to be told, and
runs `check_lustre` where the handler does (`@refresh_check_lustre`, or the last
line of relation-changed). `FlushRefused` is a hook that has to write an
application databag and is no longer the leader: all its writes are discarded
and Juju retries it. A `StopCharm` or an early return leads to the flush without
the check (`StopWith`).

Around the hooks: `Elect` moves leadership, with `SettledElections` only to a
unit that is between two hooks; `Crash` kills a hook; `Reboot` also unmounts, may
change the address and makes storage unreadable until `Reattach`; `AttachStorage`
and `AddUnit` are the operator's. A command fails at most `MaxFaults` times on a
unit that has all its software, and may always fail on one without LNet.

Decisions a reader should know of:

- The leader gets no event for its own write of the app databag.
- `planned_units()` is the number of units that exist: the operator adds units,
  none is removed. The peer relation exists from the first hook on, so the
  `LustrePeerError` branches for a missing relation are not reached.
- All NIDs of a unit are one value, its host and address.
- The kernel modules that `check_lustre` looks for are taken to be loaded.

`MgsRegistry` is the abstract specification of all this: MGS targets are formatted, one of
them is chosen, once, and clients are offered the NIDs of the choice. With settled
elections `LustrePeer` implements it (`ImplementsRegistry`), with the registry mapped to the
disks, the committed app databag and the endpoint. A hook that chooses and offers
in one flush is one step of the registry.

### The runs

`MCLustrePeer` holds the instances, each `.cfg` one question.

| run | instance | shows |
|---|---|---|
| `crashes` | 1 MGS, 1 OSS, 2 crashes or reboots | the cluster comes up: `NidsPromoted`, `PromotionReachesEveryOss`, `EventuallyPublished`, not too early: `PublishedIsServable`, `PromotionUnderWay`, and not stuck unseen: `NoSilentStall` |
| `two_mgs` | 1 MGS, 1 OSS, a second MGS candidate that joins at any moment, 1 settled election | `ImplementsRegistry`, `MgsStable`, `LeaderView`, `HookInv`, `TypeOK` |
| `faults` | 1 MGS, 1 OSS, any storage attached later, 2 failures | `NoSilentStall`, `ReadyIsProvisioned`, `PromotedMgsExists`, `OssOffMgsUnit` |
| `lost_promotion` | 1 election | `NidsPromoted` is violated |
| `mgs_overwritten` | 2 MGS candidates, 1 election inside a hook | `MgsStable` is violated |

Deadlock is not checked: a cluster that is set up has nothing left to do.

*Bounds.* The hazards are between two units, a leader and another one, or between
two candidates for the MGS and a third unit; three units are needed for a second
candidate to matter to an OSS, or for a unit to join a deployment of two. One
election separates a publication from its promotion; one crash separates the
disk from the databag, a second one is the reboot before the retry. No passing run
has an address that changes, or crashes together with elections: `TypeOK`,
`HookInv`, `PromotedMgsExists`, `ReadyIsProvisioned` and, without failed commands,
`NoSilentStall` are proved with all of these. Each passing property is violated by a
small change of the code under the same bounds (`mutants` in `PROJECT.json`), so
the case each one is about does occur.

*Fairness.* Weak fairness of every step of a running hook, of the dispatch of
install, of start and of each relation-changed event (Juju delivers what it
queued and retries a hook that failed), and of `Reattach`. Nothing is assumed of
elections, crashes, failures or the operator.

### What the violations say

1. *A promotion can be lost* (`lustre_peer.py:302`). A unit that is not the leader
   publishes its NIDs; leadership moves before the leader runs its
   relation-changed hook, to a unit that has consumed that event already, or to
   the publisher itself. No handler runs on election, so nobody promotes the
   NIDs, until the databag changes again.
2. *A promoted MGS can be overwritten* (`lustre_peer.py:243`). The databag was
   read at the start of the hook, leadership is checked after the provisioning.
   It takes two units with MGT/MDT storage and an election inside a hook; with
   elections between hooks `MgsStable` holds (`two_mgs`).
Some corners were seen and have no run of their own. An OST can belong to NIDs
that nobody promoted (`lustre_fs.py:214`): the leader formats its own OST in the
hook that promotes the MGS, crashes before the promotion is committed, and the
MGS comes back with another address; the target that exists is kept, whatever
its `--mgsnode`. `PublishedIsServable` is violated by this in the instance of
`crashes` with `Addresses = {1, 2}`; with the one address of `crashes` NIDs do not
change. So is `EventuallyPublished`: the leader refuses the new NIDs of a promoted
MGS and returns (`PromotionRefused`) before it looks at the readiness that came in the
same databag, and if that was the last one missing, nothing is published. A unit that was refused as
the second MGS and is given OST storage later formats an OST next to its MGS
target, because the check compares with the promoted MGS only
(`lustre_peer.py:269`); with one candidate this cannot happen (`OssOffMgsUnit` in
`faults`; it is violated in the instance of `two_mgs` with `MaxStorage <- Anything`).
After a crash between the mount and the flush, a failure of the retried hook leaves a unit that is mounted and not ready: `update-status`
shows Active, although the unit never reports ready and nothing is published
(`NoSilentStall` is checked and proved with failures and with crashes, not with both at
once). Storage for the MGS that is attached to an OSS unit in place of the failure does
the same: the retried `start` blocks, and the health check clears that. A hook whose flush is refused has set its status by then. A second MGS
blocks the leader that saw it, and the leader's next health check clears that
status.

### `LustrePeer_proofs` - for any number of units, elections, crashes and faults

- `TypeCorrect`: `Spec => []TypeOK`.
- `ProvisionedBeforeAnnounced`: `Spec => []PromotedMgsExists`. The promoted MGS was
  formatted on its unit and published these NIDs itself; every OST belongs to a
  formatted MGS.
- `ReadyMeansProvisioned`: `Spec => []ReadyIsProvisioned`. Who reports ready has a
  formatted target.
- `HooksProvisionFirst`: `Spec => []HookInv`, the same of what is not flushed yet.
- `MgsWriteOnce`: `SettledElections` implies `Spec => MgsStable`. The promoted MGS
  never changes if leadership moves only to units that are between two hooks;
  the run `mgs_overwritten` shows that the condition is needed.
- `LeaderSeesCommitted`: `SettledElections` implies `Spec => []LeaderView`.

The assumptions are those of the module: `NoUnit` is no unit, deployed units are
units, there are finitely many of them, storage is a function to sets of kinds, the bounds are naturals, there is
an address.

*The argument.* None of this is inductive over the committed state, because a
hook carries databag writes that are not committed yet. `HookInv` says the same
things of those: NIDs a hook is about to publish come from its formatted MGS, an
app databag it is about to commit names a formatted MGS, a readiness it is about
to report has a target. `HookOk` also has the two facts of control that the
steps rely on (a hook that promotes has NIDs, a hook that sets up an OSS has an
MGS). The conjunction `SafeInv` is inductive. That disks only gain targets
(`DiskGrows`) carries every other unit's part over a step; databags change only
in `Flush` (`DatabagSteps`), an OST appears only in a hook that has an MGS
(`OstSteps`); one lemma per action shows that the hook it leaves is allowed.
`HookInv` is also needed for `TypeOK`: without NIDs a promotion would write half
a databag.

`MgsWriteOnce` needs `LeaderView` on top: the leader's hook either has the
committed app databag or is about to write the first promotion. An election
inside a hook breaks it at once, which is what `SettledElections` excludes; the
leader's own steps keep it (`LeaderHookCurrent`), and another unit's flush does not
write `app` (`AppStep`).

`PeerImplementsRegistry`: `SettledElections` implies `Spec => ImplementsRegistry`. On top of
`LeaderView` it needs `EndpointInv`: an endpoint that a hook is about to write is the MGS
of the databag that hook sees, so that with `LeaderView` it is the committed one, or the one
that is committed by the same flush. `HookInv` gives that the choice was formatted
(`FlushRegisters`); every other step formats at most one target (`DiskRegisters`).

### `LustrePeerDeployment_proofs` - what needs something of the deployment

`OneMgs` says that one unit at most can become the MGS: it has storage for the MGS in
`MaxStorage` and was not deployed with storage for an OST, because `_on_start` makes an
MGS only of a unit with nothing else (`MayBeMgs`). `StaticAddresses` says that a unit
keeps its address, because there is one or because no unit is rebooted. Elections may
come at any moment, inside a hook too.

| theorem | says |
|---|---|
| `NidsOnTheirWay` | `MaxElections = 0` implies `Spec => []PromotionUnderWay` |
| `NoOssOnMgsUnit` | `OneMgs` implies `Spec => []OssOffMgsUnit` |
| `OneMgsWriteOnce` | `OneMgs`, `StaticAddresses` imply `Spec => MgsStable` |
| `OneMgsImplementsRegistry` | `OneMgs`, `StaticAddresses` imply `Spec => ImplementsRegistry` |
| `OfferedIsServable` | `OneMgs`, `StaticAddresses` imply `Spec => []PublishedIsServable` |

Each hypothesis is needed: `lost_promotion` violates `NidsPromoted` with one election,
`mgs_overwritten` has two candidates and an election inside a hook, and the corners above
are the addresses that change and the second candidate that gets OST storage.

*The argument.* `StepMoves` says once, for every action, what a step of a unit makes of
its hook: nothing, an end, a beginning from the committed databags, or one step further.
The invariants below are proved from it, `DatabagSteps` and `TargetSteps`.

- `ViewInv`: what a hook has promoted it will write completely, and what it sees promoted
  without writing it is committed.
- `RoleInv`: only the unit of `OneMgs` ever has an MGS or a hook that makes one, it has
  the storage for it ever since, and no OST belongs to an MGS on its own unit.
- `OnceInv`: all NIDs in databags, hooks and targets carry the address their host has
  (`NidsInv`). So two promoted databags are equal (`OnePromotion`), whoever wrote them,
  and an overwrite writes what is there.
- `ServeInv`: readiness is earned (`ReadyInv`: by the promoted MGS or an OST), never taken
  back, and kept by a hook that flushes. `AllUnitsReady` counts reports read at different
  moments; because they are never taken back, and the units of the first deployment are
  among those counted, the count says that each of them is ready (`AllReady`, where the
  finiteness of `Units` is used). `OfferInv` carries this to the flush of the endpoint.
- `PromotionInv`: without elections the leader is the one unit that has to see each
  databag. `ChangedInv` and `SelfInv` say why its hooks promote what they look at, its own
  NIDs included; `LeaderWatches` that none of its hooks loses sight of one.

### `LustrePeerStall_proofs` - no unit stalls silently

Both theorems state `NoSilentStall`, for any number of units and any units added:

- `NobodyStallsSilently`: `OneMgs`, `MaxCrashes = 0` and `MaxElections = 0` imply
  `Spec => []NoSilentStall`, with any number of failed commands, failed installations
  included, and any storage attached later.
- `RetriesLeaveNoSilentStall`: `OneMgs`, `OneKind` and `MaxFaults = 0` imply it too, with
  any number of elections at any moment, of crashes and of reboots, after which a unit
  may have another address. `OneKind` says that no unit is ever given both kinds of
  storage.

Failures together with crashes, and `OneKind` dropped, are the corners above in which
`NoSilentStall` is false: TLC finds the second one in the instance of `crashes` with
`MaxStorage <- Anything`.

*The first argument.* A stall is a unit whose last hook ended without readiness and
without a Blocked status, so `UnitInv`, which `StallInv` adds for every unit to the
invariants above, accounts for each way a hook has of ending: no hook fails (`Calm`:
nothing but the leader's hooks needs leadership); what was mounted for an OST was reported
or will be by this very hook (`MountedReady`), so that no health check replaces the Blocked
status of a unit that is not ready by an Active one; a unit without software or storage
shows Blocked (`Shown`); and a unit whose hook does not know of the promotion has an event
to learn of it (`Informed`). The steps of other units keep it because they only add
events (`OtherUnit`); one lemma per action says that the unit's own steps do.

*The second argument.* A crash, a reboot and a refused flush can come at any point of a
hook, so an account of the statuses hooks leave would not do. `ProgressInv` says
instead that a unit which is not ready is never left without something that will make it
so: after the promotion, an OSS has install, start or the change of the app databag
pending, or is in a hook for one of these that has set ready, is on its way to it, or has
failed and will be retried (`DueOss`); the MGS has the change of the app databag
(`DueMgs`). Three facts keep this inductive. A hook of relation-changed gives an OST up
only while the storage is detached, and then start is still pending (`Returning`,
`Reporting`). A hook that promotes its own unit has set ready before it commits
(`Reporting`). A hook that has set ready either commits it or fails and is retried
(`RunsOn`). A unit that is quiet and not ready then has no OST storage and is
not the MGS, so it has no storage at all and shows Blocked (`Equipped`).

Only model-checked of `LustrePeer`: the liveness properties, which need reasoning about
fairness that the prover does not do.

### `FilesystemClient` - one unit of filesystem-client

The charm has one handler for all its events. The module models the handler, the
machine it works on, and what the two relations tell it.

| TLA+ | code |
|---|---|
| `config` | `mountpoint` and its mount options as one request, `enable-lustre`, whether `lnet-networks` can be parsed |
| `mount[r]` | the mount relations that exist, and the request in each |
| `provider` | the endpoint in the filesystem relation, which is limited to one |
| `supported` | `MountsManager.supported()` |
| `host` | packages present; the autofs master file absent, empty or written; the autofs map; `LUSTRE_LNET_CONF` |
| `served` | what the running autofs read when it was reloaded last |
| `mounted[r]`, `status` | the flag `set_mount_status` writes, the kind of the unit status |
| `hook` | the step of the handler and the flag it will leave in the databags |

A run of the handler is

    HandleEvent -> Setup -> Mount -> [Reload] -> Commit

`HandleEvent` is everything up to `_ensure_setup`, `Setup` is `is_setup` and
`setup`, `Mount` the body of `with mounts()` and what follows it up to the write
of the map, `Reload` the call of systemctl, `Commit` the end of the hook, when
Juju passes the databag on. Every `StopCharm` and every exception goes to
`Commit` with the flag that the first line of the handler wrote (`Stop`).

A set-up that fails leaves one of the machines of `LeftBy`, one that is killed
any of those or a finished one (`KilledHosts`); a write that fails or is killed
leaves the old file or a truncated one. LNet's own file is replaced atomically.
`Reboot` starts autofs from its files. `SetMountInfo` and `SetEndpoint` may happen
inside a hook; relations come and go between two hooks of the unit, because Juju
runs the broken hook of a relation before it is gone; the configuration is read
in one place, so that a change during a hook is one right after it.

Abstracted: the text of the map (an entry is a request and an endpoint); a
mountpoint that cannot be created counts as a write that fails, without effect;
the endpoint is one value, so that two endpoints differ whenever their lines in
the map do. `CannotMount` also has the case of a map file that is not there, which
the invariant `SetUpBeforeMount` of the proofs excludes. The
application status is left out.

| run | instance | shows |
|---|---|---|
| `client_faults` | any command fails, 2 failures, 2 crashes, 1 reboot, 4 changes | `LustreNeedsLnet` |
| `client_reload` | 1 reload fails | `MountedIsServed` is violated |
| `client_unmounts` | nothing fails, 3 changes | `Unmounts` is violated |

*Bounds.* A mount needs two or three changes (a relation, a request, an endpoint);
the fourth is the one that replaces, removes or contradicts it. A second failure
hits the attempt that repairs the first. Two relations are what `_get_config`
refuses. Two requests and two endpoints let the map change in either half.
Deadlock is checked: `update-status` comes for ever.

*Fairness.* Weak fairness of `HandleEvent` and of the steps of a running hook: Juju
dispatches `update-status` for ever and runs a hook to its end. Nothing is assumed
of failures, crashes, reboots or changes; `Converges` is about behaviours in which
the demand settles. `client_converges` leaves out failures of the
writes and of the reload, and crashes, which break `MountedIsServed` as
`client_reload` shows; `client_faults` has them.

What the violations say. *A failed reload is forgotten* (`manager.py:222`). The map
is on disk, so the next event sees nothing to do and reports the mount. With
`Faults = {"write"}` the same property is broken in another way: both files exist
after `touch`, and if the write of the master file fails, or the hook is killed
there, `is_setup` (`manager.py:152`) holds and nothing writes it again.

*A requested umount is not made* (`charm.py:69`, `116`, `131`). When the filesystem
relation is removed, `umount_filesystem` says that "the filesystem needs to be
unmounted" (`filesystem_info.py:35`, `597-598`), and `mounts()` promises to remove
what is not added again (`manager.py:203-205`). The handler finds no endpoint and
raises `StopCharm` inside the `with`, so that `mounts()` does not resume and the map
keeps the entry: autofs goes on serving it, and the workload hears that it was
unmounted. The same exits are taken when the mountpoint, the mount relation or its
mountpoint is removed. `mounts()` never gets to write an empty map.

What is on purpose is that errors do not unmount: "this will not resume if the caller
raised an exception" (`manager.py:209-211`). `KeepsMounts` is about those alone: a map
keeps a mount through every step, with or without an error, that comes while nobody
has asked for an umount (`UmountRequested`: no endpoint, or no request).

### `FilesystemClient_proofs` - for any requests, endpoints, relations and bounds

- `TypeCorrect`: `Spec => []TypeOK`.
- `LustreAfterLnet`: `Spec => []LustreNeedsLnet`, with every command failing and any
  number of crashes and reboots.
- `ErrorsKeepMounts`: `"write" \notin Faults` and `MaxCrashes = 0` imply
  `Spec => KeepsMounts`: without them a truncated map is possible. It says nothing of
  what follows an umount request.
- `FlagIsTrue`: `Faults \cap {"write", "reload"} = {}` and `MaxCrashes = 0` imply
  `Spec => []MountedIsServed`; `client_reload` shows that the first is needed.

*The argument.* `LustreNeedsLnet` is about the map and what is served, but the
map is written from a check made two steps earlier. `SetUpBeforeMount` bridges
them: between the set-up and the reload the machine is set up for the
configuration in force, which holds because the configuration changes only
between hooks and `setup()` ends with `is_setup()` true (`PreparedIsSetup`). An
interrupted set-up takes nothing away (`LeftByGrows`, `KilledHostsGrow`): packages
and the LNet configuration only grow (`Grows`), so an entry that was allowed stays
allowed. The assumptions are those of the module: the names for "none" are no
requests or endpoints, the bounds are naturals.

`FlagIsTrue` rests on `Consistent`: the map is what autofs serves except between its write
and the reload; a map file that exists was created by a set-up that went on to write
the master file, so that a reboot serves the same map (`FilesComplete`); and whoever
was told "mounted", or is about to be, was told so of a map with an entry, which no step
empties (`Promises`).

Only model-checked: `Converges`, a liveness property.

### `MountRelation` - the workload's side

Extends `FilesystemClient` with the other end of its mount relations
(`MountRequires` of mount_info, and the test-mount-client charm).

| TLA+ | code |
|---|---|
| `notices` | the relations for which Juju has a relation-changed event for the workload |
| `heard[r]` | the event that `MountRequires` emitted last there: none, mounted, unmounted |

Juju compares a databag before and after a hook: the handler's `"false"` followed
by `"true"` is no change and no event (`Told`). `OnRelationChanged` is the handler
of the same name, which reads the flag as it is when the event is handled, not
as it was when it was queued. `OnConfigChanged` is the workload's own handler; its
provider-connected event leads to the same request.

| run | instance | shows |
|---|---|---|
| `client_converges` | 2 mount relations, 2 requests, an NFS and a Lustre endpoint, 2 failures of the set-up, 1 reboot, 4 changes | `Converges`, `WorkloadLearns`, `HeardIsServed`, `MountedIsServed`, `KeepsMounts`, `TypeOK` |

`MountSpec` is the system, `FairMountSpec` adds the fairness. It assumes what
`FilesystemClient` does, and that Juju delivers a queued event.
What the relation cannot promise: a mount that is replaced by another one leaves
the flag as it was, and the workload hears nothing of it. `HeardIsServed` says what
holds: who heard "mounted" and has nothing queued can use the entry of the map,
between two hooks of the client.

### `MountRelation_proofs` - the client with its workloads

- `WorkloadsHearTheTruth`: `Faults \cap {"write", "reload"} = {}` and `MaxCrashes = 0`
  imply `MountSpec => []HeardIsServed`.

*The argument.* A workload may hear of a flag long after it was written, and hears
nothing of one that was taken back and set again in between. `HeardInv` says what
survives that: who heard "mounted" heard it of a map with an entry, and no step
of the client takes the last entry away, not even after an umount request, as
`client_unmounts` shows. With `Consistent` of `FilesystemClient_proofs` the
map is what autofs serves whenever no hook runs.

### `LnetConfig` - LNet on one machine

`lnet.py` and `lnet_detection.py`, as the install hook of lustre-server calls them
once and filesystem-client until there is a file.

| TLA+ | code |
|---|---|
| `role`, `spec` | which charm it is; `lnet-networks`, split into tokens |
| `machine` | the default route, the RDMA links, `/sys/class/net` |
| `nets` | the networks of the kernel and their interfaces |
| `conf` | `LUSTRE_LNET_CONF`, or none |
| `task` | the running `lnet.init`: what it wants, what `net show` said, where it is |

    CallInit -> Query -> (Add -> Remove)* -> Persist -> Finish

`CallInit` parses (`Malformed`, `Parsed`) or detects (`Detected`). A name is a base and
digits, so that `tcp0`, `tcp` and `tcp10` are what the normalisation and the kernel
make of them. `Add` is `net add` for a network that is not shown and `interface add`
for one that is; a command that fails or is killed may have done any part of its
work. IPoIB devices with two netdevs yield either (`IpoibMaps`), as the directory is
listed. The file is replaced atomically, and LNet comes up from it at boot, which
is how the system packages LNet and is external to this code.

The run `lnet` has both roles, six values of `lnet-networks` (nothing, two good ones,
an interface that does not exist, a network named twice, a network without a name), three
machines, 2 failures, 1 crash, 1 reboot and 2 changes at any moment, and shows:

- `SavesWhatWasAsked`: the file is written only when every requested network has
  just its interfaces, whatever earlier attempts left. Networks that are not
  requested stay, as documented (`lnet.py:213`).
- `SavedIsInUse`: the file, which `is_setup` takes for a configured LNet, is what the
  kernel has.
- `KeepsAnInterface`: a network in use never loses its last interface but by a reboot.
- `EventuallyConfigured`: a client whose configuration can be had gets it.

*Fairness.* Juju runs a hook to its end, runs a killed one again, and dispatches
`update-status` for ever; a server's install hook that failed in Python is not run
again (it ends Blocked). Deadlock is not checked for that reason.

A corner that the instance leaves out: `tcp00` is `tcp` for the kernel, but
`parse_network_config` drops one 0 only if it is alone, so `net show` never names it and
every attempt after the first adds the same interface again and is refused.

### `FilesystemInfo` - the provider and its proxies

The provider's side of the filesystem relation: `FilesystemProvides` and the three
proxies, whose config-changed handlers call `set_info`.

| TLA+ | code |
|---|---|
| `proxy`, `config` | the charm; its configuration as the info it makes, or none if an option is missing |
| `peer` | the endpoint in the peer relation |
| `secret`, `granted` | the content of the secret "auth", the relations that may read it |
| `bag[c]` | the endpoint in client relation `c`, if there is the relation |
| `pending`, `hook` | events that Juju has for a unit; the writes of its running hook |

A hook is `Handle` (`SetInfo` or `UpdateRelation`) and, if it writes, `Flush`; a unit that
lost leadership in between is refused (`FlushRefused`) and runs its hook again as one
that is not the leader. `ToUri` and `FromUri` keep what the conversions change: the
host of a URI is read in lower case, a path becomes absolute, a key is replaced by
the identity of the secret. `Reads` is what a client gets from
`FilesystemRequires.endpoints`. A configuration without hosts (blanks in `mgs-nids`) is
refused by `_UriData`, nobody catches that, and the hook fails.

`Publication` is the abstract specification: one value; who sees one sees
the new one at once when it changes; who is related later is served then.
`FilesystemInfo` implements it (`Publishes`), with the value and the copies mapped to
what a client would *read*: an endpoint without the key, or with another key than the
provider's, is not the value. The run `provider` checks this and `FollowsConfig` with two
units, two clients, a Ceph proxy whose key is rotated and a Lustre proxy, 1
election, 1 killed hook, 1 change and 2 relations made or removed.

*Bounds and assumptions.* `SettledElections`: leadership moves only to a unit that is
between two hooks. Without it a unit that is elected while its join hook
runs copies the endpoint it read before another unit published a newer one, and
`Publishes` is violated (two elections at any moment). `FollowsConfig` is about a
configuration that reaches the leader before leadership moves: a unit elected later
does not repeat an event it has consumed, the same gap as in `lost_promotion`.

Left out: `auth-rev`, which only makes clients look again; ports, user and file
system names, which the conversions carry unchanged. A corner: the NFS proxy
refuses a hostname that is absent, not one that is empty, and publishes `nfs://()/`,
which no client can parse.

### `LustreFs` - the target of one unit

`mgs_mds_setup` and `oss_setup` command by command, while storage is attached one
device at a time and every hook runs the whole set-up again.

| TLA+ | code |
|---|---|
| `attached`, `visible` | Juju's storage; whether `s.location` can be read |
| `pool`, `imported` | the devices that carry the pool; whether `zpool list` shows it |
| `label` | the MGS NIDs that the target was formatted with |
| `mounted` | the mountpoint |
| `hook` | the running set-up: next command, devices and NIDs it was called with |

    Call -> ZPool -> LustreTarget -> MountTarget

`Target` is the abstract specification: a pool is made once, of a redundant
layout; a target is formatted once, on a pool; only what is formatted is mounted.
`LustrePeer` relies on just that. `LustreFs` implements it (`ImplementsTarget`): the
layouts are those from which every device can be recovered, while the code
counts devices (`Fits`). `ComesUp`: if a number of devices that fits stays attached and
no command fails, the target is served in the end, over crashes and reboots.

The run `targets` has four devices, both kinds, two values of the NIDs, 1 failure, 2
crashes and 2 reboots: four devices make each count of interest (too few, odd,
first fitting, more than that). *Fairness:* Juju runs the hooks and attaches storage again
after a reboot. Deadlock is not checked: a mounted unit has nothing left to do.

The pool is made at the first count that fits; devices attached later are never
used, and nothing says so. That is what the code does (`lustre_fs.py:139`), and `Target`
allows it.

### `LnetConfig_proofs`, `FilesystemInfo_proofs`, `LustreFs_proofs`

| theorem | says |
|---|---|
| `LnetConfig_proofs!TypeCorrect` | `Spec => []TypeOK` |
| `FileIsInUse` | `Spec => []SavedIsInUse` |
| `NeverCutOff` | `Spec => KeepsAnInterface` |
| `FileIsAsAsked` | `Canonical` implies `Spec => SavesWhatWasAsked` |
| `FilesystemInfo_proofs!TypeCorrect` | `Spec => []TypeOK` |
| `ReadersSeeOneValue` | `SettledElections` implies `Spec => Publishes` |
| `LustreFs_proofs!TypeCorrect` | `Spec => []TypeOK` |
| `SetupImplementsTarget` | `Spec => ImplementsTarget` |

They hold for any sets of interfaces, requests and machines, any units, clients and
configurations, any finite set of devices, and any number of failures, crashes and
reboots. The assumptions are those of the modules; the ones that are more than types:
the names of `Networks` are what the kernel shows, an info has a key just if it is of
cephfs.

*LNet.* None of the three properties follows from the committed state: `Persist` writes
what it sees, many steps after the request was read. `Reconciling` says how far the
running reconciliation is: networks it has yet to reach still have the interfaces that
were seen (`LeftAsSeen`), the one it is at has lost nothing it keeps (`HalfDone`), those behind
it are as wanted (`ReconciledAsWanted`). Commands that do part of their work keep
all three. `Saved` adds why the file cannot become stale: a client reconciles only while
there is none. `Canonical` is the condition that no request is called `tcp00`: with such a
name, `net show` says nothing of the network, and it may keep interfaces nobody asked for.

*The provider.* Clients agree because of what the leader's hook *is about to* write:
`UpToDate` says that its flush reaches every client that has an endpoint, or repeats the
endpoint, with the key, for one client more. A unit that leads in the middle of a hook
would break it, hence the condition. `OneEndpoint` and `KeyKnown` tie the relation, the
secret and the grants together, without which an endpoint would be there and not
readable; `KnownAreRelated` is why a hook does not write to a relation that is gone. Each
step then maps to a step of `Publication`: the leader's flush to `Publish` or `Serve`, relations
to `Relate` and `Unrelate`, everything else to a stutter.

*The target.* `LustreFs` never looks at what it did before, but asks the machine each time;
`Progress`, in the invariant, says what a hook may rely on at each of its commands.
That a count of devices which the code takes makes a redundant layout is a lemma of its
own (`FittingIsRedundant`).

Only model-checked: `EventuallyConfigured`, `FollowsConfig` and `ComesUp` of these modules, and
`WorkloadLearns` of `MountRelation`, which are liveness properties under fairness.

## 3. Plan

Done: `LustrePeer`, `FilesystemClient`, `MountRelation`, `LnetConfig`, `FilesystemInfo`,
`LustreFs`, the abstract specifications `MgsRegistry`, `Publication` and `Target`, and the
proofs above. What would come next, in this order:

1. A composition of `FilesystemInfo` and `MountRelation`, from a proxy's configuration to
   the workload's event.
2. The mount options of an entry as operators against a reference definition.

Not modelled, and why: `repository.py`, terraform and the workflows are tools
with no state of the system; `ppa.py` is a sequence of downloads of which only
failure matters here; logging, wording of statuses and help texts.
