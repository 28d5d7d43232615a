-------------------------- MODULE LustrePeer_proofs --------------------------
(* Safety theorems of LustrePeer, for any number of units, any storage and any
   number of elections, crashes and faults. *)
EXTENDS LustrePeer, TLAPS

-----------------------------------------------------------------------------
(* Typing lemmas: the records that the actions build. *)

LEMMA NidsFacts ==
    /\ NoNids \notin Nids /\ NoNids \in NidsOrNone
    /\ NoApp \in AppData /\ ~Promoted(NoApp)
    /\ \A a \in AppData : a.unit \in Units \cup {NoUnit} /\ a.nids \in NidsOrNone
    /\ \A a \in AppData : Promoted(a) => a.unit \in Units /\ a.nids \in Nids
BY UnitsAssumption DEF NoNids, Nids, NidsOrNone, NoApp, AppData, Promoted

LEMMA EventFacts ==
    /\ Install \in Events /\ Start \in Events
    /\ \A v \in Units \cup {NoUnit} : Changed(v) \in Events
BY DEF Events

LEMMA AtRestType ==
    ASSUME NEW pc \in {"idle", "failed"}, NEW e \in Events
    PROVE  AtRest(pc, e) \in Hook
BY NidsFacts DEF AtRest, Hook, NoApp

LEMMA RestingTypes ==
    /\ Idle \in Hook
    /\ \A e \in Events : Failed(e) \in Hook
BY AtRestType, EventFacts DEF Idle, Failed

LEMMA DispatchedType ==
    ASSUME TypeOK, NEW u \in Units, NEW e \in Events
    PROVE  Dispatched(u, e) \in Hook
<1>1. AtRest("idle", e) \in Hook
  BY AtRestType
<1>2. bag[u].nids \in NidsOrNone /\ bag[u].ready \in BOOLEAN /\ app \in AppData
  BY DEF TypeOK, UnitData
<1> QED
  BY <1>1, <1>2 DEF Dispatched, Hook

LEMMA BecomeType ==
    ASSUME TypeOK, NEW u \in Units, NEW h \in Hook, Become(u, h)
    PROVE  hook' \in [Units -> Hook]
BY DEF TypeOK, Become

LEMMA PromoteType ==
    ASSUME NEW h \in Hook, NEW v \in Units, NEW n \in Nids
    PROVE  PromoteMgsNids(h, v, n) \in Hook
<1>1. [unit |-> v, nids |-> n] \in AppData
  BY DEF AppData
<1> QED
  BY <1>1 DEF PromoteMgsNids, Hook

(* Records of bounded counters, and the two record updates of a hook. *)
LEMMA UsedType ==
    TypeOK => /\ Fault => used' \in [elections : Nat, crashes : Nat, faults : Nat]
              /\ Spend => used' \in [elections : Nat, crashes : Nat, faults : Nat]
BY DEF TypeOK, Fault, Spend

LEMMA StopType ==
    ASSUME TypeOK, NEW u \in Units, NEW h \in Hook, NEW s, StopWith(u, h, s)
    PROVE  hook' \in [Units -> Hook]
<1>1. [h EXCEPT !.pc = "commit", !.refresh = FALSE] \in Hook
  BY DEF Hook, Running
<1> QED
  BY <1>1, BecomeType DEF StopWith

LEMMA DiskType ==
    ASSUME NEW d \in Disk, NEW n \in NidsOrNone, NEW k \in Kinds
    PROVE  FormatMgs(d) \in Disk /\ FormatOst(d, n) \in Disk /\ Mount(d, k) \in Disk
BY DEF Disk, FormatMgs, FormatOst, Mount

LEMMA PartlyProvisionedType ==
    ASSUME TypeOK, NEW u \in Units
    PROVE  Formatted(u) \in Disk /\ PartlyProvisioned(u) \subseteq Disk
<1>1. disk[u] \in Disk /\ hook[u] \in Hook
  BY DEF TypeOK
<1>2. hook[u].app.nids \in NidsOrNone
  BY <1>1, NidsFacts DEF Hook
<1>3. FormatMgs(disk[u]) \in Disk /\ FormatOst(disk[u], hook[u].app.nids) \in Disk
  BY <1>1, <1>2, DiskType DEF Kinds
<1> QED
  BY <1>1, <1>3 DEF Formatted, PartlyProvisioned

LEMMA CheckLustreType ==
    ASSUME NEW u, NEW c, NEW e
    PROVE  CheckLustre(u, c, e) \in {"active", "blocked", "waiting"}
BY DEF CheckLustre

-----------------------------------------------------------------------------
(* Every action preserves the type invariant.  HookInv is needed where a hook
   promotes the NIDs it has: without NIDs it would write half a databag. *)

LEMMA OnInstallType ==
    ASSUME TypeOK, NEW u \in Units, OnInstall(u)
    PROVE  TypeOK'
<1>1. hook' \in [Units -> Hook]
  BY RestingTypes, BecomeType DEF OnInstall
<1>2. used' \in [elections : Nat, crashes : Nat, faults : Nat]
  BY UsedType DEF OnInstall, TypeOK
<1>3. pending' \in [Units -> SUBSET Events]
  BY EventFacts DEF OnInstall, TypeOK
<1>4. software' \in [Units -> {"none", "packages", "lnet"}]
  BY DEF OnInstall, TypeOK
<1>5. status' \in [Units -> {"unknown", "maintenance", "waiting", "active", "blocked"}]
  BY DEF OnInstall, SetStatus, TypeOK
<1> QED
  BY <1>1, <1>2, <1>3, <1>4, <1>5 DEF OnInstall, TypeOK, data

LEMMA OnStartType ==
    ASSUME TypeOK, NEW u \in Units, OnStart(u)
    PROVE  TypeOK'
<1> DEFINE h == [Dispatched(u, Start) EXCEPT !.refresh = TRUE]
<1>0. Dispatched(u, Start) \in Hook
  BY DispatchedType, EventFacts
<1>1. h \in Hook
  BY <1>0 DEF Hook
<1>2. ToMgsMds(u, h) \in Hook /\ ToOss(h) \in Hook
  BY <1>1 DEF ToMgsMds, ToOss, Hook, Running
<1>3. hook' \in [Units -> Hook]
  BY <1>2, RestingTypes, EventFacts, BecomeType DEF OnStart, StorageUnavailable
<1>4. status' \in [Units -> {"unknown", "maintenance", "waiting", "active", "blocked"}]
  BY CheckLustreType DEF OnStart, StorageUnavailable, SetStatus, TypeOK
<1>5. pending' \in [Units -> SUBSET Events]
  BY DEF OnStart, Consume, TypeOK
<1> QED
  BY <1>3, <1>4, <1>5 DEF OnStart, TypeOK, data, machine

LEMMA MgsMdsSetupType ==
    ASSUME TypeOK, NEW u \in Units, MgsMdsSetup(u)
    PROVE  TypeOK'
<1> DEFINE n == [host |-> u, addr |-> address[u]]
<1>1. hook[u] \in Hook /\ disk[u] \in Disk /\ n \in NidsOrNone
  BY DEF TypeOK, NidsOrNone, Nids
<1>2. [hook[u] EXCEPT !.pc = "promote", !.nids = n] \in Hook
  BY <1>1 DEF Hook, Running
<1>3. hook' \in [Units -> Hook]
  BY <1>1, <1>2, BecomeType, StopType DEF MgsMdsSetup
<1>4. disk' \in [Units -> Disk]
  <2>1. Mount(FormatMgs(disk[u]), "mgt-mdt") \in Disk
    BY <1>1, DiskType, NidsFacts DEF Kinds
  <2>2. Mount(Formatted(u), "mgt-mdt") \in Disk
    BY PartlyProvisionedType, DiskType, NidsFacts DEF Kinds
  <2> QED
    BY <2>1, <2>2, PartlyProvisionedType DEF MgsMdsSetup, TypeOK
<1>5. status' \in [Units -> {"unknown", "maintenance", "waiting", "active", "blocked"}]
  BY DEF MgsMdsSetup, StopWith, SetStatus, TypeOK
<1>6. used' \in [elections : Nat, crashes : Nat, faults : Nat]
  BY UsedType DEF MgsMdsSetup, CommandFails, TypeOK
<1> QED
  BY <1>3, <1>4, <1>5, <1>6 DEF MgsMdsSetup, TypeOK, data, machine

LEMMA MgsNidsPublishedType ==
    ASSUME TypeOK, HookInv, NEW u \in Units, MgsNidsPublished(u)
    PROVE  TypeOK'
<1>1. hook[u] \in Hook /\ hook[u].nids \in Nids
  BY DEF TypeOK, HookInv, HookOk, MgsNidsPublished, Hook, NidsOrNone
<1> DEFINE p == PromoteMgsNids(hook[u], u, hook[u].nids)
<1>2. p \in Hook
  BY <1>1, PromoteType
<1>3. [p EXCEPT !.pc = "publish", !.ready = TRUE] \in Hook
  BY <1>2 DEF Hook, Running
<1>4. [hook[u] EXCEPT !.pc = "commit"] \in Hook
  BY <1>1 DEF Hook, Running
<1>5. hook' \in [Units -> Hook]
  BY <1>1, <1>3, <1>4, BecomeType, StopType DEF MgsNidsPublished
<1>6. status' \in [Units -> {"unknown", "maintenance", "waiting", "active", "blocked"}]
  BY DEF MgsNidsPublished, StopWith, SetStatus, TypeOK
<1> QED
  BY <1>5, <1>6 DEF MgsNidsPublished, TypeOK, data, machine

(* The hook that relation-changed works on, after _try_promote_mgs. *)
LEMMA ObservedType ==
    ASSUME TypeOK, NEW u \in Units, NEW v \in Units \cup {NoUnit}
    PROVE  LET seen == [Dispatched(u, Changed(v)) EXCEPT
                         !.refresh = TRUE,
                         !.stale = IF Observes(u, v) /\ ~bag[v].ready THEN {v} ELSE {}]
           IN  /\ seen \in Hook
               /\ Candidate(u, v) => PromoteMgsNids(seen, v, bag[v].nids) \in Hook
<1> DEFINE seen == [Dispatched(u, Changed(v)) EXCEPT
                     !.refresh = TRUE,
                     !.stale = IF Observes(u, v) /\ ~bag[v].ready THEN {v} ELSE {}]
<1>1. Dispatched(u, Changed(v)) \in Hook
  BY DispatchedType, EventFacts
<1>2. (IF Observes(u, v) /\ ~bag[v].ready THEN {v} ELSE {}) \in SUBSET Units
  BY DEF Observes
<1>3. seen \in Hook
  BY <1>1, <1>2 DEF Hook
<1>4. Candidate(u, v) => v \in Units /\ bag[v].nids \in Nids
  BY DEF Candidate, Observes, TypeOK, UnitData, NidsOrNone
<1> HIDE DEF seen
<1>5. Candidate(u, v) => PromoteMgsNids(seen, v, bag[v].nids) \in Hook
  BY <1>3, <1>4, PromoteType
<1> QED
  BY <1>3, <1>5 DEF seen

LEMMA ReconfigureType ==
    ASSUME TypeOK, NEW u \in Units, NEW h \in Hook, Reconfigure(u, h)
    PROVE  /\ hook' \in [Units -> Hook]
           /\ status' \in [Units -> {"unknown", "maintenance", "waiting", "active", "blocked"}]
<1>1. ToOss(h) \in Hook /\ [h EXCEPT !.pc = "publish", !.ready = TRUE] \in Hook
  BY DEF ToOss, Hook, Running
<1>2. hook' \in [Units -> Hook]
  BY <1>1, RestingTypes, BecomeType, StopType DEF Reconfigure
<1>3. status' \in [Units -> {"unknown", "maintenance", "waiting", "active", "blocked"}]
  BY DEF Reconfigure, StopWith, SetStatus, TypeOK
<1> QED
  BY <1>2, <1>3

LEMMA OnRelationChangedType ==
    ASSUME TypeOK, NEW u \in Units, NEW v \in Units \cup {NoUnit},
           OnRelationChanged(u, v)
    PROVE  TypeOK'
<1> DEFINE seen == [Dispatched(u, Changed(v)) EXCEPT
                     !.refresh = TRUE,
                     !.stale = IF Observes(u, v) /\ ~bag[v].ready THEN {v} ELSE {}]
           h == IF Candidate(u, v) THEN PromoteMgsNids(seen, v, bag[v].nids) ELSE seen
<1>1. h \in Hook
  BY ObservedType
<1>2. PromotionRefused(u, v, seen.app) \/ Reconfigure(u, h)
  BY DEF OnRelationChanged
<1> HIDE DEF h
<1>3. /\ hook' \in [Units -> Hook]
      /\ status' \in [Units -> {"unknown", "maintenance", "waiting", "active", "blocked"}]
  <2>1. CASE PromotionRefused(u, v, seen.app)
    BY <2>1, RestingTypes, BecomeType DEF PromotionRefused, SetStatus, TypeOK
  <2>2. CASE Reconfigure(u, h)
    BY <2>2, <1>1, ReconfigureType
  <2> QED
    BY <1>2, <2>1, <2>2
<1>4. pending' \in [Units -> SUBSET Events]
  BY DEF OnRelationChanged, Consume, TypeOK
<1> QED
  BY <1>3, <1>4 DEF OnRelationChanged, TypeOK, data, machine

LEMMA OssSetupType ==
    ASSUME TypeOK, NEW u \in Units, OssSetup(u)
    PROVE  TypeOK'
<1>1. hook[u] \in Hook /\ disk[u] \in Disk /\ hook[u].app.nids \in NidsOrNone
  BY NidsFacts DEF TypeOK, Hook
<1>2. [hook[u] EXCEPT !.pc = "publish", !.ready = TRUE] \in Hook
  BY <1>1 DEF Hook, Running
<1>3. hook' \in [Units -> Hook]
  BY <1>1, <1>2, BecomeType, StopType DEF OssSetup
<1>4. Mount(FormatOst(disk[u], hook[u].app.nids), "ost") \in Disk
  BY <1>1, DiskType DEF Kinds
<1>5. disk' \in [Units -> Disk]
  BY <1>4, PartlyProvisionedType DEF OssSetup, TypeOK
<1>6. status' \in [Units -> {"unknown", "maintenance", "waiting", "active", "blocked"}]
  BY DEF OssSetup, StopWith, SetStatus, TypeOK
<1>7. used' \in [elections : Nat, crashes : Nat, faults : Nat]
  BY UsedType DEF OssSetup, CommandFails, TypeOK
<1> QED
  BY <1>3, <1>5, <1>6, <1>7 DEF OssSetup, TypeOK, data, machine

LEMMA TryPublishFilesystemInfoType ==
    ASSUME TypeOK, NEW u \in Units, TryPublishFilesystemInfo(u)
    PROVE  TypeOK'
<1>1. hook[u] \in Hook /\ hook[u].app.nids \in NidsOrNone
  BY NidsFacts DEF TypeOK, Hook
<1>2. \A e \in NidsOrNone : [hook[u] EXCEPT !.pc = "commit", !.endpoint = e] \in Hook
  BY <1>1 DEF Hook, Running
<1>3. hook' \in [Units -> Hook]
  BY <1>1, <1>2, NidsFacts, BecomeType DEF TryPublishFilesystemInfo
<1> QED
  BY <1>3 DEF TryPublishFilesystemInfo, TypeOK, data, machine

LEMMA FlushType ==
    ASSUME TypeOK, NEW u \in Units, Flush(u)
    PROVE  TypeOK'
<1>1. hook[u] \in Hook
  BY DEF TypeOK
<1>2. app' \in AppData /\ endpoint' \in NidsOrNone
  BY <1>1 DEF Flush, TypeOK, Hook
<1>3. [ready |-> hook[u].ready, nids |-> hook[u].nids] \in UnitData
  BY <1>1 DEF UnitData, Hook
<1>4. bag' \in [Units -> UnitData]
  BY <1>3 DEF Flush, TypeOK
<1>5. hook' \in [Units -> Hook]
  BY RestingTypes, BecomeType DEF Flush
<1>6. status' \in [Units -> {"unknown", "maintenance", "waiting", "active", "blocked"}]
  BY CheckLustreType DEF Flush, Refreshed, SetStatus, TypeOK
<1>7. pending' \in [Units -> SUBSET Events]
  BY EventFacts DEF Flush, TypeOK
<1> QED
  BY <1>2, <1>4, <1>5, <1>6, <1>7 DEF Flush, TypeOK, machine

LEMMA FlushRefusedType ==
    ASSUME TypeOK, NEW u \in Units, FlushRefused(u)
    PROVE  TypeOK'
<1>1. hook[u].event \in Events
  BY DEF TypeOK, Hook
<1>2. hook' \in [Units -> Hook]
  BY <1>1, RestingTypes, BecomeType DEF FlushRefused
<1>3. status' \in [Units -> {"unknown", "maintenance", "waiting", "active", "blocked"}]
  BY CheckLustreType DEF FlushRefused, Refreshed, SetStatus, TypeOK
<1> QED
  BY <1>2, <1>3 DEF FlushRefused, TypeOK, data, machine

LEMMA OnUpdateStatusType ==
    ASSUME TypeOK, NEW u \in Units, OnUpdateStatus(u)
    PROVE  TypeOK'
<1>1. status' \in [Units -> {"unknown", "maintenance", "waiting", "active", "blocked"}]
  BY CheckLustreType DEF OnUpdateStatus, SetStatus, TypeOK
<1> QED
  BY <1>1 DEF OnUpdateStatus, TypeOK, data, machine

LEMMA EnvironmentType ==
    ASSUME TypeOK, NEW u \in Units, Environment(u)
    PROVE  TypeOK'
<1>1. CASE Elect(u)
  BY <1>1 DEF Elect, TypeOK, data, machine
<1>2. CASE Crash(u)
  <2>1. disk' \in [Units -> Disk]
    BY <1>2, PartlyProvisionedType DEF Crash, TypeOK
  <2>2. hook' \in [Units -> Hook]
    BY <1>2, RestingTypes, BecomeType DEF Crash, TypeOK, Hook
  <2>3. used' \in [elections : Nat, crashes : Nat, faults : Nat]
    BY <1>2, UsedType DEF Crash
  <2> QED
    BY <1>2, <2>1, <2>2, <2>3 DEF Crash, TypeOK, data, machine
<1>3. CASE Reboot(u)
  <2>1. \A d \in Disk : [d EXCEPT !.mounted = {}] \in Disk
    BY DEF Disk
  <2>2. disk' \in [Units -> Disk]
    BY <1>3, <2>1, PartlyProvisionedType DEF Reboot, TypeOK
  <2>3. hook[u] \in Hook /\ hook[u].event \in Events
    BY DEF TypeOK, Hook
  <2>4. hook' \in [Units -> Hook]
    BY <1>3, <2>3, RestingTypes, BecomeType DEF Reboot
  <2>5. used' \in [elections : Nat, crashes : Nat, faults : Nat]
    BY <1>3, UsedType DEF Reboot
  <2>6. pending' \in [Units -> SUBSET Events]
    BY <1>3, EventFacts DEF Reboot, TypeOK
  <2>7. usable' \in [Units -> BOOLEAN] /\ address' \in [Units -> Addresses]
    BY <1>3 DEF Reboot, TypeOK
  <2> QED
    BY <1>3, <2>2, <2>4, <2>5, <2>6, <2>7 DEF Reboot, TypeOK, data
<1>4. CASE Reattach(u)
  BY <1>4 DEF Reattach, TypeOK, data
<1>5. CASE AddUnit(u)
  <2>1. \A v \in units : Changed(v) \in Events
    BY EventFacts DEF TypeOK
  <2>2. FirstEvents(u, units) \subseteq Events
    BY <2>1, EventFacts DEF FirstEvents
  <2>3. pending' \in [Units -> SUBSET Events]
    BY <1>5, <2>2, EventFacts DEF AddUnit, TypeOK
  <2> QED
    BY <1>5, <2>3 DEF AddUnit, TypeOK, data, machine
<1>6. CASE \E k \in Kinds : AttachStorage(u, k)
  <2>1. PICK k \in Kinds : AttachStorage(u, k)
    BY <1>6
  <2>2. pending' \in [Units -> SUBSET Events]
    BY <2>1, EventFacts DEF AttachStorage, TypeOK
  <2>3. storage' \in [Units -> SUBSET Kinds]
    BY <2>1 DEF AttachStorage, TypeOK
  <2> QED
    BY <2>1, <2>2, <2>3 DEF AttachStorage, TypeOK, data
<1> QED
  BY <1>1, <1>2, <1>3, <1>4, <1>5, <1>6 DEF Environment

LEMMA InitType == Init => TypeOK
<1> SUFFICES ASSUME Init PROVE TypeOK
  OBVIOUS
<1>1. [ready |-> FALSE, nids |-> NoNids] \in UnitData /\ BlankDisk \in Disk
  BY NidsFacts DEF UnitData, BlankDisk, Disk
<1>2. \A u \in Units : FirstEvents(u, InitUnits) \subseteq Events
  BY UnitsAssumption, EventFacts DEF FirstEvents
<1> QED
  BY <1>1, <1>2, UnitsAssumption, StorageAssumption, NidsFacts, RestingTypes
  DEF Init, TypeOK

-----------------------------------------------------------------------------
(* The disks only ever gain targets, and a target keeps the MGS it was
   formatted for. *)

Grows(dk, new) ==
    \A v \in Units :
        /\ dk[v].mgs => new[v].mgs
        /\ dk[v].ost # NoNids => new[v].ost = dk[v].ost

LEMMA FormattedGrows ==
    ASSUME TypeOK, NEW u \in Units, NEW d \in PartlyProvisioned(u)
    PROVE  /\ disk[u].mgs => d.mgs
           /\ disk[u].ost # NoNids => d.ost = disk[u].ost
BY DEF TypeOK, Disk, PartlyProvisioned, Formatted, FormatMgs, FormatOst

(* The single steps of mgs_mds_setup and oss_setup. *)
LEMMA CommandGrows ==
    ASSUME NEW d \in Disk, NEW n \in NidsOrNone, NEW k \in Kinds
    PROVE  /\ FormatMgs(d).mgs /\ FormatMgs(d).ost = d.ost
           /\ FormatOst(d, n).mgs = d.mgs
           /\ d.ost # NoNids => FormatOst(d, n).ost = d.ost
           /\ d.ost = NoNids => FormatOst(d, n).ost = n
           /\ Mount(d, k).mgs = d.mgs /\ Mount(d, k).ost = d.ost
BY DEF Disk, FormatMgs, FormatOst, Mount

LEMMA DiskGrows ==
    ASSUME TypeOK, NEW u \in Units,
           HookStep(u) \/ Dispatch(u) \/ OnUpdateStatus(u) \/ Environment(u)
    PROVE  Grows(disk, disk')
<1>0. disk \in [Units -> Disk]
  BY DEF TypeOK
<1>1. CASE MgsMdsSetup(u)
  <2>1. "mgt-mdt" \in Kinds /\ NoNids \in NidsOrNone /\ disk[u] \in Disk
    BY <1>0, NidsFacts DEF Kinds
  <2>2. Formatted(u) = FormatMgs(disk[u]) /\ FormatMgs(disk[u]) \in Disk
    BY <1>1, <2>1, DiskType DEF MgsMdsSetup, Formatted
  <2>3. /\ Mount(FormatMgs(disk[u]), "mgt-mdt").mgs
        /\ Mount(FormatMgs(disk[u]), "mgt-mdt").ost = disk[u].ost
    BY <2>1, <2>2, CommandGrows
  <2>4. PICK d : /\ disk' = [disk EXCEPT ![u] = d]
                 /\ d \in PartlyProvisioned(u) \/ d = Mount(FormatMgs(disk[u]), "mgt-mdt")
    BY <1>1, <2>2 DEF MgsMdsSetup
  <2>5. (disk[u].mgs => d.mgs) /\ (disk[u].ost # NoNids => d.ost = disk[u].ost)
    BY <2>3, <2>4, FormattedGrows
  <2> QED
    BY <1>0, <2>4, <2>5 DEF Grows
<1>2. CASE OssSetup(u)
  <2> DEFINE new == Mount(FormatOst(disk[u], hook[u].app.nids), "ost")
  <2>1. "ost" \in Kinds /\ hook[u].app.nids \in NidsOrNone /\ disk[u] \in Disk
    BY <1>0, NidsFacts DEF Kinds, TypeOK, Hook
  <2>2. FormatOst(disk[u], hook[u].app.nids) \in Disk
    BY <2>1, DiskType
  <2>3. new.mgs = disk[u].mgs /\ (disk[u].ost # NoNids => new.ost = disk[u].ost)
    BY <2>1, <2>2, CommandGrows
  <2>4. PICK d : /\ disk' = [disk EXCEPT ![u] = d]
                 /\ d \in PartlyProvisioned(u) \/ d = new
    BY <1>2 DEF OssSetup
  <2>5. (disk[u].mgs => d.mgs) /\ (disk[u].ost # NoNids => d.ost = disk[u].ost)
    BY <2>3, <2>4, FormattedGrows
  <2> QED
    BY <1>0, <2>4, <2>5 DEF Grows
<1>3. CASE Crash(u)
  BY <1>0, <1>3, FormattedGrows DEF Crash, Grows
<1>4. CASE Reboot(u)
  <2>1. PICK d \in PartlyProvisioned(u) :
           disk' = [disk EXCEPT ![u] = [d EXCEPT !.mounted = {}]]
    BY <1>4 DEF Reboot
  <2>2. d \in Disk
    BY PartlyProvisionedType
  <2> QED
    BY <1>0, <2>1, <2>2, FormattedGrows DEF Grows, Disk
<1>5. CASE UNCHANGED disk
  BY <1>5 DEF Grows
<1> QED
  BY <1>1, <1>2, <1>3, <1>4, <1>5
  DEF HookStep, Dispatch, Environment, MgsNidsPublished, TryPublishFilesystemInfo,
      Flush, FlushRefused, OnInstall, OnStart, OnRelationChanged, OnUpdateStatus,
      Elect, Reattach, AddUnit, AttachStorage

(* So whatever a disk said of a hook and of a databag, a later disk says too. *)
LEMMA HookOkGrows ==
    ASSUME NEW dk, NEW new, Grows(dk, new), NEW u \in Units, NEW h \in Hook
    PROVE  /\ HookOk(dk, u, h) => HookOk(new, u, h)
           /\ \A a \in AppData : PromotedFromMgs(dk, a) => PromotedFromMgs(new, a)
           /\ \A n \in NidsOrNone :
                PublishedFromMgs(dk, u, n) => PublishedFromMgs(new, u, n)
           /\ Provisioned(dk, u) => Provisioned(new, u)
<1>1. \A a \in AppData : PromotedFromMgs(dk, a) => PromotedFromMgs(new, a)
  BY NidsFacts DEF Grows, PromotedFromMgs
<1>2. \A n : PublishedFromMgs(dk, u, n) => PublishedFromMgs(new, u, n)
  BY DEF Grows, PublishedFromMgs
<1>3. Provisioned(dk, u) => Provisioned(new, u)
  BY DEF Grows, Provisioned
<1>4. h.app \in AppData
  BY DEF Hook
<1> QED
  BY <1>1, <1>2, <1>3, <1>4 DEF HookOk

-----------------------------------------------------------------------------
(* The inductive invariant, and what it says of the records a hook goes through. *)

SafeInv == TypeOK /\ HookInv /\ PromotedMgsExists /\ ReadyIsProvisioned

LEMMA HookOkUpdates ==
    ASSUME NEW dk, NEW u \in Units
    PROVE  /\ HookOk(dk, u, Idle)
           /\ \A e : HookOk(dk, u, Failed(e))
           /\ \A h \in Hook : HookOk(dk, u, h) =>
                /\ HookOk(dk, u, [h EXCEPT !.pc = "commit", !.refresh = FALSE])
                /\ HookOk(dk, u, [h EXCEPT !.pc = "commit"])
                /\ \A e : HookOk(dk, u, [h EXCEPT !.pc = "commit", !.endpoint = e])
                /\ HookOk(dk, u, [h EXCEPT !.refresh = TRUE])
                /\ \A v : HookOk(dk, u, [h EXCEPT !.refresh = TRUE, !.stale = v])
                /\ HookOk(dk, u, ToMgsMds(u, h))
                /\ Promoted(h.app) => HookOk(dk, u, ToOss(h))
                /\ Provisioned(dk, u) =>
                     HookOk(dk, u, [h EXCEPT !.pc = "publish", !.ready = TRUE])
<1>1. HookOk(dk, u, Idle) /\ \A e : HookOk(dk, u, Failed(e))
  BY NidsFacts DEF HookOk, Idle, Failed, AtRest, PublishedFromMgs, PromotedFromMgs
<1>2. ASSUME NEW h \in Hook, HookOk(dk, u, h)
      PROVE  /\ HookOk(dk, u, [h EXCEPT !.pc = "commit", !.refresh = FALSE])
             /\ HookOk(dk, u, [h EXCEPT !.pc = "commit"])
             /\ \A e : HookOk(dk, u, [h EXCEPT !.pc = "commit", !.endpoint = e])
             /\ HookOk(dk, u, [h EXCEPT !.refresh = TRUE])
             /\ \A v : HookOk(dk, u, [h EXCEPT !.refresh = TRUE, !.stale = v])
  BY <1>2 DEF HookOk, Hook
<1>3. ASSUME NEW h \in Hook, HookOk(dk, u, h)
      PROVE  /\ HookOk(dk, u, ToMgsMds(u, h))
             /\ Promoted(h.app) => HookOk(dk, u, ToOss(h))
             /\ Provisioned(dk, u) =>
                  HookOk(dk, u, [h EXCEPT !.pc = "publish", !.ready = TRUE])
  BY <1>3 DEF HookOk, Hook, ToMgsMds, ToOss
<1> QED
  BY <1>1, <1>2, <1>3

LEMMA DispatchedOk ==
    ASSUME SafeInv, NEW u \in Units, NEW e \in Events
    PROVE  HookOk(disk, u, Dispatched(u, e)) /\ Dispatched(u, e).app = app
<1>1. AtRest("idle", e) \in Hook
  BY AtRestType
<1>2. /\ Dispatched(u, e).app = app
      /\ Dispatched(u, e).nids = bag[u].nids
      /\ Dispatched(u, e).ready = bag[u].ready
      /\ Dispatched(u, e).pc = "idle"
  BY <1>1 DEF Dispatched, Hook, AtRest
<1> QED
  BY <1>2 DEF SafeInv, HookInv, HookOk, PromotedMgsExists, ReadyIsProvisioned

(* Promotion takes NIDs that were published from a formatted MGS. *)
LEMMA PromoteOk ==
    ASSUME NEW dk, NEW u \in Units, NEW h \in Hook, HookOk(dk, u, h),
           NEW v \in Units, NEW n \in Nids, PublishedFromMgs(dk, v, n)
    PROVE  HookOk(dk, u, PromoteMgsNids(h, v, n))
<1>1. CASE Promoted(h.app)
  BY <1>1 DEF PromoteMgsNids
<1>2. CASE ~Promoted(h.app)
  <2> DEFINE p == PromoteMgsNids(h, v, n)
  <2>1. p.app = [unit |-> v, nids |-> n] /\ p.nids = h.nids /\ p.ready = h.ready
        /\ p.pc = h.pc
    BY <1>2 DEF PromoteMgsNids, Hook
  <2>2. n # NoNids
    BY NidsFacts
  <2>3. PromotedFromMgs(dk, [unit |-> v, nids |-> n])
    BY <2>2 DEF PromotedFromMgs, PublishedFromMgs
  <2>4. h.pc # "oss"
    BY <1>2 DEF HookOk
  <2> QED
    BY <2>1, <2>3, <2>4 DEF HookOk
<1> QED
  BY <1>1, <1>2

LEMMA StopOk ==
    ASSUME TypeOK, NEW u \in Units, NEW h \in Hook, NEW s, StopWith(u, h, s),
           NEW dk, HookOk(dk, u, h)
    PROVE  \E x : hook' = [hook EXCEPT ![u] = x] /\ HookOk(dk, u, x)
BY HookOkUpdates DEF StopWith, Become

-----------------------------------------------------------------------------
(* The hook of the unit that takes a step is again one the invariant allows. *)

Allowed(u) == \E x : hook' = [hook EXCEPT ![u] = x] /\ HookOk(disk', u, x)

LEMMA OnStartAllowed ==
    ASSUME SafeInv, NEW u \in Units, OnStart(u)
    PROVE  Allowed(u)
<1> DEFINE h == [Dispatched(u, Start) EXCEPT !.refresh = TRUE]
<1>0. TypeOK /\ disk' = disk
  BY DEF SafeInv, OnStart
<1>1. Dispatched(u, Start) \in Hook /\ HookOk(disk, u, Dispatched(u, Start))
      /\ Dispatched(u, Start).app = app
  BY <1>0, DispatchedType, DispatchedOk, EventFacts
<1>2. h \in Hook /\ HookOk(disk, u, h) /\ h.app = app
  BY <1>1, HookOkUpdates DEF Hook
<1>3. \/ Become(u, Idle) \/ Become(u, Failed(Start)) \/ Become(u, ToMgsMds(u, h))
      \/ Promoted(h.app) /\ Become(u, ToOss(h))
  BY DEF OnStart, StorageUnavailable
<1> HIDE DEF h
<1> QED
  BY <1>0, <1>2, <1>3, HookOkUpdates DEF Become, Allowed

LEMMA OnRelationChangedAllowed ==
    ASSUME SafeInv, NEW u \in Units, NEW v \in Units \cup {NoUnit},
           OnRelationChanged(u, v)
    PROVE  Allowed(u)
<1> DEFINE seen == [Dispatched(u, Changed(v)) EXCEPT
                     !.refresh = TRUE,
                     !.stale = IF Observes(u, v) /\ ~bag[v].ready THEN {v} ELSE {}]
           h == IF Candidate(u, v) THEN PromoteMgsNids(seen, v, bag[v].nids) ELSE seen
<1>0. TypeOK /\ HookInv /\ disk' = disk
  BY DEF SafeInv, OnRelationChanged
<1>1. seen \in Hook /\ h \in Hook
  BY <1>0, ObservedType
<1>2. Dispatched(u, Changed(v)) \in Hook /\ HookOk(disk, u, Dispatched(u, Changed(v)))
  BY <1>0, DispatchedType, DispatchedOk, EventFacts
<1>3. HookOk(disk, u, seen)
  BY <1>2, HookOkUpdates
<1>4. PromotionRefused(u, v, seen.app) \/ Reconfigure(u, h)
  BY DEF OnRelationChanged
<1> HIDE DEF seen
<1>5. HookOk(disk, u, h)
  <2>1. CASE Candidate(u, v)
    <3>1. v \in Units /\ bag[v].nids \in Nids
      BY <1>0, <2>1 DEF Candidate, Observes, TypeOK, UnitData, NidsOrNone
    <3>2. PublishedFromMgs(disk, v, bag[v].nids)
      BY <1>0, <3>1 DEF HookInv
    <3> QED
      BY <1>1, <1>3, <2>1, <3>1, <3>2, PromoteOk
  <2> QED
    BY <1>3, <2>1
<1> HIDE DEF h
<1>6. CASE PromotionRefused(u, v, seen.app)
  BY <1>0, <1>6, HookOkUpdates DEF PromotionRefused, Become, Allowed
<1>7. CASE Reconfigure(u, h)
  <2>1. Promoted(h.app) /\ IsMgs(u, h) => Provisioned(disk, u)
    BY <1>5 DEF HookOk, PromotedFromMgs, IsMgs, Provisioned
  <2>2. \/ Become(u, Idle)
        \/ Promoted(h.app) /\ IsMgs(u, h)
           /\ Become(u, [h EXCEPT !.pc = "publish", !.ready = TRUE])
        \/ Promoted(h.app) /\ Become(u, ToOss(h))
        \/ StopWith(u, h, status[u])
    BY <1>7 DEF Reconfigure
  <2>3. CASE StopWith(u, h, status[u])
    BY <1>0, <1>1, <1>5, <2>3, StopOk DEF Allowed
  <2>4. CASE ~StopWith(u, h, status[u])
    BY <1>0, <1>1, <1>5, <2>1, <2>2, <2>4, HookOkUpdates DEF Become, Allowed
  <2> QED
    BY <2>3, <2>4
<1> QED
  BY <1>4, <1>6, <1>7

LEMMA MgsMdsSetupAllowed ==
    ASSUME SafeInv, NEW u \in Units, MgsMdsSetup(u)
    PROVE  Allowed(u)
<1> DEFINE n == [host |-> u, addr |-> address[u]]
<1>0. TypeOK /\ HookInv /\ disk \in [Units -> Disk] /\ hook[u] \in Hook
  BY DEF SafeInv, TypeOK
<1>1. Grows(disk, disk')
  BY <1>0, DiskGrows DEF HookStep
<1>2. HookOk(disk', u, hook[u])
  BY <1>0, <1>1, HookOkGrows DEF HookInv
<1>3. CASE /\ disk' = [disk EXCEPT ![u] = Mount(FormatMgs(@), "mgt-mdt")]
           /\ Become(u, [hook[u] EXCEPT !.pc = "promote", !.nids = n])
  <2>1. FormatMgs(disk[u]) \in Disk /\ FormatMgs(disk[u]).mgs
    BY <1>0, DiskType, CommandGrows, NidsFacts DEF Kinds
  <2>2. disk'[u].mgs
    BY <1>0, <1>3, <2>1, CommandGrows, NidsFacts DEF Kinds
  <2>3. n # NoNids /\ PublishedFromMgs(disk', u, n)
    BY <2>2, UnitsAssumption DEF NoNids, PublishedFromMgs
  <2>4. HookOk(disk', u, [hook[u] EXCEPT !.pc = "promote", !.nids = n])
    BY <1>0, <1>2, <2>3 DEF HookOk, Hook
  <2> QED
    BY <1>3, <2>4 DEF Become, Allowed
<1>4. CASE StopWith(u, hook[u], "blocked")
  BY <1>0, <1>2, <1>4, StopOk DEF Allowed
<1> QED
  BY <1>3, <1>4 DEF MgsMdsSetup

LEMMA MgsNidsPublishedAllowed ==
    ASSUME SafeInv, NEW u \in Units, MgsNidsPublished(u)
    PROVE  Allowed(u)
<1> DEFINE p == PromoteMgsNids(hook[u], u, hook[u].nids)
<1>0. TypeOK /\ HookInv /\ disk' = disk /\ hook[u] \in Hook /\ HookOk(disk, u, hook[u])
  BY DEF SafeInv, HookInv, TypeOK, MgsNidsPublished
<1>1. hook[u].nids \in Nids /\ PublishedFromMgs(disk, u, hook[u].nids)
  BY <1>0 DEF HookOk, MgsNidsPublished, Hook, NidsOrNone
<1>2. Provisioned(disk, u)
  BY <1>1, NidsFacts DEF PublishedFromMgs, Provisioned
<1>3. p \in Hook /\ HookOk(disk, u, p)
  BY <1>0, <1>1, PromoteType, PromoteOk
<1> HIDE DEF p
<1>4. \/ Become(u, [hook[u] EXCEPT !.pc = "commit"])
      \/ Become(u, [p EXCEPT !.pc = "publish", !.ready = TRUE])
      \/ StopWith(u, hook[u], "blocked")
  BY DEF MgsNidsPublished, p
<1>5. CASE StopWith(u, hook[u], "blocked")
  BY <1>0, <1>5, StopOk DEF Allowed
<1>6. CASE ~StopWith(u, hook[u], "blocked")
  BY <1>0, <1>2, <1>3, <1>4, <1>6, HookOkUpdates DEF Become, Allowed
<1> QED
  BY <1>5, <1>6

LEMMA OssSetupAllowed ==
    ASSUME SafeInv, NEW u \in Units, OssSetup(u)
    PROVE  Allowed(u)
<1> DEFINE new == Mount(FormatOst(disk[u], hook[u].app.nids), "ost")
<1>0. TypeOK /\ HookInv /\ disk \in [Units -> Disk] /\ hook[u] \in Hook
  BY DEF SafeInv, TypeOK
<1>1. Grows(disk, disk')
  BY <1>0, DiskGrows DEF HookStep
<1>2. HookOk(disk', u, hook[u])
  BY <1>0, <1>1, HookOkGrows DEF HookInv
<1>3. hook[u].app.nids \in Nids
  BY <1>0, NidsFacts DEF HookInv, HookOk, OssSetup, Hook
<1>4. CASE /\ disk' = [disk EXCEPT ![u] = new]
           /\ Become(u, [hook[u] EXCEPT !.pc = "publish", !.ready = TRUE])
  <2>1. FormatOst(disk[u], hook[u].app.nids) \in Disk
        /\ FormatOst(disk[u], hook[u].app.nids).ost # NoNids
    BY <1>0, <1>3, DiskType, CommandGrows, NidsFacts DEF Kinds, NidsOrNone
  <2>2. disk'[u].ost # NoNids
    BY <1>0, <1>4, <2>1, CommandGrows, NidsFacts DEF Kinds
  <2> QED
    BY <1>0, <1>2, <1>4, <2>2, HookOkUpdates DEF Become, Allowed, Provisioned
<1>5. CASE StopWith(u, hook[u], "blocked")
  BY <1>0, <1>2, <1>5, StopOk DEF Allowed
<1> QED
  BY <1>4, <1>5 DEF OssSetup

LEMMA OtherStepsAllowed ==
    ASSUME SafeInv, NEW u \in Units,
           \/ TryPublishFilesystemInfo(u) \/ Flush(u) \/ FlushRefused(u)
           \/ OnInstall(u) \/ OnUpdateStatus(u) \/ Environment(u)
    PROVE  Allowed(u)
<1>0. TypeOK /\ HookInv /\ hook \in [Units -> Hook] /\ hook[u] \in Hook
  BY DEF SafeInv, TypeOK
<1>1. Grows(disk, disk')
  BY <1>0, DiskGrows DEF HookStep, Dispatch
<1>2. HookOk(disk', u, hook[u])
  BY <1>0, <1>1, HookOkGrows DEF HookInv
<1>3. CASE hook' = hook
  BY <1>0, <1>2, <1>3 DEF Allowed
<1>4. CASE \/ Become(u, Idle) \/ \E e : Become(u, Failed(e))
           \/ \E e : Become(u, [hook[u] EXCEPT !.pc = "commit", !.endpoint = e])
  BY <1>0, <1>2, <1>4, HookOkUpdates DEF Become, Allowed
<1>5. CASE Reboot(u)
  <2>1. Become(u, Failed(hook[u].event)) \/ Become(u, hook[u])
    BY <1>5 DEF Reboot
  <2>2. CASE Become(u, hook[u])
    BY <1>2, <2>2 DEF Become, Allowed
  <2> QED
    BY <1>4, <2>1, <2>2
<1> QED
  BY <1>3, <1>4, <1>5
  DEF TryPublishFilesystemInfo, Flush, FlushRefused, OnInstall, OnUpdateStatus,
      Environment, Elect, Crash, Reattach, AddUnit, AttachStorage

LEMMA StepAllowed ==
    ASSUME SafeInv, NEW u \in Units,
           HookStep(u) \/ Dispatch(u) \/ OnUpdateStatus(u) \/ Environment(u)
    PROVE  Allowed(u)
BY OnStartAllowed, OnRelationChangedAllowed, MgsMdsSetupAllowed,
   MgsNidsPublishedAllowed, OssSetupAllowed, OtherStepsAllowed
DEF HookStep, Dispatch

LEMMA StepType ==
    ASSUME TypeOK, HookInv, NEW u \in Units,
           HookStep(u) \/ Dispatch(u) \/ OnUpdateStatus(u) \/ Environment(u)
    PROVE  TypeOK'
BY OnInstallType, OnStartType, MgsMdsSetupType, MgsNidsPublishedType,
   OnRelationChangedType, OssSetupType, TryPublishFilesystemInfoType, FlushType,
   FlushRefusedType, OnUpdateStatusType, EnvironmentType
DEF HookStep, Dispatch

(* Databags change only when a hook is flushed. *)
LEMMA DatabagSteps ==
    ASSUME NEW u \in Units,
           HookStep(u) \/ Dispatch(u) \/ OnUpdateStatus(u) \/ Environment(u)
    PROVE  Flush(u) \/ (app' = app /\ bag' = bag /\ endpoint' = endpoint)
BY DEF HookStep, Dispatch, Environment, MgsMdsSetup, MgsNidsPublished, OssSetup,
       TryPublishFilesystemInfo, FlushRefused, OnInstall, OnStart, OnRelationChanged,
       OnUpdateStatus, Elect, Crash, Reboot, Reattach, AddUnit, AttachStorage, data

(* A target is formatted only by the hook that is about to, an OST only by one that
   has an MGS, and against that MGS. *)
LEMMA TargetSteps ==
    ASSUME TypeOK, HookInv, NEW u \in Units,
           HookStep(u) \/ Dispatch(u) \/ OnUpdateStatus(u) \/ Environment(u)
    PROVE  /\ \A v \in Units \ {u} : disk'[v] = disk[v]
           /\ \/ disk'[u].ost = disk[u].ost
              \/ /\ hook[u].pc = "oss" /\ Promoted(hook[u].app)
                 /\ disk'[u].ost = hook[u].app.nids
           /\ disk'[u].mgs => disk[u].mgs \/ hook[u].pc = "mgs"
<1>0. disk \in [Units -> Disk] /\ disk[u] \in Disk /\ hook[u] \in Hook
      /\ hook[u].app.nids \in NidsOrNone /\ (hook[u].pc = "oss" => Promoted(hook[u].app))
  BY NidsFacts DEF TypeOK, Hook, HookInv, HookOk
<1> DEFINE Good(d) ==
             /\ \/ d.ost = disk[u].ost
                \/ /\ hook[u].pc = "oss" /\ Promoted(hook[u].app)
                   /\ d.ost = hook[u].app.nids
             /\ d.mgs => disk[u].mgs \/ hook[u].pc = "mgs"
<1>1. \A d \in PartlyProvisioned(u) \cup {Formatted(u)} : d \in Disk /\ Good(d)
  <2>1. hook[u].pc = "mgs" => Good(FormatMgs(disk[u]))
    BY <1>0 DEF FormatMgs, Disk
  <2>2. hook[u].pc = "oss" => Good(FormatOst(disk[u], hook[u].app.nids))
    BY <1>0 DEF FormatOst, Disk
  <2>3. Good(Formatted(u))
    <3>1. CASE hook[u].pc = "mgs"
      <4>1. Formatted(u) = FormatMgs(disk[u])
        BY <3>1 DEF Formatted
      <4> HIDE DEF Good
      <4> QED
        BY <2>1, <3>1, <4>1
    <3>2. CASE hook[u].pc = "oss"
      <4>1. Formatted(u) = FormatOst(disk[u], hook[u].app.nids)
        BY <3>2 DEF Formatted
      <4> HIDE DEF Good
      <4> QED
        BY <2>2, <3>2, <4>1
    <3>3. CASE hook[u].pc \notin {"mgs", "oss"}
      BY <3>3 DEF Formatted
    <3> QED
      BY <3>1, <3>2, <3>3
  <2> QED
    BY <2>3, PartlyProvisionedType DEF PartlyProvisioned
<1>2. \A d \in Disk, k \in Kinds : /\ Mount(d, k) \in Disk
                                  /\ Mount(d, k).ost = d.ost /\ Mount(d, k).mgs = d.mgs
  BY DiskType, CommandGrows, NidsFacts
<1>3. CASE MgsMdsSetup(u)
  <2>1. Formatted(u) = FormatMgs(disk[u])
    BY <1>3 DEF MgsMdsSetup, Formatted
  <2>2. PICK d : /\ disk' = [disk EXCEPT ![u] = d]
                 /\ d \in PartlyProvisioned(u) \/ d = Mount(Formatted(u), "mgt-mdt")
    BY <1>3, <2>1 DEF MgsMdsSetup
  <2>3. Good(d)
    BY <1>1, <1>2, <2>2 DEF Kinds
  <2> QED
    BY <1>0, <2>2, <2>3
<1>4. CASE OssSetup(u)
  <2>1. Formatted(u) = FormatOst(disk[u], hook[u].app.nids)
    BY <1>4 DEF OssSetup, Formatted
  <2>2. PICK d : /\ disk' = [disk EXCEPT ![u] = d]
                 /\ d \in PartlyProvisioned(u) \/ d = Mount(Formatted(u), "ost")
    BY <1>4, <2>1 DEF OssSetup
  <2>3. Good(d)
    BY <1>1, <1>2, <2>2 DEF Kinds
  <2> QED
    BY <1>0, <2>2, <2>3
<1>5. CASE Crash(u)
  BY <1>0, <1>1, <1>5 DEF Crash
<1>6. CASE Reboot(u)
  <2>1. PICK d \in PartlyProvisioned(u) :
           disk' = [disk EXCEPT ![u] = [d EXCEPT !.mounted = {}]]
    BY <1>6 DEF Reboot
  <2>2. d \in Disk /\ Good(d)
    BY <1>1, <2>1
  <2>3. [d EXCEPT !.mounted = {}].ost = d.ost /\ [d EXCEPT !.mounted = {}].mgs = d.mgs
    BY <2>2 DEF Disk
  <2> QED
    BY <1>0, <2>1, <2>2, <2>3
<1>7. CASE UNCHANGED disk
  BY <1>7
<1>8. CASE ~(MgsMdsSetup(u) \/ OssSetup(u) \/ Crash(u) \/ Reboot(u))
  <2>1. CASE HookStep(u)
    BY <1>7, <1>8, <2>1
    DEF HookStep, MgsNidsPublished, TryPublishFilesystemInfo, Flush, FlushRefused
  <2>2. CASE OnInstall(u) \/ OnUpdateStatus(u)
    BY <1>7, <2>2 DEF OnInstall, OnUpdateStatus
  <2>3. CASE OnStart(u)
    BY <1>7, <2>3 DEF OnStart
  <2>4. CASE \E v \in Units \cup {NoUnit} : OnRelationChanged(u, v)
    BY <1>7, <2>4 DEF OnRelationChanged
  <2>5. CASE Environment(u)
    BY <1>7, <1>8, <2>5 DEF Environment, Elect, Reattach, AddUnit, AttachStorage
  <2> QED
    BY <2>1, <2>2, <2>3, <2>4, <2>5 DEF Dispatch
<1> QED
  BY <1>3, <1>4, <1>5, <1>6, <1>8

LEMMA StepSafe ==
    ASSUME SafeInv, NEW u \in Units,
           HookStep(u) \/ Dispatch(u) \/ OnUpdateStatus(u) \/ Environment(u)
    PROVE  SafeInv'
<1>0. TypeOK /\ HookInv /\ PromotedMgsExists /\ ReadyIsProvisioned
      /\ hook \in [Units -> Hook] /\ bag \in [Units -> UnitData] /\ app \in AppData
      /\ \A v \in Units : hook[v] \in Hook /\ bag[v].nids \in NidsOrNone
  BY DEF SafeInv, TypeOK, UnitData
<1>1. TypeOK'
  BY <1>0, StepType
<1>2. Grows(disk, disk')
  BY <1>0, DiskGrows
<1>3. PICK x : hook' = [hook EXCEPT ![u] = x] /\ HookOk(disk', u, x)
  BY StepAllowed DEF Allowed
<1>4. \A v \in Units : HookOk(disk', v, hook'[v])
  <2> TAKE v \in Units
  <2>1. CASE v = u
    BY <1>0, <1>3, <2>1
  <2>2. CASE v # u
    <3>1. hook'[v] = hook[v] /\ HookOk(disk, v, hook[v])
      BY <1>0, <1>3, <2>2 DEF HookInv
    <3> QED
      BY <1>0, <1>2, <3>1, HookOkGrows
  <2> QED
    BY <2>1, <2>2
<1>5. \A v \in Units :
        /\ PublishedFromMgs(disk', v, bag[v].nids)
        /\ bag[v].ready => Provisioned(disk', v)
        /\ HookOk(disk', v, hook[v])
  BY <1>0, <1>2, HookOkGrows DEF HookInv, ReadyIsProvisioned
<1>6. PromotedFromMgs(disk', app)
  BY <1>0, <1>2, HookOkGrows DEF PromotedMgsExists
<1>7. /\ \A v \in Units :
           /\ PublishedFromMgs(disk', v, bag'[v].nids)
           /\ bag'[v].ready => Provisioned(disk', v)
      /\ PromotedFromMgs(disk', app')
  <2>1. CASE app' = app /\ bag' = bag
    BY <1>5, <1>6, <2>1
  <2>2. CASE Flush(u)
    <3>1. bag' = [bag EXCEPT ![u] = [ready |-> hook[u].ready, nids |-> hook[u].nids]]
          /\ app' \in {app, hook[u].app}
      BY <2>2 DEF Flush
    <3> QED
      BY <1>0, <1>5, <1>6, <3>1 DEF HookOk
  <2> QED
    BY <2>1, <2>2, DatabagSteps
<1>8. \A v \in Units : disk'[v].ost # NoNids => disk'[disk'[v].ost.host].mgs
  <2> SUFFICES ASSUME NEW v \in Units, disk'[v].ost # NoNids
               PROVE  disk'[disk'[v].ost.host].mgs
    OBVIOUS
  <2>1. CASE disk'[v].ost = disk[v].ost
    <3>1. disk[v].ost.host \in Units
      BY <1>0, <2>1 DEF TypeOK, Disk, NidsOrNone, Nids
    <3> QED
      BY <1>0, <1>2, <2>1, <3>1 DEF PromotedMgsExists, Grows
  <2>2. CASE v = u /\ Promoted(hook[u].app) /\ disk'[u].ost = hook[u].app.nids
    BY <1>5, <2>2 DEF HookOk, PromotedFromMgs
  <2> QED
    BY <1>0, <2>1, <2>2, TargetSteps
<1>9. HookInv' /\ PromotedMgsExists' /\ ReadyIsProvisioned'
  BY <1>4, <1>7, <1>8 DEF HookInv, PromotedMgsExists, ReadyIsProvisioned
<1> QED
  BY <1>1, <1>9 DEF SafeInv

LEMMA SafeInvInductive ==
    /\ Init => SafeInv
    /\ SafeInv /\ [Next]_vars => SafeInv'
<1>1. Init => SafeInv
  <2> SUFFICES ASSUME Init PROVE SafeInv
    OBVIOUS
  <2>1. /\ app = NoApp
        /\ \A u \in Units : disk[u] = BlankDisk /\ hook[u] = Idle
                           /\ bag[u].nids = NoNids /\ bag[u].ready = FALSE
    BY DEF Init
  <2>2. \A u \in Units : HookOk(disk, u, Idle)
    BY HookOkUpdates
  <2>3. PromotedMgsExists /\ ReadyIsProvisioned
    BY <2>1, NidsFacts
    DEF PromotedMgsExists, ReadyIsProvisioned, PromotedFromMgs, BlankDisk
  <2>4. HookInv
    BY <2>1, <2>2 DEF HookInv, PublishedFromMgs
  <2> QED
    BY <2>3, <2>4, InitType DEF SafeInv
<1>2. SafeInv /\ [Next]_vars => SafeInv'
  <2> SUFFICES ASSUME SafeInv, [Next]_vars PROVE SafeInv'
    OBVIOUS
  <2>1. CASE Next
    BY <2>1, StepSafe DEF Next
  <2>2. CASE UNCHANGED vars
    BY <2>2 DEF vars, machine, data, SafeInv, TypeOK, HookInv, PromotedMgsExists,
                ReadyIsProvisioned
  <2> QED
    BY <2>1, <2>2
<1> QED
  BY <1>1, <1>2

-----------------------------------------------------------------------------
(* Every variable keeps its type. *)
THEOREM TypeCorrect == Spec => []TypeOK
<1>1. SafeInv => TypeOK
  BY DEF SafeInv
<1> QED
  BY <1>1, SafeInvInductive, PTL DEF Spec

(* Whatever is elected, crashes, reboots or fails, and when: the promoted MGS
   was formatted on its unit and published its own NIDs, and every OST belongs to a
   formatted MGS (lustre_peer.py:87-115, 229-294). *)
THEOREM ProvisionedBeforeAnnounced == Spec => []PromotedMgsExists
<1>1. SafeInv => PromotedMgsExists
  BY DEF SafeInv
<1> QED
  BY <1>1, SafeInvInductive, PTL DEF Spec

(* A unit that reports ready has a formatted target, and keeps it, although ready is
   never taken back and the report outlives crashes, reboots and failed set-ups
   (lustre_peer.py:159-168, 185-189; charm.py:194-196). *)
THEOREM ReadyMeansProvisioned == Spec => []ReadyIsProvisioned
<1>1. SafeInv => ReadyIsProvisioned
  BY DEF SafeInv
<1> QED
  BY <1>1, SafeInvInductive, PTL DEF Spec

(* The same is true of what no hook has flushed yet: NIDs in a unit databag, or on
   their way to it or to the app databag, come from an MGS that is formatted on
   their own unit, a hook about to promote has NIDs, and one about to format an
   OST has an MGS (lustre_peer.py:87-126, 251-294). *)
THEOREM HooksProvisionFirst == Spec => []HookInv
<1>1. SafeInv => HookInv
  BY DEF SafeInv
<1> QED
  BY <1>1, SafeInvInductive, PTL DEF Spec

-----------------------------------------------------------------------------
(* The promoted MGS never changes, if a unit is elected only between two of its
   hooks: then the leader's hook never acts on a databag older than app. *)

(* LeaderView for a hook h of the leader. *)
Current(h) == h.pc \in Running => IF h.writes THEN ~Promoted(app) ELSE h.app = app

LEMMA CurrentUpdates ==
    ASSUME NEW h \in Hook
    PROVE  /\ Current(Idle) /\ \A e : Current(Failed(e))
           /\ (h.pc \in Running /\ Current(h)) =>
                /\ Current([h EXCEPT !.pc = "commit"])
                /\ Current([h EXCEPT !.pc = "commit", !.refresh = FALSE])
                /\ Current([h EXCEPT !.pc = "publish", !.ready = TRUE])
                /\ \A e : Current([h EXCEPT !.pc = "commit", !.endpoint = e])
                /\ \A n : Current([h EXCEPT !.pc = "promote", !.nids = n])
<1>1. Current(Idle) /\ \A e : Current(Failed(e))
  BY DEF Current, Idle, Failed, AtRest, Running
<1>2. ASSUME h.pc \in Running, Current(h)
      PROVE  /\ Current([h EXCEPT !.pc = "commit"])
             /\ Current([h EXCEPT !.pc = "commit", !.refresh = FALSE])
             /\ Current([h EXCEPT !.pc = "publish", !.ready = TRUE])
             /\ \A e : Current([h EXCEPT !.pc = "commit", !.endpoint = e])
             /\ \A n : Current([h EXCEPT !.pc = "promote", !.nids = n])
  BY <1>2 DEF Current, Hook
<1> QED
  BY <1>1, <1>2

(* A hook that has the committed databag and has not written it, and the same
   hook after a promotion, whatever step comes next. *)
Fresh(h) == IF h.writes THEN ~Promoted(app) ELSE h.app = app

LEMMA FreshUpdates ==
    ASSUME NEW h \in Hook, Fresh(h), NEW u \in Units
    PROVE  /\ \A v, n : Fresh(PromoteMgsNids(h, v, n))
           /\ Current([h EXCEPT !.pc = "commit", !.refresh = FALSE])
           /\ Current([h EXCEPT !.pc = "publish", !.ready = TRUE])
           /\ Current(ToMgsMds(u, h)) /\ Current(ToOss(h))
<1>1. ASSUME NEW v, NEW n
      PROVE  Fresh(PromoteMgsNids(h, v, n))
  <2>1. CASE Promoted(h.app)
    BY <2>1 DEF PromoteMgsNids
  <2>2. CASE ~Promoted(h.app)
    <3>1. PromoteMgsNids(h, v, n).writes = TRUE
      BY <2>2 DEF PromoteMgsNids, Hook
    <3>2. ~Promoted(app)
      BY <2>2 DEF Fresh
    <3> QED
      BY <3>1, <3>2 DEF Fresh
  <2> QED
    BY <2>1, <2>2
<1>2. /\ Current([h EXCEPT !.pc = "commit", !.refresh = FALSE])
      /\ Current([h EXCEPT !.pc = "publish", !.ready = TRUE])
      /\ Current(ToMgsMds(u, h)) /\ Current(ToOss(h))
  BY DEF Fresh, Current, Hook, ToMgsMds, ToOss
<1> QED
  BY <1>1, <1>2

LEMMA DispatchedFresh ==
    ASSUME TypeOK, NEW u \in Units, NEW e \in Events
    PROVE  /\ Fresh([Dispatched(u, e) EXCEPT !.refresh = TRUE])
           /\ \A s : Fresh([Dispatched(u, e) EXCEPT !.refresh = TRUE, !.stale = s])
<1>1. Dispatched(u, e) \in Hook /\ AtRest("idle", e) \in Hook
  BY DispatchedType, AtRestType
<1>2. Dispatched(u, e).writes = FALSE /\ Dispatched(u, e).app = app
  BY <1>1 DEF Dispatched, AtRest, Hook
<1> QED
  BY <1>1, <1>2 DEF Fresh, Hook

LEMMA StopCurrent ==
    ASSUME TypeOK, NEW u \in Units, NEW h \in Hook, NEW s, StopWith(u, h, s), Fresh(h)
    PROVE  Current(hook'[u])
BY FreshUpdates DEF StopWith, Become, TypeOK

(* The steps of the leader keep its view current. *)
LEMMA LeaderHookCurrent ==
    ASSUME SafeInv, LeaderView, NEW u \in Units, u = leader,
           HookStep(u) \/ Dispatch(u) \/ OnUpdateStatus(u) \/ Environment(u)
    PROVE  Current(hook'[u])
<1>0. TypeOK /\ hook \in [Units -> Hook] /\ hook[u] \in Hook /\ Current(hook[u])
  BY DEF SafeInv, TypeOK, LeaderView, InHook, Current
<1>1. hook[u].pc \in Running => Fresh(hook[u])
  BY <1>0 DEF Current, Fresh
<1>2. CASE OnStart(u)
  <2> DEFINE h == [Dispatched(u, Start) EXCEPT !.refresh = TRUE]
  <2>1. h \in Hook /\ Fresh(h)
    BY <1>0, DispatchedType, DispatchedFresh, EventFacts DEF Hook
  <2>2. \/ Become(u, Idle) \/ Become(u, Failed(Start)) \/ Become(u, ToMgsMds(u, h))
        \/ Become(u, ToOss(h))
    BY <1>2 DEF OnStart, StorageUnavailable
  <2> HIDE DEF h
  <2> QED
    BY <1>0, <2>1, <2>2, FreshUpdates, CurrentUpdates DEF Become
<1>3. CASE \E v \in Units \cup {NoUnit} : OnRelationChanged(u, v)
  <2>1. PICK v \in Units \cup {NoUnit} : OnRelationChanged(u, v)
    BY <1>3
  <2> DEFINE seen == [Dispatched(u, Changed(v)) EXCEPT
                       !.refresh = TRUE,
                       !.stale = IF Observes(u, v) /\ ~bag[v].ready THEN {v} ELSE {}]
             h == IF Candidate(u, v) THEN PromoteMgsNids(seen, v, bag[v].nids) ELSE seen
  <2>2. seen \in Hook /\ h \in Hook /\ Fresh(seen)
    BY <1>0, ObservedType, DispatchedFresh, EventFacts
  <2>3. PromotionRefused(u, v, seen.app) \/ Reconfigure(u, h)
    BY <2>1 DEF OnRelationChanged
  <2> HIDE DEF seen
  <2>4. Fresh(h)
    BY <2>2, FreshUpdates
  <2> HIDE DEF h
  <2>5. CASE StopWith(u, h, status[u])
    BY <1>0, <2>2, <2>4, <2>5, StopCurrent
  <2>6. \/ Become(u, Idle) \/ Become(u, ToOss(h)) \/ StopWith(u, h, status[u])
        \/ Become(u, [h EXCEPT !.pc = "publish", !.ready = TRUE])
    BY <2>3 DEF PromotionRefused, Reconfigure
  <2> QED
    BY <1>0, <2>2, <2>4, <2>5, <2>6, FreshUpdates, CurrentUpdates DEF Become
<1>4. CASE MgsNidsPublished(u)
  <2> DEFINE p == PromoteMgsNids(hook[u], u, hook[u].nids)
  <2>1. hook[u].pc \in Running /\ Fresh(hook[u])
    BY <1>1, <1>4 DEF MgsNidsPublished, Running
  <2>2. hook[u].nids \in Nids
    BY <1>0, <1>4 DEF SafeInv, HookInv, HookOk, MgsNidsPublished, Hook, NidsOrNone
  <2>3. p \in Hook /\ Fresh(p)
    BY <1>0, <2>1, <2>2, PromoteType, FreshUpdates
  <2> HIDE DEF p
  <2>4. \/ Become(u, [hook[u] EXCEPT !.pc = "commit"])
        \/ Become(u, [p EXCEPT !.pc = "publish", !.ready = TRUE])
        \/ StopWith(u, hook[u], "blocked")
    BY <1>4 DEF MgsNidsPublished, p
  <2>5. CASE StopWith(u, hook[u], "blocked")
    BY <1>0, <2>1, <2>5, StopCurrent
  <2> QED
    BY <1>0, <2>1, <2>3, <2>4, <2>5, FreshUpdates, CurrentUpdates DEF Become
<1>5. CASE MgsMdsSetup(u) \/ OssSetup(u) \/ TryPublishFilesystemInfo(u)
  <2>1. hook[u].pc \in Running /\ Fresh(hook[u])
    BY <1>1, <1>5 DEF MgsMdsSetup, OssSetup, TryPublishFilesystemInfo, Running
  <2>2. CASE StopWith(u, hook[u], "blocked")
    BY <1>0, <2>1, <2>2, StopCurrent
  <2>3. \/ \E n : Become(u, [hook[u] EXCEPT !.pc = "promote", !.nids = n])
        \/ Become(u, [hook[u] EXCEPT !.pc = "publish", !.ready = TRUE])
        \/ \E e : Become(u, [hook[u] EXCEPT !.pc = "commit", !.endpoint = e])
        \/ StopWith(u, hook[u], "blocked")
    BY <1>5 DEF MgsMdsSetup, OssSetup, TryPublishFilesystemInfo
  <2>4. /\ Current([hook[u] EXCEPT !.pc = "publish", !.ready = TRUE])
        /\ \A e : Current([hook[u] EXCEPT !.pc = "commit", !.endpoint = e])
        /\ \A n : Current([hook[u] EXCEPT !.pc = "promote", !.nids = n])
    BY <1>0, <2>1, CurrentUpdates
  <2>5. CASE \E n : Become(u, [hook[u] EXCEPT !.pc = "promote", !.nids = n])
    <3>1. PICK n : Become(u, [hook[u] EXCEPT !.pc = "promote", !.nids = n])
      BY <2>5
    <3>2. hook'[u] = [hook[u] EXCEPT !.pc = "promote", !.nids = n]
      BY <1>0, <3>1 DEF Become
    <3>3. Current([hook[u] EXCEPT !.pc = "promote", !.nids = n])
      BY <2>4
    <3> QED
      BY <3>2, <3>3
  <2>6. CASE \E e : Become(u, [hook[u] EXCEPT !.pc = "commit", !.endpoint = e])
    <3>1. PICK e : Become(u, [hook[u] EXCEPT !.pc = "commit", !.endpoint = e])
      BY <2>6
    <3>2. hook'[u] = [hook[u] EXCEPT !.pc = "commit", !.endpoint = e]
      BY <1>0, <3>1 DEF Become
    <3>3. Current([hook[u] EXCEPT !.pc = "commit", !.endpoint = e])
      BY <2>4
    <3> QED
      BY <3>2, <3>3
  <2>7. CASE Become(u, [hook[u] EXCEPT !.pc = "publish", !.ready = TRUE])
    BY <1>0, <2>4, <2>7 DEF Become
  <2> QED
    BY <2>2, <2>3, <2>5, <2>6, <2>7
<1>6. CASE \/ OnInstall(u) \/ Flush(u) \/ FlushRefused(u) \/ OnUpdateStatus(u)
           \/ Environment(u)
  <2>1. Become(u, Idle) \/ (\E e : Become(u, Failed(e))) \/ hook' = hook
        \/ Become(u, hook[u])
    BY <1>6 DEF OnInstall, Flush, FlushRefused, OnUpdateStatus, Environment, Elect,
                Crash, Reboot, Reattach, AddUnit, AttachStorage
  <2> QED
    BY <1>0, <2>1, CurrentUpdates DEF Become
<1> QED
  BY <1>2, <1>3, <1>4, <1>5, <1>6 DEF HookStep, Dispatch

(* A unit that is not the leader does not write app; the leader writes it once. *)
LEMMA AppStep ==
    ASSUME SafeInv, LeaderView, NEW u \in Units,
           HookStep(u) \/ Dispatch(u) \/ OnUpdateStatus(u) \/ Environment(u)
    PROVE  /\ Promoted(app) => app' = app
           /\ u # leader => app' = app
<1>1. CASE Flush(u)
  <2>1. hook[u].writes => leader = u /\ InHook(u)
    BY <1>1 DEF Flush, NeedsLeadership, InHook, Running
  <2>2. hook[u].writes => ~Promoted(app)
    BY <2>1 DEF LeaderView
  <2> QED
    BY <1>1, <2>1, <2>2 DEF Flush
<1> QED
  BY <1>1, DatabagSteps

LEMMA LeaderViewStep ==
    ASSUME SettledElections, SafeInv, LeaderView, NEW u \in Units,
           HookStep(u) \/ Dispatch(u) \/ OnUpdateStatus(u) \/ Environment(u)
    PROVE  LeaderView'
<1>0. TypeOK /\ hook \in [Units -> Hook] /\ leader \in Units
  BY DEF SafeInv, TypeOK
<1>1. CASE Elect(u)
  BY <1>1 DEF Elect, LeaderView, InHook
<1>2. CASE leader' = leader /\ u = leader
  <2>1. Current(hook'[u])
    BY <1>2, LeaderHookCurrent
  <2>2. CASE Flush(u)
    BY <1>0, <1>2, <2>2
    DEF Flush, Become, LeaderView, InHook, Idle, AtRest, Running
  <2>3. CASE app' = app
    BY <1>2, <2>1, <2>3 DEF Current, LeaderView, InHook, Promoted
  <2> QED
    BY <2>2, <2>3, DatabagSteps
<1>3. CASE leader' = leader /\ u # leader
  <2>1. PICK x : hook' = [hook EXCEPT ![u] = x]
    BY StepAllowed DEF Allowed
  <2>2. hook'[leader] = hook[leader]
    BY <1>0, <1>3, <2>1
  <2>3. app' = app
    BY <1>3, AppStep
  <2> QED
    BY <1>3, <2>2, <2>3 DEF LeaderView, InHook, Promoted
<1>4. Elect(u) \/ leader' = leader
  BY DEF HookStep, Dispatch, Environment, MgsMdsSetup, MgsNidsPublished, OssSetup,
         TryPublishFilesystemInfo, Flush, FlushRefused, OnInstall, OnStart,
         OnRelationChanged, OnUpdateStatus, Crash, Reboot, Reattach, AddUnit,
         AttachStorage
<1> QED
  BY <1>1, <1>2, <1>3, <1>4

LeaderInv == SafeInv /\ LeaderView

LEMMA LeaderInvInductive ==
    ASSUME SettledElections
    PROVE  /\ Init => LeaderInv
           /\ LeaderInv /\ [Next]_vars => LeaderInv'
<1>1. Init => LeaderInv
  <2> SUFFICES ASSUME Init PROVE LeaderView
    BY SafeInvInductive DEF LeaderInv
  <2> QED
    BY UnitsAssumption DEF Init, LeaderView, InHook, Idle, AtRest, Running
<1>2. LeaderInv /\ [Next]_vars => LeaderInv'
  <2> SUFFICES ASSUME LeaderInv, [Next]_vars PROVE LeaderView'
    BY SafeInvInductive DEF LeaderInv
  <2>1. CASE Next
    BY <2>1, LeaderViewStep DEF LeaderInv, Next
  <2>2. CASE UNCHANGED vars
    BY <2>2 DEF LeaderInv, vars, data, LeaderView, InHook, Promoted
  <2> QED
    BY <2>1, <2>2
<1> QED
  BY <1>1, <1>2

(* "Never overwrites" (lustre_peer.py:232-233), for any number of units with
   MGT/MDT storage, elections, crashes and faults, with elections settled. *)
THEOREM MgsWriteOnce ==
    ASSUME SettledElections
    PROVE  Spec => MgsStable
<1>1. Init => LeaderInv
  BY LeaderInvInductive
<1>2. LeaderInv /\ [Next]_vars => LeaderInv'
  BY LeaderInvInductive
<1>3. LeaderInv /\ [Next]_vars => [Promoted(app) => app' = app]_vars
  BY AppStep DEF LeaderInv, Next
<1> QED
  BY <1>1, <1>2, <1>3, PTL DEF Spec, MgsStable

(* With elections settled, the leader never acts on an outdated app databag: its
   hook sees the committed one, or is the only one that writes it, for the first
   time (lustre_peer.py:87-115, 229-249). *)
THEOREM LeaderSeesCommitted ==
    ASSUME SettledElections
    PROVE  Spec => []LeaderView
<1>1. LeaderInv => LeaderView
  BY DEF LeaderInv
<1> QED
  BY <1>1, LeaderInvInductive, PTL DEF Spec

-----------------------------------------------------------------------------
(* The units implement MgsRegistry.  An endpoint that a hook is about to write
   names the MGS of that hook. *)

EndpointOk(h) == h.endpoint # NoNids => h.pc = "commit" /\ h.endpoint = h.app.nids
EndpointInv == \A u \in Units : EndpointOk(hook[u])

(* Before the publication no step of a hook sets an endpoint. *)
LEMMA NoEndpointUpdates ==
    ASSUME NEW h \in Hook, h.endpoint = NoNids, NEW u \in Units
    PROVE  /\ \A v, n : PromoteMgsNids(h, v, n).endpoint = NoNids
           /\ EndpointOk(ToMgsMds(u, h)) /\ EndpointOk(ToOss(h))
           /\ EndpointOk([h EXCEPT !.pc = "commit"])
           /\ EndpointOk([h EXCEPT !.pc = "commit", !.refresh = FALSE])
           /\ EndpointOk([h EXCEPT !.pc = "publish", !.ready = TRUE])
           /\ \A n : EndpointOk([h EXCEPT !.pc = "promote", !.nids = n])
<1>1. \A v, n : PromoteMgsNids(h, v, n).endpoint = NoNids
  BY DEF PromoteMgsNids, Hook
<1>2. /\ EndpointOk(ToMgsMds(u, h)) /\ EndpointOk(ToOss(h))
      /\ EndpointOk([h EXCEPT !.pc = "commit"])
      /\ EndpointOk([h EXCEPT !.pc = "commit", !.refresh = FALSE])
      /\ EndpointOk([h EXCEPT !.pc = "publish", !.ready = TRUE])
      /\ \A n : EndpointOk([h EXCEPT !.pc = "promote", !.nids = n])
  BY DEF EndpointOk, Hook, ToMgsMds, ToOss
<1> QED
  BY <1>1, <1>2

LEMMA RestingEndpoint == EndpointOk(Idle) /\ \A e : EndpointOk(Failed(e))
BY DEF EndpointOk, Idle, Failed, AtRest

LEMMA DispatchedEndpoint ==
    ASSUME TypeOK, NEW u \in Units, NEW e \in Events
    PROVE  /\ [Dispatched(u, e) EXCEPT !.refresh = TRUE].endpoint = NoNids
           /\ \A s : [Dispatched(u, e) EXCEPT !.refresh = TRUE, !.stale = s].endpoint = NoNids
<1>1. Dispatched(u, e) \in Hook /\ AtRest("idle", e) \in Hook
  BY DispatchedType, AtRestType
<1>2. Dispatched(u, e).endpoint = NoNids
  BY <1>1 DEF Dispatched, AtRest, Hook
<1> QED
  BY <1>1, <1>2 DEF Hook

EndpointKept(u) == \E x : hook' = [hook EXCEPT ![u] = x] /\ EndpointOk(x)

LEMMA EndpointStep ==
    ASSUME SafeInv, EndpointInv, NEW u \in Units,
           HookStep(u) \/ Dispatch(u) \/ OnUpdateStatus(u) \/ Environment(u)
    PROVE  EndpointKept(u)
<1>0. TypeOK /\ hook \in [Units -> Hook] /\ hook[u] \in Hook /\ EndpointOk(hook[u])
  BY DEF SafeInv, TypeOK, EndpointInv
<1>1. hook[u].pc # "commit" => hook[u].endpoint = NoNids
  BY <1>0 DEF EndpointOk
<1>2. CASE OnStart(u)
  <2> DEFINE h == [Dispatched(u, Start) EXCEPT !.refresh = TRUE]
  <2>1. h \in Hook /\ h.endpoint = NoNids
    BY <1>0, DispatchedType, DispatchedEndpoint, EventFacts DEF Hook
  <2>2. \/ Become(u, Idle) \/ Become(u, Failed(Start)) \/ Become(u, ToMgsMds(u, h))
        \/ Become(u, ToOss(h))
    BY <1>2 DEF OnStart, StorageUnavailable
  <2> HIDE DEF h
  <2> QED
    BY <2>1, <2>2, NoEndpointUpdates, RestingEndpoint DEF Become, EndpointKept
<1>3. CASE \E v \in Units \cup {NoUnit} : OnRelationChanged(u, v)
  <2>1. PICK v \in Units \cup {NoUnit} : OnRelationChanged(u, v)
    BY <1>3
  <2> DEFINE seen == [Dispatched(u, Changed(v)) EXCEPT
                       !.refresh = TRUE,
                       !.stale = IF Observes(u, v) /\ ~bag[v].ready THEN {v} ELSE {}]
             h == IF Candidate(u, v) THEN PromoteMgsNids(seen, v, bag[v].nids) ELSE seen
  <2>2. seen \in Hook /\ h \in Hook /\ seen.endpoint = NoNids
    BY <1>0, ObservedType, DispatchedEndpoint, EventFacts
  <2>3. PromotionRefused(u, v, seen.app) \/ Reconfigure(u, h)
    BY <2>1 DEF OnRelationChanged
  <2> HIDE DEF seen
  <2>4. h.endpoint = NoNids
    BY <2>2, NoEndpointUpdates
  <2> HIDE DEF h
  <2>5. \/ Become(u, Idle) \/ Become(u, ToOss(h))
        \/ Become(u, [h EXCEPT !.pc = "commit", !.refresh = FALSE])
        \/ Become(u, [h EXCEPT !.pc = "publish", !.ready = TRUE])
    BY <2>3 DEF PromotionRefused, Reconfigure, StopWith
  <2> QED
    BY <2>2, <2>4, <2>5, NoEndpointUpdates, RestingEndpoint DEF Become, EndpointKept
<1>4. CASE MgsNidsPublished(u)
  <2> DEFINE p == PromoteMgsNids(hook[u], u, hook[u].nids)
  <2>1. hook[u].endpoint = NoNids
    BY <1>1, <1>4 DEF MgsNidsPublished
  <2>2. hook[u].nids \in Nids
    BY <1>0, <1>4 DEF SafeInv, HookInv, HookOk, MgsNidsPublished, Hook, NidsOrNone
  <2>3. p \in Hook /\ p.endpoint = NoNids
    BY <1>0, <2>1, <2>2, PromoteType, NoEndpointUpdates
  <2> HIDE DEF p
  <2>4. \/ Become(u, [hook[u] EXCEPT !.pc = "commit"])
        \/ Become(u, [p EXCEPT !.pc = "publish", !.ready = TRUE])
        \/ Become(u, [hook[u] EXCEPT !.pc = "commit", !.refresh = FALSE])
    BY <1>4 DEF MgsNidsPublished, StopWith, p
  <2> QED
    BY <1>0, <2>1, <2>3, <2>4, NoEndpointUpdates DEF Become, EndpointKept
<1>5. CASE MgsMdsSetup(u) \/ OssSetup(u)
  <2>1. hook[u].endpoint = NoNids
    BY <1>1, <1>5 DEF MgsMdsSetup, OssSetup
  <2>2. \/ \E n : Become(u, [hook[u] EXCEPT !.pc = "promote", !.nids = n])
        \/ Become(u, [hook[u] EXCEPT !.pc = "publish", !.ready = TRUE])
        \/ Become(u, [hook[u] EXCEPT !.pc = "commit", !.refresh = FALSE])
    BY <1>5 DEF MgsMdsSetup, OssSetup, StopWith
  <2> QED
    BY <1>0, <2>1, <2>2, NoEndpointUpdates DEF Become, EndpointKept
<1>6. CASE TryPublishFilesystemInfo(u)
  <2>1. PICK e \in {hook[u].app.nids, NoNids} :
           Become(u, [hook[u] EXCEPT !.pc = "commit", !.endpoint = e])
    BY <1>6 DEF TryPublishFilesystemInfo
  <2>2. EndpointOk([hook[u] EXCEPT !.pc = "commit", !.endpoint = e])
    BY <1>0 DEF EndpointOk, Hook
  <2> QED
    BY <2>1, <2>2 DEF Become, EndpointKept
<1>7. CASE \/ OnInstall(u) \/ Flush(u) \/ FlushRefused(u) \/ OnUpdateStatus(u)
           \/ Environment(u)
  <2>1. Become(u, Idle) \/ (\E e : Become(u, Failed(e))) \/ hook' = hook
        \/ Become(u, hook[u])
    BY <1>7 DEF OnInstall, Flush, FlushRefused, OnUpdateStatus, Environment, Elect,
                Crash, Reboot, Reattach, AddUnit, AttachStorage
  <2>2. hook = [hook EXCEPT ![u] = hook[u]]
    BY <1>0
  <2> QED
    BY <1>0, <2>1, <2>2, RestingEndpoint DEF Become, EndpointKept
<1> QED
  BY <1>2, <1>3, <1>4, <1>5, <1>6, <1>7 DEF HookStep, Dispatch

LEMMA EndpointInvInductive ==
    /\ Init => EndpointInv
    /\ SafeInv /\ EndpointInv /\ [Next]_vars => EndpointInv'
<1>1. Init => EndpointInv
  BY RestingEndpoint DEF Init, EndpointInv
<1>2. ASSUME SafeInv, EndpointInv, NEW u \in Units, EndpointKept(u)
      PROVE  EndpointInv'
  BY <1>2 DEF EndpointKept, EndpointInv, SafeInv, TypeOK
<1>3. ASSUME SafeInv, EndpointInv, UNCHANGED vars PROVE EndpointInv'
  BY <1>3 DEF EndpointInv, vars
<1> QED
  BY <1>1, <1>2, <1>3, EndpointStep DEF Next

Formats == {u \in Units : disk[u].mgs}
RegistryStep == Registry!Next \/ UNCHANGED <<Formats, app, endpoint>>

LEMMA FlushRegisters ==
    ASSUME LeaderInv, EndpointInv, NEW u \in Units, Flush(u)
    PROVE  RegistryStep
<1> DEFINE h == hook[u]
<1>0. /\ h \in Hook /\ h.app \in AppData /\ app \in AppData /\ InHook(u)
      /\ UNCHANGED Formats
    BY DEF LeaderInv, SafeInv, TypeOK, Hook, Flush, InHook, Running, Formats
<1>1. \A a \in AppData : Promoted(a) \/ a = NoApp
    BY UnitsAssumption DEF AppData, Promoted, NoNids, Nids, NoApp
<1>2. h.endpoint # NoNids => leader = u /\ h.endpoint = h.app.nids /\ Promoted(h.app)
    BY <1>0, <1>1 DEF Flush, NeedsLeadership, EndpointInv, EndpointOk, NoApp
<1>3. CASE h.writes /\ Promoted(h.app)
  <2> DEFINE v == h.app.unit
             n == h.app.nids
  <2>1. leader = u /\ ~Promoted(app)
      BY <1>0, <1>3 DEF Flush, NeedsLeadership, LeaderInv, LeaderView
  <2>2. app = NoApp
      BY <1>0, <1>1, <2>1
  <2>3. v \in Units /\ n \in Nids /\ n.host = v /\ v \in Formats
      BY <1>0, <1>3, NidsFacts DEF LeaderInv, SafeInv, HookInv, HookOk, PromotedFromMgs, Formats
  <2>4. PICK a \in Addresses : n = [host |-> v, addr |-> a]
      BY <2>3 DEF Nids
  <2>5. app' = [unit |-> v, nids |-> n]
    <3>1. h.app = [unit |-> v, nids |-> n]
        BY <1>0, <1>3, NidsFacts DEF AppData
    <3> QED
        BY <1>3, <3>1 DEF Flush
  <2>6. endpoint' \in {endpoint, n}
      BY <1>2 DEF Flush
  <2>7. Registry!Choose(v, [host |-> v, addr |-> a])
      BY <1>0, <2>2, <2>3, <2>4, <2>5, <2>6 DEF Registry!Choose, Formats
  <2> QED
      BY <2>3, <2>7 DEF RegistryStep, Registry!Next
<1>4. CASE ~(h.writes /\ Promoted(h.app))
  <2>1. app' = app
    <3>1. CASE h.writes
        BY <1>0, <1>1, <1>4, <3>1, NidsFacts
           DEF Flush, NeedsLeadership, LeaderInv, LeaderView
    <3>2. CASE ~h.writes
        BY <3>2 DEF Flush
    <3> QED
        BY <3>1, <3>2
  <2>2. CASE h.endpoint = NoNids
      BY <1>0, <2>1, <2>2 DEF Flush, RegistryStep
  <2>3. CASE h.endpoint # NoNids
    <3>1. h.app = app
        BY <1>0, <1>2, <1>4, <2>3 DEF LeaderInv, LeaderView
    <3>2. app # NoApp /\ endpoint' = app.nids
        BY <1>2, <2>3, <3>1, NidsFacts DEF Flush
    <3>3. Registry!Offer
        BY <1>0, <2>1, <3>2 DEF Registry!Offer, Formats
    <3> QED
        BY <3>3 DEF RegistryStep, Registry!Next
  <2> QED
      BY <2>2, <2>3
<1> QED
    BY <1>3, <1>4

LEMMA DiskRegisters ==
    ASSUME LeaderInv, NEW u \in Units, UNCHANGED <<app, endpoint>>,
           HookStep(u) \/ Dispatch(u) \/ OnUpdateStatus(u) \/ Environment(u)
    PROVE  RegistryStep
<1>1. \A v \in Units \ {u} : disk'[v] = disk[v]
    BY TargetSteps DEF LeaderInv, SafeInv
<1>2. disk[u].mgs => disk'[u].mgs
    BY DiskGrows DEF LeaderInv, SafeInv, Grows
<1>3. Formats' = Formats \/ Formats' = Formats \cup {u}
    BY <1>1, <1>2 DEF Formats
<1>4. CASE Formats' = Formats
    BY <1>4 DEF RegistryStep
<1>5. CASE Formats' = Formats \cup {u}
  <2>1. Registry!Format(u)
      BY <1>5 DEF Registry!Format, Formats
  <2> QED
      BY <2>1 DEF RegistryStep, Registry!Next
<1> QED
    BY <1>3, <1>4, <1>5

(* With elections settled, the units together are an MgsRegistry: one MGS that was
   formatted, chosen once, and clients are offered no other, for any number of
   candidates, elections, crashes and faults (lustre_peer.py:229-249, 321-332). *)
THEOREM PeerImplementsRegistry ==
    ASSUME SettledElections
    PROVE  Spec => ImplementsRegistry
<1> DEFINE RInv == LeaderInv /\ EndpointInv
<1>1. Init => RInv /\ Registry!Init
  <2> SUFFICES ASSUME Init PROVE Registry!Init
    BY LeaderInvInductive, EndpointInvInductive
  <2> QED
    BY DEF Init, Registry!Init, BlankDisk
<1>2. RInv /\ [Next]_vars => RInv'
  BY LeaderInvInductive, EndpointInvInductive DEF LeaderInv
<1>3. RInv /\ [Next]_vars => [Registry!Next]_(Registry!vars)
  <2> SUFFICES ASSUME RInv, [Next]_vars PROVE RegistryStep
    BY DEF RegistryStep, Registry!vars, Formats
  <2>1. CASE UNCHANGED vars
    BY <2>1 DEF vars, data, RegistryStep, Formats
  <2>2. ASSUME NEW u \in Units,
               HookStep(u) \/ Dispatch(u) \/ OnUpdateStatus(u) \/ Environment(u)
        PROVE  RegistryStep
    BY <2>2, FlushRegisters, DiskRegisters, DatabagSteps
  <2> QED
    BY <2>1, <2>2 DEF Next
<1> QED
  BY <1>1, <1>2, <1>3, PTL DEF Spec, ImplementsRegistry, Registry!Spec
=============================================================================
