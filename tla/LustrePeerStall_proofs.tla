----------------------- MODULE LustrePeerStall_proofs ------------------------
(* No unit stalls silently: the proofs of NoSilentStall for a deployment with one
   unit that can become the MGS.  Either commands fail but no hook is cut short and
   nobody is elected, or there are elections and crashes but no failures. *)
EXTENDS LustrePeerDeployment_proofs

(* First, failures alone.  What is true of every unit v, whatever the others do. *)

(* No hook fails, and only the leader has something that needs leadership. *)
Calm(v) ==
    /\ usable[v] = TRUE /\ hook[v].pc # "failed"
    /\ NeedsLeadership(v) => v = leader

(* Nothing but storage-attached runs before install, and it does nothing. *)
Installed(v) ==
    /\ InHook(v) \/ software[v] # "none" => Install \notin pending[v]
    /\ hook[v].pc = "mgs" \/ disk[v].mounted # {} => software[v] # "none"
    /\ v \notin units => disk[v] = BlankDisk /\ software[v] = "none"

(* A mounted OST has been reported, or will be when the hook ends. *)
MountedReady(v) ==
    /\ disk[v].mounted \subseteq storage[v]
    /\ hook[v].pc = "oss" => "ost" \in storage[v]
    /\ "ost" \in disk[v].mounted => bag[v].ready \/ (InHook(v) /\ hook[v].ready)

(* A unit without software or storage shows Blocked; a hook that stops before it
   has set ready does, and any other refreshes the status at its end. *)
Shown(v) ==
    /\ v \in units /\ software[v] = "none" /\ Install \notin pending[v] =>
          status[v] = "blocked"
    /\ v \in units /\ storage[v] = {} /\ Install \notin pending[v]
          /\ Start \notin pending[v] => status[v] = "blocked"
    /\ hook[v].pc \in {"mgs", "promote", "oss", "publish"} => hook[v].refresh = TRUE
    /\ hook[v].pc = "commit" /\ hook[v].refresh = FALSE /\ hook[v].ready = FALSE =>
          status[v] = "blocked"

(* A unit will hear of a promotion that its hook has not seen; the promoted unit
   is ready, or will be. *)
Informed(v) ==
    /\ InHook(v) /\ Promoted(app) /\ ~Promoted(hook[v].app) =>
          Changed(NoUnit) \in pending[v]
    /\ hook[v].writes = TRUE /\ hook[v].app.unit = v => hook[v].ready = TRUE
    /\ Promoted(app) /\ app.unit = v =>
          bag[v].ready \/ Changed(NoUnit) \in pending[v] \/ (InHook(v) /\ hook[v].ready)

Accounted(v) ==
    Promoted(app) /\ v \in units /\ Quiet(v) /\ ~bag[v].ready => status[v] = "blocked"

UnitInv(v) ==
    Calm(v) /\ Installed(v) /\ MountedReady(v) /\ Shown(v) /\ Informed(v) /\ Accounted(v)

StallInv == OnceInv /\ UnitsInv /\ ReadyInv /\ \A v \in Units : UnitInv(v)

LEMMA StallFacts ==
    ASSUME StallInv, NEW u \in Units
    PROVE  /\ OnceInv /\ RoleInv /\ SafeInv /\ TypeOK /\ HookInv
           /\ UnitsInv /\ ReadyInv /\ UnitInv(u)
           /\ hook \in [Units -> Hook] /\ hook[u] \in Hook /\ hook[u].app \in AppData
           /\ pending \in [Units -> SUBSET Events] /\ disk \in [Units -> Disk]
           /\ bag \in [Units -> UnitData] /\ storage \in [Units -> SUBSET Kinds]
           /\ usable \in [Units -> BOOLEAN] /\ app \in AppData
           /\ status \in [Units -> {"unknown", "maintenance", "waiting", "active",
                                    "blocked"}]
           /\ software \in [Units -> {"none", "packages", "lnet"}]
           /\ leader \in Units /\ units \subseteq Units
BY DEF StallInv, OnceInv, RoleInv, SafeInv, TypeOK, Hook

LEMMA IdleFacts ==
    /\ Idle.pc = "idle" /\ Idle.writes = FALSE /\ Idle.endpoint = NoNids
    /\ Idle.ready = FALSE
BY DEF Idle, AtRest

LEMMA StartFacts == Start # Install /\ \A v : Changed(v) \notin {Install, Start}
BY DEF Start, Install, Changed

-----------------------------------------------------------------------------
(* The steps of another unit. *)


(* They leave v as it is, and may add an event of the relation. *)
LEMMA OtherLeaves ==
    ASSUME TypeOK, NEW u \in Units, NEW v \in Units \ {u},
           HookStep(u) \/ Dispatch(u) \/ OnUpdateStatus(u) \/ Environment(u)
    PROVE  /\ status'[v] = status[v] /\ software'[v] = software[v]
           /\ storage'[v] = storage[v] /\ usable'[v] = usable[v]
           /\ pending[v] \subseteq pending'[v]
           /\ \A e \in pending'[v] \ pending[v] : \E w : e = Changed(w)
           /\ v \in units' <=> v \in units
           /\ app' # app /\ v \in units => Changed(NoUnit) \in pending'[v]
<1>0. /\ pending \in [Units -> SUBSET Events] /\ storage \in [Units -> SUBSET Kinds]
      /\ usable \in [Units -> BOOLEAN]
      /\ status \in [Units -> {"unknown", "maintenance", "waiting", "active", "blocked"}]
      /\ software \in [Units -> {"none", "packages", "lnet"}]
  BY DEF TypeOK
<1>1. CASE Flush(u)
  BY <1>0, <1>1 DEF Flush, SetStatus, machine
<1>2. CASE OnInstall(u)
  BY <1>0, <1>2 DEF OnInstall, SetStatus, data
<1>3. CASE OnStart(u)
  <2>1. \E x : SetStatus(u, x)
    BY <1>3 DEF OnStart, StorageUnavailable
  <2> QED
    BY <1>0, <1>3, <2>1 DEF OnStart, SetStatus, Consume, machine, data
<1>4. CASE \E w \in Units \cup {NoUnit} : OnRelationChanged(u, w)
  <2>1. PICK w \in Units \cup {NoUnit} : OnRelationChanged(u, w)
    BY <1>4
  <2>2. \A h : Reconfigure(u, h) => status'[v] = status[v]
    BY <1>0 DEF Reconfigure, StopWith, SetStatus
  <2>3. status'[v] = status[v]
    BY <1>0, <2>1, <2>2 DEF OnRelationChanged, PromotionRefused, SetStatus
  <2> QED
    BY <1>0, <2>1, <2>3 DEF OnRelationChanged, Consume, machine, data
<1>5. CASE MgsMdsSetup(u) \/ MgsNidsPublished(u) \/ OssSetup(u)
  BY <1>0, <1>5 DEF MgsMdsSetup, MgsNidsPublished, OssSetup, StopWith, SetStatus,
                    machine, data
<1>6. CASE TryPublishFilesystemInfo(u) \/ FlushRefused(u) \/ OnUpdateStatus(u)
  BY <1>0, <1>6 DEF TryPublishFilesystemInfo, FlushRefused, OnUpdateStatus, SetStatus,
                    machine, data
<1>7. CASE Elect(u) \/ Crash(u) \/ Reboot(u) \/ Reattach(u)
  BY <1>0, <1>7 DEF Elect, Crash, Reboot, Reattach, machine, data
<1>8. CASE AddUnit(u) \/ \E k \in Kinds : AttachStorage(u, k)
  BY <1>0, <1>8 DEF AddUnit, AttachStorage, machine, data
<1> QED
  BY <1>1, <1>2, <1>3, <1>4, <1>5, <1>6, <1>7, <1>8 DEF HookStep, Dispatch, Environment

LEMMA OtherUnit ==
    ASSUME MaxElections = 0, OneMgs, StallInv, NEW u \in Units, NEW v \in Units \ {u},
           HookStep(u) \/ Dispatch(u) \/ OnUpdateStatus(u) \/ Environment(u)
    PROVE  UnitInv(v)'
<1>0. /\ OnceInv /\ RoleInv /\ SafeInv /\ TypeOK /\ HookInv /\ UnitsInv /\ UnitInv(v)
      /\ hook \in [Units -> Hook] /\ bag \in [Units -> UnitData]
      /\ hook[u].app \in AppData
  BY StallFacts
<1>1. /\ hook'[v] = hook[v] /\ disk'[v] = disk[v] /\ leader' = leader
      /\ bag'[v] = bag[v]
  <2>1. PICK x : hook' = [hook EXCEPT ![u] = x] /\ Moves(u, x)
    BY <1>0, StepMoves
  <2>2. bag'[v] = bag[v]
    BY <1>0, DatabagSteps DEF Flush
  <2> QED
    BY <1>0, <2>1, <2>2, TargetSteps, LeaderFixed
<1>2. /\ status'[v] = status[v] /\ software'[v] = software[v]
      /\ storage'[v] = storage[v] /\ usable'[v] = usable[v]
      /\ pending[v] \subseteq pending'[v]
      /\ \A e \in pending'[v] \ pending[v] : \E w : e = Changed(w)
      /\ v \in units' <=> v \in units
      /\ app' # app /\ v \in units => Changed(NoUnit) \in pending'[v]
  BY <1>0, OtherLeaves
<1>3. (Install \in pending'[v] <=> Install \in pending[v])
      /\ (Start \in pending'[v] <=> Start \in pending[v])
  BY <1>2, StartFacts
<1>4. Calm(v)' /\ Installed(v)' /\ MountedReady(v)' /\ Shown(v)'
  <2>1. Calm(v)'
    BY <1>0, <1>1, <1>2 DEF UnitInv, Calm, NeedsLeadership
  <2>2. Installed(v)'
    BY <1>0, <1>1, <1>2, <1>3 DEF UnitInv, Installed, InHook, BlankDisk, Install
  <2>3. MountedReady(v)'
    BY <1>0, <1>1, <1>2 DEF UnitInv, MountedReady, InHook
  <2>4. Shown(v)'
    BY <1>0, <1>1, <1>2, <1>3 DEF UnitInv, Shown, Install, Start
  <2> QED
    BY <2>1, <2>2, <2>3, <2>4
<1>5. CASE app' = app
  <2>1. Informed(v)'
    BY <1>0, <1>1, <1>2, <1>5 DEF UnitInv, Informed, InHook, Promoted, Changed
  <2>2. Accounted(v)'
    BY <1>0, <1>1, <1>2, <1>5 DEF UnitInv, Accounted, Quiet, Promoted
  <2> QED
    BY <1>4, <2>1, <2>2 DEF UnitInv
<1>6. CASE app' # app
  <2>1. Promoted(app') /\ app' = hook[u].app
    BY <1>0, <1>6, AppKept
  <2>2. app'.unit = v => v \in units
    <3>1. disk[hook[u].app.unit].mgs
      BY <1>0, <2>1 DEF HookInv, HookOk, PromotedFromMgs
    <3> QED
      BY <1>0, <2>1, <3>1 DEF UnitInv, Installed, BlankDisk
  <2>3. InHook(v) => v \in units
    BY <1>0 DEF UnitsInv, InHook, Running
  <2>4. Informed(v)'
    BY <1>0, <1>1, <1>2, <1>6, <2>2, <2>3
    DEF UnitInv, Informed, InHook, Promoted, Changed
  <2>5. Accounted(v)'
    BY <1>2, <1>6 DEF Accounted, Quiet
  <2> QED
    BY <1>4, <2>4, <2>5 DEF UnitInv
<1> QED
  BY <1>5, <1>6

-----------------------------------------------------------------------------
(* The steps of the unit itself. *)

LEMMA InstallKeeps ==
    ASSUME StallInv, NEW u \in Units, OnInstall(u)
    PROVE  UnitInv(u)'
<1>0. /\ UnitInv(u) /\ UnitsInv /\ hook \in [Units -> Hook] /\ hook[u] \in Hook
      /\ pending \in [Units -> SUBSET Events] /\ usable' = usable /\ disk' = disk
      /\ software \in [Units -> {"none", "packages", "lnet"}] /\ TypeOK
      /\ bag' = bag /\ app' = app /\ storage' = storage /\ units' = units
      /\ leader' = leader
  BY StallFacts DEF OnInstall, data
<1>1. hook[u].pc = "idle" /\ Install \in pending[u] /\ software[u] = "none"
      /\ disk[u].mounted = {} /\ u \in units
  BY <1>0 DEF OnInstall, Dispatchable, UnitInv, Calm, Installed, UnitsInv
<1>2. hook'[u] = Idle /\ pending'[u] = (pending[u] \ {Install}) \cup {Start}
  BY <1>0 DEF OnInstall, Become
<1>3. software'[u] # "none" \/ status'[u] = "blocked"
  BY <1>0 DEF OnInstall, SetStatus, TypeOK
<1>4. Calm(u)' /\ Installed(u)' /\ MountedReady(u)'
  BY <1>0, <1>1, <1>2, IdleFacts, StartFacts
  DEF UnitInv, Calm, Installed, MountedReady, NeedsLeadership, InHook, Running,
      Install, Start
<1>5. Shown(u)'
  BY <1>2, <1>3, IdleFacts DEF Shown, Install, Start
<1>6. Informed(u)' /\ Accounted(u)'
  BY <1>0, <1>1, <1>2, IdleFacts, StartFacts
  DEF UnitInv, Informed, Accounted, InHook, Running, Quiet, Promoted, Changed
<1> QED
  BY <1>4, <1>5, <1>6 DEF UnitInv

(* CheckLustre keeps a Blocked status, and blocks a unit that sees an MGS, unless
   the target of its role is mounted. *)
LEMMA CheckBlocks ==
    ASSUME NEW u, NEW a, NEW e, e = "blocked" \/ Promoted(a),
           Promoted(a) => ~RoleMounted(u, a)
    PROVE  CheckLustre(u, a, e) = "blocked"
BY DEF CheckLustre

LEMMA StartKeeps ==
    ASSUME StallInv, NEW u \in Units, OnStart(u)
    PROVE  UnitInv(u)'
<1> DEFINE h == [Dispatched(u, Start) EXCEPT !.refresh = TRUE]
<1>0. /\ UnitInv(u) /\ UnitsInv /\ hook \in [Units -> Hook] /\ TypeOK
      /\ pending \in [Units -> SUBSET Events] /\ usable' = usable /\ disk' = disk
      /\ bag' = bag /\ app' = app /\ storage' = storage /\ units' = units
      /\ leader' = leader /\ software' = software
      /\ status \in [Units -> {"unknown", "maintenance", "waiting", "active", "blocked"}]
  BY StallFacts DEF OnStart, machine, data
<1>1. hook[u].pc = "idle" /\ Start \in pending[u] /\ u \in units
  BY <1>0 DEF OnStart, Dispatchable, UnitInv, Calm, UnitsInv
<1>2. pending'[u] = pending[u] \ {Start}
  BY <1>0, <1>1 DEF OnStart, Consume
<1>3. (Install \in pending'[u] <=> Install \in pending[u])
      /\ (Changed(NoUnit) \in pending'[u] <=> Changed(NoUnit) \in pending[u])
  BY <1>2, StartFacts
<1>4. /\ JustDispatched(u, Start, h) /\ h.refresh = TRUE
  <2>1. JustDispatched(u, Start, h)
    BY <1>0, DispatchedFacts, EventFacts
  <2>2. Dispatched(u, Start) \in Hook
    BY <1>0, DispatchedType, EventFacts
  <2> QED
    BY <2>1, <2>2 DEF Hook
<1>5. \/ software[u] = "none" /\ Become(u, Idle)
         /\ SetStatus(u, IF status[u] = "blocked" THEN "blocked" ELSE "maintenance")
      \/ software[u] # "none" /\ SetStatus(u, "blocked") /\ Become(u, Idle)
      \/ software[u] # "none" /\ storage[u] = {"mgt-mdt"} /\ Become(u, ToMgsMds(u, h))
      \/ software[u] # "none" /\ storage[u] = {"ost"} /\ Become(u, ToOss(h))
      \/ software[u] # "none" /\ storage[u] = {"ost"} /\ ~Promoted(h.app)
         /\ Become(u, Idle)
  BY <1>0 DEF OnStart, StorageUnavailable, UnitInv, Calm
<1> HIDE DEF h
<1>6. CASE Become(u, Idle)
  <2>1. hook'[u] = Idle
    BY <1>0, <1>6 DEF Become
  <2>2. Calm(u)' /\ Installed(u)' /\ MountedReady(u)'
    BY <1>0, <1>1, <1>2, <1>3, <2>1, IdleFacts
    DEF UnitInv, Calm, Installed, MountedReady, NeedsLeadership, InHook, Running, Install
  <2>3. Informed(u)'
    BY <1>0, <1>1, <1>3, <2>1, IdleFacts
    DEF UnitInv, Informed, InHook, Running, Promoted, Changed
  <2>4. CASE /\ software[u] = "none"
             /\ SetStatus(u, IF status[u] = "blocked" THEN "blocked" ELSE "maintenance")
    <3>1. Install \notin pending[u] => status'[u] = "blocked"
      BY <1>0, <1>1, <2>4 DEF SetStatus, UnitInv, Shown
    <3>2. Shown(u)' /\ Accounted(u)'
      BY <1>2, <1>3, <2>1, <3>1, IdleFacts DEF Shown, Accounted, Quiet, Install, Start
    <3> QED
      BY <2>2, <2>3, <3>2 DEF UnitInv
  <2>5. CASE SetStatus(u, "blocked")
    <3>1. status'[u] = "blocked"
      BY <1>0, <2>5 DEF SetStatus
    <3>2. Shown(u)' /\ Accounted(u)'
      BY <2>1, <3>1, IdleFacts DEF Shown, Accounted
    <3> QED
      BY <2>2, <2>3, <3>2 DEF UnitInv
  <2>6. CASE software[u] # "none" /\ storage[u] = {"ost"} /\ ~Promoted(h.app)
    <3>1. ~Promoted(app)
      BY <1>4, <2>6 DEF JustDispatched
    <3>2. Shown(u)' /\ Accounted(u)'
      BY <1>0, <2>1, <2>6, <3>1, IdleFacts DEF Shown, Accounted, Promoted
    <3> QED
      BY <2>2, <2>3, <3>2 DEF UnitInv
  <2>7. ~Become(u, ToMgsMds(u, h)) /\ ~Become(u, ToOss(h))
    <3>1. ToMgsMds(u, h).pc # "idle" /\ ToOss(h).pc # "idle"
      BY <1>4 DEF JustDispatched, ToMgsMds, ToOss, Hook
    <3> QED
      BY <1>0, <2>1, <3>1, IdleFacts DEF Become
  <2> QED
    BY <1>5, <2>4, <2>5, <2>6, <2>7
<1>7. ASSUME NEW x, Become(u, x), x.pc \in {"mgs", "oss"}, x.app = app,
             x.writes = FALSE, x.ready = bag[u].ready, x.endpoint = NoNids,
             x.refresh = TRUE, software[u] # "none", storage[u] # {},
             x.pc = "oss" => "ost" \in storage[u]
      PROVE  UnitInv(u)'
  <2>1. hook'[u] = x
    BY <1>0, <1>7 DEF Become
  <2>2. Calm(u)' /\ Installed(u)' /\ MountedReady(u)'
    BY <1>0, <1>1, <1>3, <1>7, <2>1
    DEF UnitInv, Calm, Installed, MountedReady, NeedsLeadership, InHook, Running, Install
  <2>3. Shown(u)'
    BY <1>0, <1>7, <2>1 DEF Shown
  <2>4. Informed(u)' /\ Accounted(u)'
    BY <1>0, <1>1, <1>3, <1>7, <2>1
    DEF UnitInv, Informed, Accounted, Quiet, InHook, Running, Promoted, Changed
  <2> QED
    BY <2>2, <2>3, <2>4 DEF UnitInv
<1>8. CASE software[u] # "none" /\ storage[u] = {"mgt-mdt"} /\ Become(u, ToMgsMds(u, h))
  <2> DEFINE x == ToMgsMds(u, h)
  <2>1. /\ x.pc = "mgs" /\ x.app = app /\ x.writes = FALSE /\ x.ready = bag[u].ready
        /\ x.endpoint = NoNids /\ x.refresh = TRUE
    BY <1>4 DEF JustDispatched, ToMgsMds, Hook
  <2> HIDE DEF x
  <2>2. Become(u, x)
    BY <1>8 DEF x
  <2> QED
    BY <1>7, <1>8, <2>1, <2>2
<1>9. CASE software[u] # "none" /\ storage[u] = {"ost"} /\ Become(u, ToOss(h))
  <2> DEFINE x == ToOss(h)
  <2>1. /\ x.pc = "oss" /\ x.app = app /\ x.writes = FALSE /\ x.ready = bag[u].ready
        /\ x.endpoint = NoNids /\ x.refresh = TRUE
    BY <1>4 DEF JustDispatched, ToOss, Hook
  <2> HIDE DEF x
  <2>2. Become(u, x)
    BY <1>9 DEF x
  <2> QED
    BY <1>7, <1>9, <2>1, <2>2
<1> QED
  BY <1>5, <1>6, <1>8, <1>9

(* One step further in a hook: what that step has to see to. *)
LEMMA GoingOnKeeps ==
    ASSUME StallInv, NEW u \in Units, InHook(u), NEW x,
           UNCHANGED <<leader, units, machine, data, pending>>, Become(u, x),
           x.pc \in {"promote", "publish", "commit"},
           \/ x.app = hook[u].app /\ x.writes = hook[u].writes
           \/ Promoted(x.app) /\ leader = u /\ x.ready = TRUE,
           x.ready = hook[u].ready \/ x.ready = TRUE,
           x.endpoint # NoNids => leader = u \/ x.endpoint = hook[u].endpoint,
           x.pc = "commit" \/ x.refresh = TRUE,
           x.refresh = FALSE /\ x.ready = FALSE => status'[u] = "blocked",
           status'[u] = status[u] \/ status'[u] = "blocked",
           disk'[u].mounted \subseteq storage[u],
           disk'[u].mounted # {} => software[u] # "none",
           "ost" \in disk'[u].mounted => "ost" \in disk[u].mounted \/ x.ready = TRUE
    PROVE  UnitInv(u)'
<1>0. /\ UnitInv(u) /\ UnitsInv /\ hook'[u] = x /\ u \in units
      /\ bag' = bag /\ app' = app /\ storage' = storage /\ units' = units
      /\ leader' = leader /\ software' = software /\ usable' = usable
      /\ pending' = pending /\ hook[u].pc # "idle" /\ hook[u].pc \in Running
  BY StallFacts DEF Become, machine, data, UnitsInv, InHook, Running
<1>1. Calm(u)'
  BY <1>0 DEF UnitInv, Calm, NeedsLeadership
<1>2. Installed(u)'
  BY <1>0 DEF UnitInv, Installed, InHook, Running, Install
<1>3. MountedReady(u)'
  <2>1. "ost" \in disk'[u].mounted => bag[u].ready \/ x.ready
    BY <1>0 DEF UnitInv, MountedReady
  <2> QED
    BY <1>0, <2>1 DEF MountedReady, InHook, Running
<1>4. Shown(u)'
  BY <1>0 DEF UnitInv, Shown, Install, Start
<1>5. Informed(u)' /\ Accounted(u)'
  BY <1>0 DEF UnitInv, Informed, Accounted, Quiet, InHook, Running, Promoted, Changed
<1> QED
  BY <1>1, <1>2, <1>3, <1>4, <1>5 DEF UnitInv

(* What a failed sequence of commands leaves is no new mount of an OST. *)
LEMMA PartlyMounted ==
    ASSUME TypeOK, NEW u \in Units, NEW d \in PartlyProvisioned(u)
    PROVE  d.mounted = disk[u].mounted
BY DEF TypeOK, Disk, PartlyProvisioned, Formatted, FormatMgs, FormatOst

LEMMA MountAdds ==
    ASSUME NEW d \in Disk, NEW n \in NidsOrNone, NEW k \in Kinds
    PROVE  /\ Mount(d, k).mounted = d.mounted \cup {k}
           /\ FormatMgs(d).mounted = d.mounted /\ FormatOst(d, n).mounted = d.mounted
BY DEF Disk, Mount, FormatMgs, FormatOst

LEMMA MgsMdsSetupKeeps ==
    ASSUME StallInv, NEW u \in Units, MgsMdsSetup(u)
    PROVE  UnitInv(u)'
<1> DEFINE m == "mgt-mdt"
           n == [host |-> u, addr |-> address[u]]
<1>0. /\ TypeOK /\ RoleInv /\ UnitInv(u) /\ hook[u] \in Hook /\ InHook(u)
      /\ hook[u].pc = "mgs" /\ disk \in [Units -> Disk] /\ disk[u] \in Disk
      /\ hook \in [Units -> Hook]
      /\ status \in [Units -> {"unknown", "maintenance", "waiting", "active", "blocked"}]
      /\ UNCHANGED <<leader, units, machine, data, pending>>
  BY StallFacts DEF MgsMdsSetup, InHook, Running
<1>1. m \in storage[u] /\ m \in Kinds /\ disk[u].mounted \subseteq storage[u]
      /\ software[u] # "none" /\ hook[u].refresh = TRUE
  BY <1>0 DEF RoleInv, MgsInv, Kinds, UnitInv, MountedReady, Installed, Shown
<1>2. ASSUME NEW d, disk' = [disk EXCEPT ![u] = d],
             d.mounted \subseteq disk[u].mounted \cup {m}
      PROVE  /\ disk'[u].mounted \subseteq storage[u]
             /\ "ost" \in disk'[u].mounted => "ost" \in disk[u].mounted
  BY <1>0, <1>1, <1>2
<1>3. FormatMgs(disk[u]) \in Disk /\ Formatted(u) \in Disk
  BY <1>0, DiskType, NidsFacts, PartlyProvisionedType DEF Kinds
<1>4. \/ /\ disk' = [disk EXCEPT ![u] = Mount(FormatMgs(disk[u]), m)]
         /\ Become(u, [hook[u] EXCEPT !.pc = "promote", !.nids = n])
         /\ UNCHANGED status
      \/ /\ \E d \in PartlyProvisioned(u) \cup {Mount(Formatted(u), m)} :
               disk' = [disk EXCEPT ![u] = d]
         /\ StopWith(u, hook[u], "blocked")
  BY DEF MgsMdsSetup
<1>5. CASE /\ disk' = [disk EXCEPT ![u] = Mount(FormatMgs(disk[u]), m)]
           /\ Become(u, [hook[u] EXCEPT !.pc = "promote", !.nids = n])
           /\ UNCHANGED status
  <2> DEFINE x == [hook[u] EXCEPT !.pc = "promote", !.nids = n]
  <2>1. Mount(FormatMgs(disk[u]), m).mounted = disk[u].mounted \cup {m}
    BY <1>0, <1>1, <1>3, MountAdds, NidsFacts
  <2>2. /\ disk'[u].mounted \subseteq storage[u]
        /\ "ost" \in disk'[u].mounted => "ost" \in disk[u].mounted
    BY <1>2, <1>5, <2>1
  <2>3. /\ x.pc = "promote" /\ x.app = hook[u].app /\ x.writes = hook[u].writes
        /\ x.ready = hook[u].ready /\ x.endpoint = hook[u].endpoint
        /\ x.refresh = TRUE
    BY <1>0, <1>1 DEF Hook
  <2> HIDE DEF x
  <2>4. Become(u, x) /\ status' = status
    BY <1>5 DEF x
  <2> QED
    BY <1>0, <1>1, <2>2, <2>3, <2>4, GoingOnKeeps
<1>6. CASE /\ \E d \in PartlyProvisioned(u) \cup {Mount(Formatted(u), m)} :
                 disk' = [disk EXCEPT ![u] = d]
           /\ StopWith(u, hook[u], "blocked")
  <2> DEFINE x == [hook[u] EXCEPT !.pc = "commit", !.refresh = FALSE]
  <2>1. PICK d \in PartlyProvisioned(u) \cup {Mount(Formatted(u), m)} :
          disk' = [disk EXCEPT ![u] = d]
    BY <1>6
  <2>2. Formatted(u).mounted = disk[u].mounted
    BY <1>0, MountAdds, NidsFacts DEF Formatted, Kinds
  <2>3. d.mounted \subseteq disk[u].mounted \cup {m}
    BY <1>0, <1>1, <1>3, <2>2, PartlyMounted, MountAdds, NidsFacts
  <2>4. /\ disk'[u].mounted \subseteq storage[u]
        /\ "ost" \in disk'[u].mounted => "ost" \in disk[u].mounted
    BY <1>2, <2>1, <2>3
  <2>5. /\ x.pc = "commit" /\ x.app = hook[u].app /\ x.writes = hook[u].writes
        /\ x.ready = hook[u].ready /\ x.endpoint = hook[u].endpoint
    BY <1>0 DEF Hook
  <2> HIDE DEF x
  <2>6. Become(u, x) /\ status'[u] = "blocked"
    BY <1>0, <1>6 DEF StopWith, SetStatus, x
  <2> QED
    BY <1>0, <1>1, <2>4, <2>5, <2>6, GoingOnKeeps
<1> QED
  BY <1>4, <1>5, <1>6

LEMMA MgsNidsPublishedKeeps ==
    ASSUME StallInv, NEW u \in Units, MgsNidsPublished(u)
    PROVE  UnitInv(u)'
<1> DEFINE h == hook[u]
           p == PromoteMgsNids(h, u, h.nids)
<1>0. /\ TypeOK /\ UnitInv(u) /\ h \in Hook /\ InHook(u) /\ h.pc = "promote"
      /\ h.nids \in Nids /\ h.app \in AppData /\ h.refresh = TRUE
      /\ disk[u].mounted \subseteq storage[u]
      /\ disk[u].mounted # {} => software[u] # "none"
      /\ status \in [Units -> {"unknown", "maintenance", "waiting", "active", "blocked"}]
      /\ UNCHANGED <<leader, units, machine, data, pending, disk>>
  BY StallFacts DEF MgsNidsPublished, InHook, Running, HookInv, HookOk, Hook, NidsOrNone,
                    UnitInv, MountedReady, Installed, Shown
<1>1. CASE Become(u, [h EXCEPT !.pc = "commit"]) /\ status' = status
  <2> DEFINE x == [h EXCEPT !.pc = "commit"]
  <2>1. /\ x.pc = "commit" /\ x.app = h.app /\ x.writes = h.writes
        /\ x.ready = h.ready /\ x.endpoint = h.endpoint /\ x.refresh = TRUE
    BY <1>0 DEF Hook
  <2> HIDE DEF x
  <2>2. Become(u, x)
    BY <1>1 DEF x
  <2> QED
    BY <1>0, <1>1, <2>1, <2>2, GoingOnKeeps
<1>2. CASE StopWith(u, h, "blocked")
  <2> DEFINE x == [h EXCEPT !.pc = "commit", !.refresh = FALSE]
  <2>1. /\ x.pc = "commit" /\ x.app = h.app /\ x.writes = h.writes
        /\ x.ready = h.ready /\ x.endpoint = h.endpoint
    BY <1>0 DEF Hook
  <2> HIDE DEF x
  <2>2. Become(u, x) /\ status'[u] = "blocked"
    BY <1>0, <1>2 DEF StopWith, SetStatus, x
  <2> QED
    BY <1>0, <2>1, <2>2, GoingOnKeeps
<1>3. CASE /\ leader = u /\ Become(u, [p EXCEPT !.pc = "publish", !.ready = TRUE])
           /\ status' = status
  <2> DEFINE x == [p EXCEPT !.pc = "publish", !.ready = TRUE]
  <2>1. /\ p \in Hook /\ p.endpoint = h.endpoint /\ p.refresh = TRUE
        /\ p.app = h.app \/ p.app = [unit |-> u, nids |-> h.nids]
        /\ Promoted(h.app) => p.app = h.app
        /\ ~Promoted(h.app) => p.app = [unit |-> u, nids |-> h.nids]
    BY <1>0, PromoteType DEF PromoteMgsNids, Hook
  <2>2. Promoted(p.app)
    BY <1>0, <2>1, UnitsAssumption, NidsFacts DEF Promoted
  <2> HIDE DEF p
  <2>3. /\ x.pc = "publish" /\ x.app = p.app /\ x.ready = TRUE
        /\ x.endpoint = h.endpoint /\ x.refresh = TRUE
    BY <2>1 DEF Hook
  <2> HIDE DEF x
  <2>4. Become(u, x)
    BY <1>3 DEF x
  <2> QED
    BY <1>0, <1>3, <2>2, <2>3, <2>4, GoingOnKeeps
<1> QED
  BY <1>1, <1>2, <1>3 DEF MgsNidsPublished

LEMMA OssSetupKeeps ==
    ASSUME StallInv, NEW u \in Units, OssSetup(u)
    PROVE  UnitInv(u)'
<1> DEFINE h == hook[u]
           new == Mount(FormatOst(disk[u], h.app.nids), "ost")
<1>0. /\ TypeOK /\ UnitInv(u) /\ h \in Hook /\ InHook(u) /\ h.pc = "oss"
      /\ h.app.nids \in NidsOrNone /\ h.refresh = TRUE
      /\ disk \in [Units -> Disk] /\ disk[u] \in Disk
      /\ "ost" \in Kinds /\ "ost" \in storage[u] /\ disk[u].mounted \subseteq storage[u]
      /\ disk[u].mounted # {} => software[u] # "none"
      /\ status \in [Units -> {"unknown", "maintenance", "waiting", "active", "blocked"}]
      /\ UNCHANGED <<leader, units, machine, data, pending>>
  BY StallFacts, NidsFacts
  DEF OssSetup, InHook, Running, UnitInv, MountedReady, Installed, Shown, Kinds
<1>1. CASE /\ software[u] # "none" /\ disk' = [disk EXCEPT ![u] = new]
           /\ Become(u, [h EXCEPT !.pc = "publish", !.ready = TRUE])
           /\ status' = status
  <2> DEFINE x == [h EXCEPT !.pc = "publish", !.ready = TRUE]
  <2>1. new.mounted = disk[u].mounted \cup {"ost"}
    BY <1>0, DiskType, MountAdds
  <2>2. disk'[u].mounted \subseteq storage[u]
    BY <1>0, <1>1, <2>1
  <2>3. /\ x.pc = "publish" /\ x.app = h.app /\ x.writes = h.writes
        /\ x.ready = TRUE /\ x.endpoint = h.endpoint /\ x.refresh = TRUE
    BY <1>0 DEF Hook
  <2> HIDE DEF x
  <2>4. Become(u, x)
    BY <1>1 DEF x
  <2> QED
    BY <1>0, <1>1, <2>2, <2>3, <2>4, GoingOnKeeps
<1>2. CASE /\ \E d \in PartlyProvisioned(u) : disk' = [disk EXCEPT ![u] = d]
           /\ StopWith(u, h, "blocked")
  <2> DEFINE x == [h EXCEPT !.pc = "commit", !.refresh = FALSE]
  <2>1. disk'[u].mounted = disk[u].mounted
    BY <1>0, <1>2, PartlyMounted
  <2>2. /\ x.pc = "commit" /\ x.app = h.app /\ x.writes = h.writes
        /\ x.ready = h.ready /\ x.endpoint = h.endpoint
    BY <1>0 DEF Hook
  <2> HIDE DEF x
  <2>3. Become(u, x) /\ status'[u] = "blocked"
    BY <1>0, <1>2 DEF StopWith, SetStatus, x
  <2> QED
    BY <1>0, <2>1, <2>2, <2>3, GoingOnKeeps
<1> QED
  BY <1>1, <1>2 DEF OssSetup

LEMMA TryPublishKeeps ==
    ASSUME StallInv, NEW u \in Units, TryPublishFilesystemInfo(u)
    PROVE  UnitInv(u)'
<1> DEFINE h == hook[u]
           e == IF leader = u /\ AllUnitsReady(u) THEN h.app.nids ELSE NoNids
           x == [h EXCEPT !.pc = "commit", !.endpoint = e]
<1>0. /\ TypeOK /\ UnitInv(u) /\ h \in Hook /\ InHook(u) /\ h.pc = "publish"
      /\ h.ready = TRUE /\ disk[u].mounted \subseteq storage[u]
      /\ disk[u].mounted # {} => software[u] # "none"
      /\ UNCHANGED <<leader, units, machine, data, pending, disk, status>>
      /\ Become(u, x)
  BY StallFacts DEF TryPublishFilesystemInfo, InHook, Running, ReadyInv, Hook,
                    UnitInv, MountedReady, Installed
<1>1. e # NoNids => leader = u
  OBVIOUS
<1> HIDE DEF e
<1>2. /\ x.pc = "commit" /\ x.app = h.app /\ x.writes = h.writes
      /\ x.ready = TRUE /\ x.endpoint = e
  BY <1>0 DEF Hook
<1> HIDE DEF x
<1> QED
  BY <1>0, <1>1, <1>2, GoingOnKeeps

(* The end of a hook that is not ready leaves Blocked, unless there is an event to
   come: what it saw mounted is only another role's target. *)
LEMMA FlushKeeps ==
    ASSUME OneMgs, StallInv, NEW u \in Units, Flush(u)
    PROVE  UnitInv(u)'
<1> DEFINE h == hook[u]
<1>0. /\ TypeOK /\ OnceInv /\ UnitInv(u) /\ ReadyInv /\ h \in Hook /\ InHook(u)
      /\ h.pc = "commit" /\ hook \in [Units -> Hook] /\ bag \in [Units -> UnitData]
      /\ app \in AppData /\ h.app \in AppData /\ u \in units
      /\ disk' = disk /\ storage' = storage /\ units' = units
      /\ leader' = leader /\ software' = software /\ usable' = usable
      /\ status \in [Units -> {"unknown", "maintenance", "waiting", "active", "blocked"}]
  BY StallFacts DEF Flush, machine, InHook, Running, UnitsInv
<1>1. /\ hook'[u] = Idle /\ bag'[u].ready = h.ready /\ status'[u] = Refreshed(u)
  BY <1>0 DEF Flush, Become, SetStatus
<1>2. pending'[u] = pending[u]
  BY <1>0 DEF Flush
<1>3. bag[u].ready => h.ready
  BY <1>0 DEF ReadyInv
<1>4. \/ app' = app
      \/ app' = h.app /\ h.writes = TRUE /\ Promoted(h.app)
  BY <1>0 DEF Flush, OnceInv, ViewInv, Hook
<1>5. Calm(u)' /\ Installed(u)' /\ MountedReady(u)'
  BY <1>0, <1>1, <1>2, <1>3, IdleFacts
  DEF UnitInv, Calm, Installed, MountedReady, NeedsLeadership, InHook, Running, Install
<1>6. Informed(u)'
  <2>1. Promoted(app') /\ app'.unit = u => h.ready \/ Changed(NoUnit) \in pending[u]
    BY <1>0, <1>3, <1>4 DEF UnitInv, Informed
  <2> QED
    BY <1>1, <1>2, <2>1, IdleFacts DEF Informed, InHook, Running, Promoted, Changed
<1>7. disk[u].mounted = {} /\ status[u] = "blocked" => status'[u] = "blocked"
  <2>1. disk[u].mounted = {} => ~RoleMounted(u, h.app)
    BY DEF RoleMounted
  <2> QED
    BY <1>1, <2>1, CheckBlocks DEF Refreshed
<1>8. Shown(u)'
  <2>1. software[u] = "none" \/ storage[u] = {} => disk[u].mounted = {}
    BY <1>0 DEF UnitInv, Installed, MountedReady
  <2> QED
    BY <1>0, <1>1, <1>2, <1>7, <2>1, IdleFacts DEF UnitInv, Shown, Install, Start
<1>9. Accounted(u)'
  <2> SUFFICES ASSUME Promoted(app'), pending[u] = {}, ~h.ready
               PROVE  status'[u] = "blocked"
    BY <1>0, <1>1, <1>2 DEF Accounted, Quiet, Promoted
  <2>1. CASE h.refresh = FALSE
    <3>1. status[u] = "blocked"
      BY <1>0, <2>1 DEF UnitInv, Shown, Hook
    <3> QED
      BY <1>1, <2>1, <3>1 DEF Refreshed
  <2>2. CASE h.refresh = TRUE
    <3>1. Promoted(h.app) /\ app' = h.app
      <4>1. CASE app' = app
        <5>1. Promoted(h.app)
          BY <1>0, <4>1 DEF UnitInv, Informed
        <5> QED
          BY <1>0, <4>1, <5>1, OneApp
      <4> QED
        BY <1>4, <4>1
    <3>2. ~RoleMounted(u, h.app)
      <4>1. h.app.unit # u
        BY <1>1, <1>2, <1>6, <3>1, IdleFacts DEF Informed, InHook, Running
      <4>2. "ost" \notin disk[u].mounted
        BY <1>0, <1>3 DEF UnitInv, MountedReady
      <4> QED
        BY <4>1, <4>2 DEF RoleMounted
    <3> QED
      BY <1>1, <2>2, <3>1, <3>2, CheckBlocks DEF Refreshed
  <2> QED
    BY <1>0, <2>1, <2>2 DEF Hook
<1> QED
  BY <1>5, <1>6, <1>8, <1>9 DEF UnitInv

(* With one MGS nobody's NIDs are refused, and a unit that is not the MGS and has no
   storage for an OST has no storage at all. *)
LEMMA NothingRefused ==
    ASSUME OneMgs, OnceInv, NEW v \in Units, bag[v].nids # NoNids
    PROVE  ~RefusesMgs(app, v, bag[v].nids)
<1> SUFFICES ASSUME Promoted(app) PROVE app.unit = v /\ app.nids = bag[v].nids
  BY DEF RefusesMgs
<1> DEFINE b == [unit |-> v, nids |-> bag[v].nids]
<1>1. bag[v].nids \in Nids
  BY DEF OnceInv, RoleInv, SafeInv, TypeOK, UnitData, NidsOrNone
<1>2. b \in AppData /\ Promoted(b)
  BY <1>1, UnitsAssumption, NidsFacts DEF AppData, Promoted
<1>3. PromotedFromMgs(disk, b) /\ Known(b.nids)
  BY DEF OnceInv, RoleInv, SafeInv, HookInv, PublishedFromMgs, PromotedFromMgs, NidsInv
<1>4. app \in AppData /\ PromotedFromMgs(disk, app) /\ Known(app.nids) /\ RoleInv
  BY DEF OnceInv, RoleInv, SafeInv, TypeOK, PromotedMgsExists, NidsInv
<1>5. app = b
  BY <1>2, <1>3, <1>4, OnePromotion
<1> QED
  BY <1>5

LEMMA NoStorageAtAll ==
    ASSUME OneMgs, RoleInv, NEW u \in Units, NEW a \in AppData, Promoted(a),
           PromotedFromMgs(disk, a), a.unit # u, "ost" \notin storage[u]
    PROVE  storage[u] = {}
<1>1. "mgt-mdt" \notin storage[u]
  <2> SUFFICES ASSUME "mgt-mdt" \in storage[u] PROVE FALSE
    OBVIOUS
  <2>1. MayBeMgs(u)
    BY DEF RoleInv, StorageInv, MayBeMgs
  <2>2. MayBeMgs(a.unit) /\ a.unit \in Units
    BY NidsFacts DEF PromotedFromMgs, RoleInv, MgsInv
  <2> QED
    BY <2>1, <2>2 DEF OneMgs
<1> QED
  BY <1>1 DEF RoleInv, SafeInv, TypeOK, Kinds

LEMMA RelationChangedKeeps ==
    ASSUME OneMgs, StallInv, NEW u \in Units, NEW v \in Units \cup {NoUnit},
           OnRelationChanged(u, v)
    PROVE  UnitInv(u)'
<1> DEFINE s == IF Observes(u, v) /\ ~bag[v].ready THEN {v} ELSE {}
           seen == [Dispatched(u, Changed(v)) EXCEPT !.refresh = TRUE, !.stale = s]
           h == IF Candidate(u, v) THEN PromoteMgsNids(seen, v, bag[v].nids) ELSE seen
<1>0. /\ TypeOK /\ OnceInv /\ RoleInv /\ SafeInv /\ UnitInv(u) /\ UnitsInv
      /\ hook \in [Units -> Hook] /\ pending \in [Units -> SUBSET Events]
      /\ app \in AppData /\ app' = app /\ bag' = bag
      /\ disk' = disk /\ storage' = storage /\ units' = units
      /\ leader' = leader /\ software' = software /\ usable' = usable
      /\ status \in [Units -> {"unknown", "maintenance", "waiting", "active", "blocked"}]
  BY StallFacts DEF OnRelationChanged, machine, data
<1>1. /\ hook[u].pc = "idle" /\ Changed(v) \in pending[u] /\ u \in units
      /\ Install \notin pending[u] /\ Start \notin pending[u] /\ usable[u] = TRUE
  <2>1. hook[u].pc # "failed" /\ usable[u] = TRUE
    BY <1>0 DEF UnitInv, Calm
  <2> QED
    BY <1>0, <2>1 DEF OnRelationChanged, Dispatchable, Changed, UnitsInv
<1>2. pending'[u] = pending[u] \ {Changed(v)}
  BY <1>0, <1>1 DEF OnRelationChanged, Consume
<1>3. s \in SUBSET Units /\ Changed(v) \in Events
  BY EventFacts DEF Observes
<1>4. PromotionRefused(u, v, seen.app) \/ Reconfigure(u, h)
  BY DEF OnRelationChanged
<1>5. h \in Hook
  BY <1>0, ObservedType
<1> HIDE DEF s
<1>6. JustDispatched(u, Changed(v), seen) /\ seen.refresh = TRUE
  <2>1. JustDispatched(u, Changed(v), seen)
    BY <1>0, <1>3, DispatchedFacts
  <2>2. Dispatched(u, Changed(v)) \in Hook
    BY <1>0, <1>3, DispatchedType
  <2> QED
    BY <2>1, <2>2 DEF Hook
<1>7. Candidate(u, v) => leader = u /\ v \in Units /\ bag[v].nids # NoNids
  BY DEF Candidate, Observes
<1> HIDE DEF seen
<1>8. ~PromotionRefused(u, v, seen.app)
  BY <1>0, <1>6, <1>7, NothingRefused DEF PromotionRefused, JustDispatched
<1>9. /\ h.ready = bag[u].ready /\ h.endpoint = NoNids /\ h.refresh = TRUE
      /\ \/ h.app = app /\ h.writes = FALSE
         \/ ~Promoted(app) /\ leader = u
  BY <1>6, <1>7 DEF JustDispatched, PromoteMgsNids, Hook
<1>10. h.app \in AppData /\ h.writes \in BOOLEAN
  BY <1>5 DEF Hook
<1> HIDE DEF h
<1>11. Install \notin pending'[u] /\ Start \notin pending'[u]
  BY <1>1, <1>2
<1>12. CASE ~Promoted(h.app) /\ Become(u, Idle) /\ status' = status
  <2>1. hook'[u] = Idle /\ ~Promoted(app)
    BY <1>0, <1>9, <1>12 DEF Become
  <2>2. Calm(u)' /\ Installed(u)' /\ MountedReady(u)'
    BY <1>0, <1>1, <1>11, <2>1, IdleFacts
    DEF UnitInv, Calm, Installed, MountedReady, NeedsLeadership, InHook, Running, Install
  <2>3. Shown(u)'
    BY <1>0, <1>1, <1>12, <2>1, IdleFacts DEF UnitInv, Shown
  <2>4. Informed(u)' /\ Accounted(u)'
    BY <1>0, <2>1, IdleFacts DEF Informed, Accounted, InHook, Running, Promoted
  <2> QED
    BY <2>2, <2>3, <2>4 DEF UnitInv
<1>13. ASSUME NEW x, Become(u, x), Promoted(h.app), x.app = h.app,
              x.writes = h.writes, x.endpoint = NoNids, status' = status \/ status'[u] = status[u],
              x.pc \in {"publish", "oss", "commit"}, x.refresh = TRUE \/ x.pc = "commit",
              \/ x.ready = TRUE
              \/ x.ready = bag[u].ready /\ x.app.unit # u,
              x.pc = "oss" => "ost" \in storage[u],
              x.pc = "commit" => "ost" \notin storage[u]
       PROVE  UnitInv(u)'
  <2>1. hook'[u] = x /\ status'[u] = status[u]
    BY <1>0, <1>13 DEF Become
  <2>2. Calm(u)'
    BY <1>0, <1>9, <1>13, <2>1 DEF UnitInv, Calm, NeedsLeadership
  <2>3. Installed(u)' /\ MountedReady(u)'
    BY <1>0, <1>1, <1>11, <1>13, <2>1
    DEF UnitInv, Installed, MountedReady, InHook, Running, Install
  <2>4. x.pc = "commit" /\ x.ready = FALSE => status[u] = "blocked"
    <3> SUFFICES ASSUME x.pc = "commit", x.ready = FALSE PROVE status[u] = "blocked"
      OBVIOUS
    <3>1. PromotedFromMgs(disk, h.app)
      <4>1. SafeInv'
        BY <1>0, StepSafe DEF Dispatch
      <4> QED
        BY <1>0, <1>13, <2>1, <4>1 DEF SafeInv, HookInv, HookOk, PromotedFromMgs, Promoted
    <3>2. storage[u] = {}
      BY <1>0, <1>10, <1>13, <3>1, NoStorageAtAll
    <3> QED
      BY <1>0, <1>1, <3>2 DEF UnitInv, Shown
  <2>5. Shown(u)'
    BY <1>0, <1>1, <1>13, <2>1, <2>4 DEF UnitInv, Shown
  <2>6. Informed(u)'
    <3>1. Promoted(app) => h.app = app
      BY <1>9
    <3> QED
      BY <1>0, <1>13, <2>1, <3>1 DEF Informed, InHook, Running, Promoted
  <2>7. Accounted(u)'
    BY <1>13, <2>1 DEF Accounted, Quiet
  <2> QED
    BY <2>2, <2>3, <2>5, <2>6, <2>7 DEF UnitInv
<1>14. CASE /\ Promoted(h.app) /\ status' = status /\ h.app.unit = u
            /\ Become(u, [h EXCEPT !.pc = "publish", !.ready = TRUE])
  <2> DEFINE x == [h EXCEPT !.pc = "publish", !.ready = TRUE]
  <2>1. /\ x.pc = "publish" /\ x.app = h.app /\ x.writes = h.writes
        /\ x.ready = TRUE /\ x.endpoint = NoNids /\ x.refresh = TRUE
    BY <1>5, <1>9 DEF Hook
  <2> HIDE DEF x
  <2>2. Become(u, x)
    BY <1>14 DEF x
  <2> QED
    BY <1>13, <1>14, <2>1, <2>2
<1>15. CASE /\ Promoted(h.app) /\ status' = status /\ h.app.unit # u
            /\ "ost" \in storage[u] /\ Become(u, ToOss(h))
  <2> DEFINE x == ToOss(h)
  <2>1. /\ x.pc = "oss" /\ x.app = h.app /\ x.writes = h.writes
        /\ x.ready = bag[u].ready /\ x.endpoint = NoNids /\ x.refresh = TRUE
    BY <1>5, <1>9 DEF Hook, ToOss
  <2> HIDE DEF x
  <2>2. Become(u, x)
    BY <1>15 DEF x
  <2> QED
    BY <1>13, <1>15, <2>1, <2>2
<1>16. CASE /\ Promoted(h.app) /\ h.app.unit # u /\ "ost" \notin storage[u]
            /\ StopWith(u, h, status[u])
  <2> DEFINE x == [h EXCEPT !.pc = "commit", !.refresh = FALSE]
  <2>1. /\ x.pc = "commit" /\ x.app = h.app /\ x.writes = h.writes
        /\ x.ready = bag[u].ready /\ x.endpoint = NoNids
    BY <1>5, <1>9 DEF Hook
  <2> HIDE DEF x
  <2>2. Become(u, x) /\ status'[u] = status[u]
    BY <1>0, <1>16 DEF StopWith, SetStatus, x
  <2> QED
    BY <1>13, <1>16, <2>1, <2>2
<1> QED
  BY <1>1, <1>4, <1>8, <1>12, <1>14, <1>15, <1>16 DEF Reconfigure, IsMgs

LEMMA UpdateStatusKeeps ==
    ASSUME StallInv, NEW u \in Units, OnUpdateStatus(u)
    PROVE  UnitInv(u)'
<1>0. /\ UnitInv(u) /\ app' = app /\ bag' = bag /\ disk' = disk /\ hook' = hook
      /\ pending' = pending /\ storage' = storage /\ units' = units
      /\ leader' = leader /\ software' = software /\ usable' = usable
      /\ status'[u] = CheckLustre(u, app, status[u])
      /\ u \in units /\ hook[u].pc = "idle"
      /\ Install \notin pending[u] /\ Start \notin pending[u]
  BY StallFacts DEF OnUpdateStatus, SetStatus, machine, data
<1>1. Calm(u)' /\ Installed(u)' /\ MountedReady(u)' /\ Informed(u)'
  BY <1>0
  DEF UnitInv, Calm, Installed, MountedReady, Informed, NeedsLeadership, InHook,
      Promoted, Install, Changed
<1>2. ASSUME status[u] = "blocked" \/ Promoted(app),
             Promoted(app) => ~RoleMounted(u, app)
      PROVE  status'[u] = "blocked"
  BY <1>0, <1>2, CheckBlocks
<1>3. disk[u].mounted = {} => ~RoleMounted(u, app)
  BY DEF RoleMounted
<1>4. Shown(u)'
  <2>1. software[u] = "none" => status[u] = "blocked" /\ disk[u].mounted = {}
    BY <1>0 DEF UnitInv, Shown, Installed
  <2>2. storage[u] = {} => status[u] = "blocked" /\ disk[u].mounted = {}
    BY <1>0 DEF UnitInv, Shown, MountedReady
  <2> QED
    BY <1>0, <1>2, <1>3, <2>1, <2>2 DEF Shown, Install, Start
<1>5. Accounted(u)'
  <2>1. Promoted(app) /\ Quiet(u) /\ ~bag[u].ready => ~RoleMounted(u, app)
    BY <1>0
    DEF UnitInv, MountedReady, Informed, Quiet, RoleMounted, InHook, Running
  <2> QED
    BY <1>0, <1>2, <2>1 DEF Accounted, Quiet, Promoted
<1> QED
  BY <1>1, <1>4, <1>5 DEF UnitInv

LEMMA AttachStorageKeeps ==
    ASSUME StallInv, NEW u \in Units, NEW k \in Kinds, AttachStorage(u, k)
    PROVE  UnitInv(u)'
<1>0. /\ UnitInv(u) /\ pending \in [Units -> SUBSET Events]
      /\ storage \in [Units -> SUBSET Kinds]
      /\ app' = app /\ bag' = bag /\ disk' = disk /\ hook' = hook /\ units' = units
      /\ leader' = leader /\ software' = software /\ usable' = usable
      /\ status' = status
  BY StallFacts DEF AttachStorage, data
<1>1. /\ storage'[u] = storage[u] \cup {k}
      /\ pending'[u] = pending[u] \cup {Start}
  BY <1>0 DEF AttachStorage
<1>2. Install \in pending'[u] <=> Install \in pending[u]
  BY <1>1, StartFacts
<1>3. Calm(u)' /\ Installed(u)' /\ MountedReady(u)'
  BY <1>0, <1>1, <1>2
  DEF UnitInv, Calm, Installed, MountedReady, NeedsLeadership, InHook, Install
<1>4. Shown(u)'
  BY <1>0, <1>1, <1>2 DEF UnitInv, Shown, Install, Start
<1>5. Informed(u)' /\ Accounted(u)'
  BY <1>0, <1>1 DEF UnitInv, Informed, Accounted, Quiet, InHook, Promoted, Changed
<1> QED
  BY <1>3, <1>4, <1>5 DEF UnitInv

LEMMA AddUnitKeeps ==
    ASSUME StallInv, NEW u \in Units, AddUnit(u)
    PROVE  UnitInv(u)'
<1>0. /\ UnitInv(u) /\ UnitsInv /\ SafeInv /\ u \notin units /\ u \in units'
      /\ app' = app /\ bag' = bag /\ disk' = disk /\ hook' = hook /\ storage' = storage
      /\ leader' = leader /\ software' = software /\ usable' = usable
      /\ pending'[u] = FirstEvents(u, units)
  BY StallFacts DEF AddUnit, machine, data
<1>1. Install \in pending'[u]
  BY <1>0 DEF FirstEvents
<1>2. /\ hook[u].pc = "idle" /\ software[u] = "none" /\ disk[u].mgs = FALSE
      /\ disk[u].mounted = {}
  BY <1>0 DEF UnitsInv, UnitInv, Installed, BlankDisk
<1>3. Calm(u)' /\ Installed(u)' /\ MountedReady(u)'
  BY <1>0, <1>1, <1>2
  DEF UnitInv, Calm, Installed, MountedReady, NeedsLeadership, InHook, Running, Install
<1>4. Shown(u)'
  BY <1>0, <1>1, <1>2 DEF Shown, Install
<1>5. Informed(u)' /\ Accounted(u)'
  <2>1. Promoted(app) => app.unit # u
    BY <1>0, <1>2 DEF SafeInv, PromotedMgsExists, PromotedFromMgs
  <2> QED
    BY <1>0, <1>1, <1>2, <2>1
    DEF UnitInv, Informed, Accounted, Quiet, InHook, Running, Promoted
<1> QED
  BY <1>3, <1>4, <1>5 DEF UnitInv

(* What cannot happen: a hook whose writes are refused, and what the hypotheses on
   the deployment rule out. *)
LEMMA NeverHappens ==
    ASSUME MaxElections = 0, MaxCrashes = 0, StallInv, NEW u \in Units
    PROVE  ~(FlushRefused(u) \/ Elect(u) \/ Crash(u) \/ Reboot(u) \/ Reattach(u))
<1>0. TypeOK /\ Calm(u)
  BY StallFacts DEF UnitInv
<1> QED
  BY <1>0 DEF TypeOK, Calm, FlushRefused, Elect, Crash, Reboot, Spend, Reattach

LEMMA StallStep ==
    ASSUME OneMgs, MaxCrashes = 0, MaxElections = 0, StallInv, NEW u \in Units,
           HookStep(u) \/ Dispatch(u) \/ OnUpdateStatus(u) \/ Environment(u)
    PROVE  StallInv'
<1>0. OnceInv /\ TypeOK /\ UnitsInv /\ ReadyInv
  BY StallFacts
<1>1. OnceInv' /\ UnitsInv' /\ ReadyInv'
  BY <1>0, OnceStep, UnitsStep, ReadyStep DEF StaticAddresses
<1>2. \A v \in Units \ {u} : UnitInv(v)'
  BY OtherUnit
<1>3. UnitInv(u)'
  <2>1. CASE HookStep(u)
    BY <2>1, NeverHappens, MgsMdsSetupKeeps, MgsNidsPublishedKeeps, OssSetupKeeps,
       TryPublishKeeps, FlushKeeps DEF HookStep
  <2>2. CASE Dispatch(u)
    BY <2>2, InstallKeeps, StartKeeps, RelationChangedKeeps DEF Dispatch
  <2>3. CASE OnUpdateStatus(u)
    BY <2>3, UpdateStatusKeeps
  <2>4. CASE Environment(u)
    BY <2>4, NeverHappens, AddUnitKeeps, AttachStorageKeeps DEF Environment
  <2> QED
    BY <2>1, <2>2, <2>3, <2>4
<1>4. \A v \in Units : UnitInv(v)'
  BY <1>2, <1>3
<1> QED
  BY <1>1, <1>4 DEF StallInv

LEMMA StallInit ==
    ASSUME OneMgs, StaticAddresses, Init
    PROVE  StallInv
<1>1. OnceInv
  BY OnceInvInductive
<1>2. UnitsInv /\ ReadyInv
  BY IdleFacts DEF Init, UnitsInv, ReadyInv, InHook, Running
<1>3. ASSUME NEW v \in Units PROVE UnitInv(v)
  <2>1. /\ hook[v] = Idle /\ disk[v] = BlankDisk /\ software[v] = "none"
        /\ usable[v] = TRUE /\ ~Promoted(app) /\ BlankDisk.mounted = {}
        /\ v \in units => Install \in pending[v]
    BY DEF Init, Promoted, NoApp, BlankDisk, FirstEvents
  <2>2. Calm(v) /\ Installed(v) /\ MountedReady(v)
    BY <2>1, IdleFacts
    DEF Calm, Installed, MountedReady, NeedsLeadership, InHook, Running
  <2>3. Shown(v) /\ Informed(v) /\ Accounted(v)
    BY <2>1, IdleFacts DEF Shown, Informed, Accounted, InHook, Running
  <2> QED
    BY <2>2, <2>3 DEF UnitInv
<1> QED
  BY <1>1, <1>2, <1>3 DEF StallInv

(* Once there is an MGS, a unit that is not ready and has nothing left to do by
   itself shows Blocked, whichever commands failed on it and whatever was attached
   or added to the deployment: the charm retries nothing by a timer, so that a unit
   that stopped otherwise would stay so unnoticed (charm.py:171-202,
   lustre_peer.py:262-294, state.py:79-108).  Elections and crashes are excluded:
   each of them together with a failed command can leave such a unit. *)
THEOREM NobodyStallsSilently ==
    ASSUME OneMgs, MaxCrashes = 0, MaxElections = 0
    PROVE  Spec => []NoSilentStall
<1>1. Init => StallInv
  BY StallInit DEF StaticAddresses
<1>2. StallInv /\ [Next]_vars => StallInv'
  <2> SUFFICES ASSUME StallInv, [Next]_vars PROVE StallInv'
    OBVIOUS
  <2>1. CASE Next
    BY <2>1, StallStep DEF Next
  <2>2. CASE UNCHANGED vars
    <3>0. OnceInv /\ UnitsInv /\ ReadyInv /\ \A v \in Units : UnitInv(v)
      BY DEF StallInv
    <3>1. OnceInv'
      BY <2>2, <3>0, OnceInvInductive DEF StaticAddresses
    <3>2. /\ UNCHANGED <<leader, units, storage, usable, software, disk, status, app>>
          /\ UNCHANGED <<bag, pending, hook>>
      BY <2>2 DEF vars, machine, data
    <3>3. UnitsInv' /\ ReadyInv'
      BY <3>0, <3>2 DEF UnitsInv, ReadyInv, Earned, Promoted, InHook
    <3>4. ASSUME NEW v \in Units PROVE UnitInv(v)'
      <4>1. Calm(v)' /\ Installed(v)' /\ MountedReady(v)'
        BY <3>0, <3>2
        DEF UnitInv, Calm, Installed, MountedReady, NeedsLeadership, InHook, Install
      <4>2. Shown(v)' /\ Informed(v)' /\ Accounted(v)'
        BY <3>0, <3>2
        DEF UnitInv, Shown, Informed, Accounted, InHook, Quiet, Promoted, Install,
            Start, Changed
      <4> QED
        BY <4>1, <4>2 DEF UnitInv
    <3> QED
      BY <3>1, <3>3, <3>4 DEF StallInv
  <2> QED
    BY <2>1, <2>2
<1>3. StallInv => NoSilentStall
  BY DEF StallInv, OnceInv, RoleInv, SafeInv, TypeOK, UnitInv, Accounted, NoSilentStall
<1> QED
  BY <1>1, <1>2, <1>3, PTL DEF Spec

-----------------------------------------------------------------------------
(* Second, elections, crashes and reboots without failures, on units that are only
   ever given storage of one kind.  A unit that is not ready always has something
   ahead of it that will make it ready, and a crash only repeats that. *)
OneKind == \A u \in Units : MaxStorage[u] # Kinds

(* The installation is complete, or it is still to come and nothing has run. *)
InstalledLnet(v) ==
    /\ software[v] \in {"none", "lnet"}
    /\ software[v] = "none" =>
          /\ hook[v].pc = "idle" /\ usable[v] = TRUE
          /\ v \in units => Install \in pending[v]

(* Start runs after storage has come back. *)
Returning(v) ==
    usable[v] = FALSE =>
        /\ storage[v] # {}
        /\ Start \in pending[v] \/ (hook[v].pc = "failed" /\ hook[v].event = Start)

(* A unit works with the storage it has; without any it shows Blocked. *)
Equipped(v) ==
    /\ v \notin units => disk[v] = BlankDisk
    /\ disk[v].mounted \subseteq storage[v]
    /\ hook[v].pc = "oss" => "ost" \in storage[v]
    /\ InHook(v) /\ storage[v] = {} => hook[v].pc = "commit" /\ hook[v].refresh = FALSE
    /\ v \in units /\ storage[v] = {} /\ Install \notin pending[v]
          /\ Start \notin pending[v] => status[v] = "blocked"

(* Readiness is not taken back; a hook of an OSS that ends without it leaves start
   behind, and one that promotes its own unit has it. *)
Reporting(v) ==
    /\ InHook(v) /\ bag[v].ready => hook[v].ready = TRUE
    /\ hook[v].pc = "publish" => hook[v].ready = TRUE
    /\ hook[v].writes = TRUE /\ hook[v].app.unit = v => hook[v].ready = TRUE
    /\ hook[v].pc = "commit" /\ hook[v].ready = FALSE /\ "ost" \in storage[v] =>
          Start \in pending[v]

(* A hook for one of these events that leads to readiness, or will when retried. *)
GoingOn(v, events) ==
    /\ hook[v].event \in events
    /\ hook[v].pc \in {"failed", "oss"} \/ (InHook(v) /\ hook[v].ready = TRUE)

(* The OSS learns of the promotion from its own start or from the app databag, the
   MGS from the app databag alone. *)
DueOss(v) ==
    Promoted(app) /\ v \in units /\ "ost" \in storage[v] /\ ~bag[v].ready =>
        \/ Install \in pending[v] \/ Start \in pending[v]
        \/ Changed(NoUnit) \in pending[v]
        \/ GoingOn(v, {Start, Changed(NoUnit)})
DueMgs(v) ==
    Promoted(app) /\ app.unit = v /\ ~bag[v].ready =>
        Changed(NoUnit) \in pending[v] \/ GoingOn(v, {Changed(NoUnit)})

UnitProgress(v) ==
    InstalledLnet(v) /\ Returning(v) /\ Equipped(v) /\ Reporting(v)
    /\ DueOss(v) /\ DueMgs(v)

ProgressInv == RoleInv /\ UnitsInv /\ \A v \in Units : UnitProgress(v)

LEMMA ProgressFacts ==
    ASSUME ProgressInv, NEW u \in Units
    PROVE  /\ RoleInv /\ StorageInv /\ MgsInv /\ SafeInv /\ TypeOK /\ HookInv
           /\ UnitsInv /\ UnitProgress(u)
           /\ hook \in [Units -> Hook] /\ hook[u] \in Hook /\ hook[u].app \in AppData
           /\ pending \in [Units -> SUBSET Events] /\ disk \in [Units -> Disk]
           /\ bag \in [Units -> UnitData] /\ bag[u].ready \in BOOLEAN
           /\ storage \in [Units -> SUBSET Kinds] /\ usable \in [Units -> BOOLEAN]
           /\ app \in AppData /\ units \subseteq Units
           /\ status \in [Units -> {"unknown", "maintenance", "waiting", "active",
                                    "blocked"}]
           /\ software \in [Units -> {"none", "packages", "lnet"}]
BY DEF ProgressInv, RoleInv, SafeInv, TypeOK, Hook, UnitData

LEMMA EventsDiffer ==
    /\ Start # Install /\ \A v : Changed(v) \notin {Install, Start}
    /\ \A v, w : Changed(v) = Changed(w) => v = w
BY DEF Start, Install, Changed

LEMMA FailedFacts ==
    \A e : /\ Failed(e).pc = "failed" /\ Failed(e).event = e
           /\ Failed(e).writes = FALSE /\ Failed(e).ready = FALSE
BY DEF Failed, AtRest

LEMMA KindOfMgs ==
    ASSUME OneKind, ProgressInv, NEW a \in AppData, Promoted(a), PromotedFromMgs(disk, a)
    PROVE  /\ a.unit \in units
           /\ "mgt-mdt" \in storage[a.unit] /\ "ost" \notin storage[a.unit]
<1>1. a.unit \in Units /\ disk[a.unit].mgs
  BY NidsFacts DEF PromotedFromMgs
<1>2. "mgt-mdt" \in storage[a.unit] /\ storage[a.unit] \subseteq MaxStorage[a.unit]
  BY <1>1, ProgressFacts DEF MgsInv, StorageInv
<1>3. "ost" \notin storage[a.unit]
  BY <1>1, <1>2, StorageAssumption DEF OneKind, Kinds
<1>4. a.unit \in units
  <2>1. a.unit \notin units => disk[a.unit] = BlankDisk
    BY <1>1, ProgressFacts DEF UnitProgress, Equipped
  <2>2. BlankDisk.mgs = FALSE
    BY DEF BlankDisk
  <2> QED
    BY <1>1, <2>1, <2>2
<1> QED
  BY <1>2, <1>3, <1>4

(* Without failures a set-up that is called ends with its target mounted. *)
LEMMA NoFailure ==
    ASSUME MaxFaults = 0, ProgressInv, NEW u \in Units
    PROVE  ~Fault /\ (InHook(u) => software[u] = "lnet" /\ ~CommandFails(u))
<1>1. ~Fault
  BY ProgressFacts DEF Fault, TypeOK
<1>2. InHook(u) => software[u] = "lnet"
  BY ProgressFacts DEF UnitProgress, InstalledLnet, InHook, Running
<1> QED
  BY <1>1, <1>2 DEF CommandFails

LEMMA OtherProgress ==
    ASSUME ProgressInv, NEW u \in Units, NEW v \in Units \ {u},
           HookStep(u) \/ Dispatch(u) \/ OnUpdateStatus(u) \/ Environment(u)
    PROVE  UnitProgress(v)'
<1>0. /\ SafeInv /\ TypeOK /\ HookInv /\ UnitProgress(v)
      /\ hook \in [Units -> Hook] /\ bag \in [Units -> UnitData]
  BY ProgressFacts
<1>1. hook'[v] = hook[v] /\ disk'[v] = disk[v] /\ bag'[v] = bag[v]
  <2>1. PICK x : hook' = [hook EXCEPT ![u] = x] /\ Moves(u, x)
    BY <1>0, StepMoves
  <2>2. bag'[v] = bag[v]
    BY <1>0, DatabagSteps DEF Flush
  <2> QED
    BY <1>0, <2>1, <2>2, TargetSteps
<1>2. /\ status'[v] = status[v] /\ software'[v] = software[v]
      /\ storage'[v] = storage[v] /\ usable'[v] = usable[v]
      /\ pending[v] \subseteq pending'[v]
      /\ \A e \in pending'[v] \ pending[v] : \E w : e = Changed(w)
      /\ v \in units' <=> v \in units
      /\ app' # app /\ v \in units => Changed(NoUnit) \in pending'[v]
  BY <1>0, OtherLeaves
<1>3. (Install \in pending'[v] <=> Install \in pending[v])
      /\ (Start \in pending'[v] <=> Start \in pending[v])
  BY <1>2, EventsDiffer
<1>4. InstalledLnet(v)' /\ Returning(v)'
  BY <1>0, <1>1, <1>2, <1>3 DEF UnitProgress, InstalledLnet, Returning, Install, Start
<1>5. Equipped(v)' /\ Reporting(v)'
  BY <1>0, <1>1, <1>2, <1>3
  DEF UnitProgress, Equipped, Reporting, InHook, BlankDisk, Install, Start
<1>6. CASE app' = app
  <2>1. \A e : GoingOn(v, e) => GoingOn(v, e)'
    BY <1>1 DEF GoingOn, InHook
  <2>2. DueOss(v)' /\ DueMgs(v)'
    BY <1>0, <1>1, <1>2, <1>6
    DEF UnitProgress, DueOss, DueMgs, GoingOn, InHook, Promoted, Install, Start, Changed
  <2> QED
    BY <1>4, <1>5, <2>2 DEF UnitProgress
<1>7. CASE app' # app
  <2>1. app' = hook[u].app /\ hook[u].app \in AppData
    BY <1>7, ProgressFacts, DatabagSteps DEF Flush
  <2>2. Promoted(app') /\ app'.unit = v => v \in units
    BY <1>0, <2>1 DEF HookInv, HookOk, PromotedFromMgs, UnitProgress, Equipped, BlankDisk
  <2>3. DueOss(v)' /\ DueMgs(v)'
    BY <1>2, <1>7, <2>2 DEF DueOss, DueMgs, Promoted, Changed
  <2> QED
    BY <1>4, <1>5, <2>3 DEF UnitProgress
<1> QED
  BY <1>6, <1>7

(* One step further in a hook, or its failure: what that step has to see to. *)
LEMMA RunsOn ==
    ASSUME ProgressInv, NEW u \in Units, InHook(u), NEW x, Become(u, x),
           UNCHANGED <<units, machine, data, pending>>,
           status'[u] = status[u] \/ storage[u] # {},
           disk'[u].mounted \subseteq storage[u],
           x.event = hook[u].event,
           x.writes = TRUE /\ x.app.unit = u => x.ready = TRUE,
           \/ x.pc = "failed"
           \/ /\ x.pc \in {"promote", "publish", "commit"} /\ storage[u] # {}
              /\ \/ x.ready = TRUE
                 \/ /\ x.ready = hook[u].ready /\ x.pc # "publish"
                    /\ hook[u].pc # "oss" /\ "ost" \notin storage[u]
    PROVE  UnitProgress(u)'
<1>0. /\ UnitProgress(u) /\ hook'[u] = x /\ u \in units
      /\ bag' = bag /\ app' = app /\ storage' = storage /\ units' = units
      /\ software' = software /\ usable' = usable /\ pending' = pending
      /\ hook[u].pc # "idle" /\ hook[u].pc # "failed" /\ hook[u].pc \in Running
  BY ProgressFacts DEF Become, machine, data, UnitsInv, InHook, Running
<1>1. InstalledLnet(u)'
  BY <1>0 DEF UnitProgress, InstalledLnet
<1>2. Returning(u)'
  BY <1>0 DEF UnitProgress, Returning, Start
<1>3. Equipped(u)'
  BY <1>0 DEF UnitProgress, Equipped, InHook, Running, Install, Start
<1>4. Reporting(u)'
  BY <1>0 DEF UnitProgress, Reporting, InHook, Running
<1>5. \A events : GoingOn(u, events) /\ (x.pc = "failed" \/ x.ready = TRUE \/ hook[u].pc # "oss")
        => GoingOn(u, events)'
  BY <1>0 DEF GoingOn, InHook, Running
<1>6. DueOss(u)'
  BY <1>0, <1>5 DEF UnitProgress, DueOss, GoingOn, Promoted, Install, Start, Changed, InHook
<1>7. DueMgs(u)'
  BY <1>0, <1>5 DEF UnitProgress, DueMgs, GoingOn, Promoted, Changed, InHook
<1> QED
  BY <1>1, <1>2, <1>3, <1>4, <1>6, <1>7 DEF UnitProgress

LEMMA MgsMdsSetupRuns ==
    ASSUME OneKind, MaxFaults = 0, ProgressInv, NEW u \in Units, MgsMdsSetup(u)
    PROVE  UnitProgress(u)'
<1> DEFINE m == "mgt-mdt"
           n == [host |-> u, addr |-> address[u]]
           x == [hook[u] EXCEPT !.pc = "promote", !.nids = n]
<1>0. /\ UnitProgress(u) /\ hook[u] \in Hook /\ InHook(u) /\ hook[u].pc = "mgs"
      /\ disk \in [Units -> Disk] /\ disk[u] \in Disk
      /\ UNCHANGED <<units, machine, data, pending>>
  BY ProgressFacts DEF MgsMdsSetup, InHook, Running
<1>1. m \in storage[u] /\ m \in Kinds /\ "ost" \notin storage[u]
  BY <1>0, ProgressFacts, StorageAssumption DEF MgsInv, StorageInv, OneKind, Kinds
<1>2. /\ disk' = [disk EXCEPT ![u] = Mount(FormatMgs(disk[u]), m)]
      /\ Become(u, x) /\ status' = status
  BY <1>0, NoFailure DEF MgsMdsSetup
<1>3. Mount(FormatMgs(disk[u]), m).mounted = disk[u].mounted \cup {m}
  BY <1>0, <1>1, DiskType, MountAdds, NidsFacts
<1>4. disk'[u].mounted \subseteq storage[u]
  BY <1>0, <1>1, <1>2, <1>3 DEF UnitProgress, Equipped
<1>5. /\ x.pc = "promote" /\ x.event = hook[u].event /\ x.app = hook[u].app
      /\ x.writes = hook[u].writes /\ x.ready = hook[u].ready
  BY <1>0 DEF Hook
<1>6. x.writes = TRUE /\ x.app.unit = u => x.ready = TRUE
  BY <1>0, <1>5 DEF UnitProgress, Reporting
<1> HIDE DEF x
<1> QED
  BY <1>0, <1>1, <1>2, <1>4, <1>5, <1>6, RunsOn

LEMMA MgsNidsPublishedRuns ==
    ASSUME OneKind, ProgressInv, NEW u \in Units, MgsNidsPublished(u)
    PROVE  UnitProgress(u)'
<1> DEFINE h == hook[u]
           p == PromoteMgsNids(h, u, h.nids)
<1>0. /\ UnitProgress(u) /\ h \in Hook /\ InHook(u) /\ h.pc = "promote"
      /\ h.nids \in Nids /\ disk[u].mgs /\ disk' = disk
      /\ disk[u].mounted \subseteq storage[u]
      /\ UNCHANGED <<units, machine, data, pending>>
  BY ProgressFacts DEF MgsNidsPublished, InHook, Running, HookInv, HookOk,
                       PublishedFromMgs, Hook, NidsOrNone, UnitProgress, Equipped
<1>1. storage[u] # {} /\ "ost" \notin storage[u]
  BY <1>0, ProgressFacts, StorageAssumption DEF MgsInv, StorageInv, OneKind, Kinds
<1>2. h.writes = TRUE /\ h.app.unit = u => h.ready = TRUE
  BY <1>0 DEF UnitProgress, Reporting
<1>3. CASE Become(u, [h EXCEPT !.pc = "commit"])
  <2> DEFINE x == [h EXCEPT !.pc = "commit"]
  <2>1. /\ x.pc = "commit" /\ x.event = h.event /\ x.app = h.app /\ x.writes = h.writes
        /\ x.ready = h.ready
    BY <1>0 DEF Hook
  <2> HIDE DEF x
  <2>2. Become(u, x)
    BY <1>3 DEF x
  <2> QED
    BY <1>0, <1>1, <1>2, <2>1, <2>2, RunsOn
<1>4. CASE Become(u, [h EXCEPT !.pc = "commit", !.refresh = FALSE])
  <2> DEFINE x == [h EXCEPT !.pc = "commit", !.refresh = FALSE]
  <2>1. /\ x.pc = "commit" /\ x.event = h.event /\ x.app = h.app /\ x.writes = h.writes
        /\ x.ready = h.ready
    BY <1>0 DEF Hook
  <2> HIDE DEF x
  <2>2. Become(u, x)
    BY <1>4 DEF x
  <2> QED
    BY <1>0, <1>1, <1>2, <2>1, <2>2, RunsOn
<1>5. CASE Become(u, [p EXCEPT !.pc = "publish", !.ready = TRUE])
  <2> DEFINE x == [p EXCEPT !.pc = "publish", !.ready = TRUE]
  <2>1. p \in Hook /\ p.event = h.event
    BY <1>0, PromoteType DEF PromoteMgsNids, Hook
  <2> HIDE DEF p
  <2>2. x.pc = "publish" /\ x.event = h.event /\ x.ready = TRUE
    BY <2>1 DEF Hook
  <2> HIDE DEF x
  <2>3. Become(u, x)
    BY <1>5 DEF x
  <2> QED
    BY <1>0, <1>1, <2>2, <2>3, RunsOn
<1> QED
  BY <1>3, <1>4, <1>5 DEF MgsNidsPublished, StopWith

LEMMA OssSetupRuns ==
    ASSUME MaxFaults = 0, ProgressInv, NEW u \in Units, OssSetup(u)
    PROVE  UnitProgress(u)'
<1> DEFINE h == hook[u]
           new == Mount(FormatOst(disk[u], h.app.nids), "ost")
           x == [h EXCEPT !.pc = "publish", !.ready = TRUE]
<1>0. /\ UnitProgress(u) /\ h \in Hook /\ InHook(u) /\ h.pc = "oss"
      /\ h.app.nids \in NidsOrNone /\ disk \in [Units -> Disk] /\ disk[u] \in Disk
      /\ "ost" \in Kinds /\ "ost" \in storage[u] /\ disk[u].mounted \subseteq storage[u]
      /\ UNCHANGED <<units, machine, data, pending>>
  BY ProgressFacts, NidsFacts
  DEF OssSetup, InHook, Running, UnitProgress, Equipped, Kinds
<1>1. disk' = [disk EXCEPT ![u] = new] /\ Become(u, x)
  BY <1>0, NoFailure DEF OssSetup
<1>2. new.mounted = disk[u].mounted \cup {"ost"}
  BY <1>0, DiskType, MountAdds
<1>3. disk'[u].mounted \subseteq storage[u] /\ storage[u] # {}
  BY <1>0, <1>1, <1>2
<1>4. x.pc = "publish" /\ x.event = h.event /\ x.ready = TRUE
  BY <1>0 DEF Hook
<1> HIDE DEF x
<1> QED
  BY <1>0, <1>1, <1>3, <1>4, RunsOn

LEMMA TryPublishRuns ==
    ASSUME ProgressInv, NEW u \in Units, TryPublishFilesystemInfo(u)
    PROVE  UnitProgress(u)'
<1> DEFINE h == hook[u]
           e == IF leader = u /\ AllUnitsReady(u) THEN h.app.nids ELSE NoNids
           x == [h EXCEPT !.pc = "commit", !.endpoint = e]
<1>0. /\ h \in Hook /\ InHook(u) /\ h.ready = TRUE /\ storage[u] # {}
      /\ disk[u].mounted \subseteq storage[u] /\ disk' = disk
      /\ UNCHANGED <<units, machine, data, pending>> /\ Become(u, x)
  BY ProgressFacts DEF TryPublishFilesystemInfo, InHook, Running, UnitProgress,
                       Equipped, Reporting
<1> HIDE DEF e
<1>1. x.pc = "commit" /\ x.event = h.event /\ x.ready = TRUE
  BY <1>0 DEF Hook
<1> HIDE DEF x
<1> QED
  BY <1>0, <1>1, RunsOn

LEMMA FlushRefusedRuns ==
    ASSUME ProgressInv, NEW u \in Units, FlushRefused(u)
    PROVE  UnitProgress(u)'
<1> DEFINE x == Failed(hook[u].event)
<1>0. /\ UnitProgress(u) /\ InHook(u) /\ disk' = disk /\ Become(u, x)
      /\ status \in [Units -> {"unknown", "maintenance", "waiting", "active", "blocked"}]
      /\ status'[u] = Refreshed(u) /\ UNCHANGED <<units, machine, data, pending>>
  BY ProgressFacts DEF FlushRefused, InHook, Running, SetStatus
<1>1. status'[u] = status[u] \/ storage[u] # {}
  BY <1>0 DEF UnitProgress, Equipped, Refreshed
<1>2. x.pc = "failed" /\ x.event = hook[u].event /\ x.writes = FALSE
  BY FailedFacts
<1> HIDE DEF x
<1> QED
  BY <1>0, <1>1, <1>2, RunsOn DEF UnitProgress, Equipped

LEMMA CrashRuns ==
    ASSUME ProgressInv, NEW u \in Units, Crash(u)
    PROVE  UnitProgress(u)'
<1> DEFINE x == Failed(hook[u].event)
<1>0. /\ UnitProgress(u) /\ InHook(u) /\ Become(u, x) /\ TypeOK
      /\ disk \in [Units -> Disk] /\ status' = status
      /\ \E d \in PartlyProvisioned(u) : disk' = [disk EXCEPT ![u] = d]
      /\ UNCHANGED <<units, machine, data, pending>>
  BY ProgressFacts DEF Crash
<1>1. disk'[u].mounted = disk[u].mounted
  BY <1>0, PartlyMounted
<1>2. x.pc = "failed" /\ x.event = hook[u].event /\ x.writes = FALSE
  BY FailedFacts
<1> HIDE DEF x
<1> QED
  BY <1>0, <1>1, <1>2, RunsOn DEF UnitProgress, Equipped

(* A reboot repeats start, and what was running. *)
LEMMA RebootRuns ==
    ASSUME ProgressInv, NEW u \in Units, Reboot(u)
    PROVE  UnitProgress(u)'
<1>0. /\ UnitProgress(u) /\ u \in units /\ Install \notin pending[u]
      /\ hook \in [Units -> Hook] /\ pending \in [Units -> SUBSET Events]
      /\ usable \in [Units -> BOOLEAN]
      /\ PartlyProvisioned(u) \subseteq Disk /\ disk \in [Units -> Disk]
      /\ bag' = bag /\ app' = app /\ storage' = storage /\ units' = units
      /\ software' = software /\ status' = status
  BY ProgressFacts, PartlyProvisionedType DEF Reboot, data
<1>1. disk'[u].mounted = {}
  <2>1. PICK d \in PartlyProvisioned(u) : disk' = [disk EXCEPT ![u] = [d EXCEPT !.mounted = {}]]
    BY DEF Reboot
  <2>2. d \in Disk /\ [d EXCEPT !.mounted = {}].mounted = {}
    BY <1>0, <2>1 DEF Disk
  <2> QED
    BY <1>0, <2>1, <2>2
<1>2. /\ usable'[u] = (storage[u] = {})
      /\ pending'[u] = pending[u] \cup {Start}
  BY <1>0 DEF Reboot
<1>3. \/ hook'[u] = Failed(hook[u].event)
      \/ hook'[u] = hook[u] /\ ~InHook(u)
  BY <1>0 DEF Reboot, Become
<1>4. InstalledLnet(u)' /\ Returning(u)'
  BY <1>0, <1>2 DEF UnitProgress, InstalledLnet, Returning, Start
<1>5. Equipped(u)' /\ Reporting(u)'
  BY <1>0, <1>1, <1>2, <1>3, FailedFacts
  DEF UnitProgress, Equipped, Reporting, InHook, Running, Install, Start
<1>6. \A events : GoingOn(u, events) => GoingOn(u, events)'
  BY <1>3, FailedFacts DEF GoingOn, InHook, Running
<1>7. DueOss(u)'
  BY <1>2 DEF DueOss, Start
<1>8. DueMgs(u)'
  BY <1>0, <1>2, <1>6 DEF UnitProgress, DueMgs, GoingOn, Promoted, Changed, InHook
<1> QED
  BY <1>4, <1>5, <1>7, <1>8 DEF UnitProgress

LEMMA ReattachRuns ==
    ASSUME ProgressInv, NEW u \in Units, Reattach(u) \/ Elect(u)
    PROVE  UnitProgress(u)'
<1>0. /\ UnitProgress(u) /\ hook' = hook /\ pending' = pending /\ disk' = disk
      /\ bag' = bag /\ app' = app /\ storage' = storage /\ units' = units
      /\ software' = software /\ status' = status
      /\ usable'[u] = TRUE \/ usable'[u] = usable[u]
  BY ProgressFacts DEF Reattach, Elect, machine, data
<1>1. InstalledLnet(u)' /\ Returning(u)'
  BY <1>0 DEF UnitProgress, InstalledLnet, Returning, Install, Start
<1>2. Equipped(u)' /\ Reporting(u)'
  BY <1>0 DEF UnitProgress, Equipped, Reporting, InHook, BlankDisk, Install, Start
<1>3. DueOss(u)' /\ DueMgs(u)'
  BY <1>0 DEF UnitProgress, DueOss, DueMgs, GoingOn, InHook, Promoted, Install, Start,
              Changed
<1> QED
  BY <1>1, <1>2, <1>3 DEF UnitProgress

LEMMA AttachStorageRuns ==
    ASSUME ProgressInv, NEW u \in Units, NEW k \in Kinds, AttachStorage(u, k)
    PROVE  UnitProgress(u)'
<1>0. /\ UnitProgress(u) /\ u \in units /\ hook' = hook /\ disk' = disk
      /\ bag' = bag /\ app' = app /\ usable' = usable /\ units' = units
      /\ software' = software /\ status' = status
      /\ storage'[u] = storage[u] \cup {k} /\ pending'[u] = pending[u] \cup {Start}
  BY ProgressFacts DEF AttachStorage, data
<1>1. InstalledLnet(u)' /\ Returning(u)'
  BY <1>0 DEF UnitProgress, InstalledLnet, Returning, Install, Start
<1>2. Equipped(u)' /\ Reporting(u)'
  BY <1>0 DEF UnitProgress, Equipped, Reporting, InHook, BlankDisk, Install, Start
<1>3. DueOss(u)' /\ DueMgs(u)'
  BY <1>0 DEF UnitProgress, DueOss, DueMgs, GoingOn, InHook, Promoted, Install, Start,
              Changed
<1> QED
  BY <1>1, <1>2, <1>3 DEF UnitProgress

LEMMA AddUnitRuns ==
    ASSUME ProgressInv, NEW u \in Units, AddUnit(u)
    PROVE  UnitProgress(u)'
<1>0. /\ UnitProgress(u) /\ u \notin units /\ u \in units' /\ hook' = hook /\ disk' = disk
      /\ bag' = bag /\ app' = app /\ usable' = usable /\ storage' = storage
      /\ software' = software /\ status' = status
      /\ pending[u] = {} /\ hook[u].pc = "idle" /\ Install \in pending'[u]
      /\ app \in AppData /\ usable \in [Units -> BOOLEAN]
  BY ProgressFacts DEF AddUnit, UnitsInv, FirstEvents, machine, data
<1>1. usable[u] = TRUE
  BY <1>0 DEF UnitProgress, Returning
<1>2. Promoted(app) => app.unit # u
  <2>1. disk[u].mgs = FALSE
    BY <1>0 DEF UnitProgress, Equipped, BlankDisk
  <2> QED
    BY <2>1, ProgressFacts DEF SafeInv, PromotedMgsExists, PromotedFromMgs
<1>3. InstalledLnet(u)' /\ Returning(u)'
  BY <1>0, <1>1 DEF UnitProgress, InstalledLnet, Returning, Install
<1>4. Equipped(u)' /\ Reporting(u)'
  BY <1>0 DEF UnitProgress, Equipped, Reporting, InHook, Running, Install
<1>5. DueOss(u)' /\ DueMgs(u)'
  BY <1>0, <1>2 DEF DueOss, DueMgs, Promoted, Install
<1> QED
  BY <1>3, <1>4, <1>5 DEF UnitProgress

LEMMA UpdateStatusRuns ==
    ASSUME ProgressInv, NEW u \in Units, OnUpdateStatus(u)
    PROVE  UnitProgress(u)'
<1>0. /\ UnitProgress(u) /\ hook' = hook /\ pending' = pending /\ disk' = disk
      /\ bag' = bag /\ app' = app /\ storage' = storage /\ units' = units
      /\ software' = software /\ usable' = usable /\ hook[u].pc = "idle"
      /\ status'[u] = CheckLustre(u, app, status[u])
  BY ProgressFacts DEF OnUpdateStatus, SetStatus, machine, data
<1>1. storage[u] = {} /\ status[u] = "blocked" => status'[u] = "blocked"
  <2>1. storage[u] = {} => ~RoleMounted(u, app)
    BY <1>0 DEF UnitProgress, Equipped, RoleMounted
  <2> QED
    BY <1>0, <2>1, CheckBlocks
<1>2. InstalledLnet(u)' /\ Returning(u)'
  BY <1>0 DEF UnitProgress, InstalledLnet, Returning, Install, Start
<1>3. Equipped(u)' /\ Reporting(u)'
  BY <1>0, <1>1
  DEF UnitProgress, Equipped, Reporting, InHook, Running, BlankDisk, Install, Start
<1>4. DueOss(u)' /\ DueMgs(u)'
  BY <1>0 DEF UnitProgress, DueOss, DueMgs, GoingOn, InHook, Promoted, Install, Start,
              Changed
<1> QED
  BY <1>2, <1>3, <1>4 DEF UnitProgress

LEMMA InstallRuns ==
    ASSUME MaxFaults = 0, ProgressInv, NEW u \in Units, OnInstall(u)
    PROVE  UnitProgress(u)'
<1>0. /\ UnitProgress(u) /\ disk' = disk /\ hook \in [Units -> Hook]
      /\ pending \in [Units -> SUBSET Events]
      /\ software \in [Units -> {"none", "packages", "lnet"}]
      /\ bag' = bag /\ app' = app /\ storage' = storage /\ units' = units
      /\ usable' = usable
      /\ hook[u].pc = "idle" \/ (hook[u].pc = "failed" /\ hook[u].event = Install)
  BY ProgressFacts DEF OnInstall, Dispatchable, data
<1>1. /\ hook'[u] = Idle /\ pending'[u] = (pending[u] \ {Install}) \cup {Start}
      /\ software'[u] = "lnet"
  BY <1>0, NoFailure DEF OnInstall, Become
<1>2. InstalledLnet(u)' /\ Returning(u)'
  BY <1>0, <1>1 DEF UnitProgress, InstalledLnet, Returning, Start
<1>3. Equipped(u)' /\ Reporting(u)'
  BY <1>0, <1>1, IdleFacts
  DEF UnitProgress, Equipped, Reporting, InHook, Running, BlankDisk, Start
<1>4. DueOss(u)'
  BY <1>1 DEF DueOss, Start
<1>5. DueMgs(u)'
  <2>1. ~GoingOn(u, {Changed(NoUnit)})
    BY <1>0, EventsDiffer DEF GoingOn, InHook, Running
  <2> QED
    BY <1>0, <1>1, <2>1, EventsDiffer DEF UnitProgress, DueMgs, Promoted, Changed
<1> QED
  BY <1>2, <1>3, <1>4, <1>5 DEF UnitProgress

LEMMA FlushRuns ==
    ASSUME ProgressInv, NEW u \in Units, Flush(u)
    PROVE  UnitProgress(u)'
<1> DEFINE h == hook[u]
<1>0. /\ UnitProgress(u) /\ h \in Hook /\ InHook(u) /\ h.pc = "commit"
      /\ disk' = disk /\ storage' = storage /\ units' = units
      /\ software' = software /\ usable' = usable
      /\ pending'[u] = pending[u] /\ hook'[u] = Idle /\ bag'[u].ready = h.ready
      /\ status'[u] = Refreshed(u) /\ bag[u].ready \in BOOLEAN
  BY ProgressFacts DEF Flush, machine, InHook, Running, Become, SetStatus
<1>1. app' = IF h.writes = TRUE THEN h.app ELSE app
  BY <1>0 DEF Flush, Hook
<1>2. InstalledLnet(u)' /\ Returning(u)'
  BY <1>0 DEF UnitProgress, InstalledLnet, Returning, Start
<1>3. storage[u] = {} => status'[u] = status[u]
  BY <1>0 DEF UnitProgress, Equipped, Refreshed
<1>4. Equipped(u)' /\ Reporting(u)'
  BY <1>0, <1>3, IdleFacts
  DEF UnitProgress, Equipped, Reporting, InHook, Running, BlankDisk, Install, Start
<1>5. bag[u].ready => h.ready
  BY <1>0 DEF UnitProgress, Reporting
<1>6. DueOss(u)'
  BY <1>0 DEF UnitProgress, Reporting, DueOss, Start, Hook
<1>7. DueMgs(u)'
  <2> SUFFICES ASSUME Promoted(app'), app'.unit = u, ~h.ready
               PROVE  Changed(NoUnit) \in pending[u]
    BY <1>0 DEF DueMgs, Promoted, Changed
  <2>1. h.writes # TRUE /\ app' = app
    BY <1>0, <1>1 DEF UnitProgress, Reporting
  <2>2. ~GoingOn(u, {Changed(NoUnit)})
    BY <1>0 DEF GoingOn
  <2> QED
    BY <1>0, <1>5, <2>1, <2>2 DEF UnitProgress, DueMgs
<1> QED
  BY <1>2, <1>4, <1>6, <1>7 DEF UnitProgress

(* A hook that start begins, or ends. *)
LEMMA StartRuns ==
    ASSUME OneKind, ProgressInv, NEW u \in Units, OnStart(u)
    PROVE  UnitProgress(u)'
<1> DEFINE h == [Dispatched(u, Start) EXCEPT !.refresh = TRUE]
<1>0. /\ UnitProgress(u) /\ UnitsInv /\ hook \in [Units -> Hook] /\ TypeOK
      /\ pending \in [Units -> SUBSET Events] /\ usable \in [Units -> BOOLEAN]
      /\ disk' = disk /\ bag' = bag /\ app' = app /\ storage' = storage
      /\ units' = units /\ software' = software /\ usable' = usable
      /\ storage \in [Units -> SUBSET Kinds]
      /\ status \in [Units -> {"unknown", "maintenance", "waiting", "active", "blocked"}]
      /\ hook[u].pc = "idle" \/ (hook[u].pc = "failed" /\ hook[u].event = Start)
  BY ProgressFacts DEF OnStart, Dispatchable, machine, data
<1>1. u \in units
  BY <1>0 DEF OnStart, Dispatchable, UnitsInv
<1>2. pending'[u] \in {pending[u], pending[u] \ {Start}}
  BY <1>0 DEF OnStart, Consume
<1>3. /\ Install \in pending'[u] <=> Install \in pending[u]
      /\ Changed(NoUnit) \in pending'[u] <=> Changed(NoUnit) \in pending[u]
      /\ ~GoingOn(u, {Changed(NoUnit)})
  BY <1>0, <1>2, EventsDiffer DEF GoingOn, InHook, Running
<1>4. JustDispatched(u, Start, h)
  BY <1>0, DispatchedFacts, EventFacts
<1>5. storage[u] # Kinds
  BY ProgressFacts, StorageAssumption DEF OneKind, StorageInv
<1>6. \/ /\ software[u] = "none" /\ Become(u, Idle)
      \/ /\ software[u] # "none" /\ ~usable[u] /\ Become(u, Failed(Start))
      \/ /\ software[u] # "none" /\ usable[u] /\ "ost" \notin storage[u]
         /\ status'[u] = "blocked" /\ Become(u, Idle)
      \/ /\ software[u] # "none" /\ usable[u] /\ storage[u] = {"mgt-mdt"}
         /\ Become(u, ToMgsMds(u, h))
      \/ /\ software[u] # "none" /\ usable[u] /\ storage[u] = {"ost"}
         /\ Become(u, ToOss(h))
      \/ /\ software[u] # "none" /\ usable[u] /\ storage[u] = {"ost"}
         /\ ~Promoted(h.app) /\ Become(u, Idle)
  BY <1>0, <1>5 DEF OnStart, StorageUnavailable, StartBlocks, SetStatus
<1> HIDE DEF h
<1>7. ASSUME NEW x, Become(u, x), x.pc \in {"idle", "failed", "mgs", "oss"},
             x.writes = FALSE, x.pc \in {"mgs", "oss"} => x.ready = bag[u].ready,
             x.pc \in {"failed", "oss"} => x.event = Start,
             software[u] = "none" => x.pc = "idle",
             software[u] = "none" \/ usable[u] \/ x.pc = "failed",
             x.pc \in {"mgs", "oss"} => storage[u] # {},
             x.pc = "oss" => "ost" \in storage[u],
             \/ software[u] = "none" \/ ~usable[u] \/ storage[u] # {}
             \/ status'[u] = "blocked",
             Promoted(app) /\ "ost" \in storage[u] =>
                software[u] = "none" \/ x.pc \in {"failed", "oss"}
      PROVE  UnitProgress(u)'
  <2>1. hook'[u] = x
    BY <1>0, <1>7 DEF Become
  <2>2. software[u] = "none" => Install \in pending[u] /\ usable[u] = TRUE
    BY <1>0, <1>1 DEF UnitProgress, InstalledLnet
  <2>3. InstalledLnet(u)'
    BY <1>0, <1>3, <1>7, <2>1, <2>2 DEF UnitProgress, InstalledLnet, Install
  <2>4. Returning(u)'
    BY <1>0, <1>7, <2>1, <2>2 DEF UnitProgress, Returning, Start
  <2>5. Equipped(u)'
    <3>1. ~usable[u] => storage[u] # {}
      BY <1>0 DEF UnitProgress, Returning
    <3> QED
      BY <1>0, <1>1, <1>3, <1>7, <2>1, <2>2, <3>1
      DEF UnitProgress, Equipped, InHook, Running, Install, Start
  <2>6. Reporting(u)'
    BY <1>0, <1>7, <2>1 DEF Reporting, InHook, Running
  <2>7. DueOss(u)'
    BY <1>0, <1>3, <1>7, <2>1, <2>2
    DEF DueOss, GoingOn, InHook, Running, Promoted, Install, Start, Changed
  <2>8. DueMgs(u)'
    BY <1>0, <1>3 DEF UnitProgress, DueMgs, Promoted, Changed
  <2> QED
    BY <2>3, <2>4, <2>5, <2>6, <2>7, <2>8 DEF UnitProgress
<1>8. CASE Become(u, Idle)
  <2>1. ~Become(u, Failed(Start)) /\ ~Become(u, ToMgsMds(u, h)) /\ ~Become(u, ToOss(h))
    <3>1. ToMgsMds(u, h).pc = "mgs" /\ ToOss(h).pc = "oss"
      BY <1>4 DEF JustDispatched, ToMgsMds, ToOss, Hook
    <3> QED
      BY <1>0, <1>8, <3>1, IdleFacts, FailedFacts DEF Become
  <2>2. h.app = app
    BY <1>4 DEF JustDispatched
  <2> QED
    BY <1>6, <1>7, <1>8, <2>1, <2>2, IdleFacts
<1>9. CASE software[u] # "none" /\ ~usable[u] /\ Become(u, Failed(Start))
  BY <1>7, <1>9, FailedFacts
<1>10. CASE /\ software[u] # "none" /\ usable[u] /\ storage[u] = {"mgt-mdt"}
            /\ Become(u, ToMgsMds(u, h))
  <2> DEFINE x == ToMgsMds(u, h)
  <2>1. x.pc = "mgs" /\ x.writes = FALSE /\ x.ready = bag[u].ready
    BY <1>4 DEF JustDispatched, ToMgsMds, Hook
  <2> HIDE DEF x
  <2>2. Become(u, x)
    BY <1>10 DEF x
  <2> QED
    BY <1>7, <1>10, <2>1, <2>2
<1>11. CASE /\ software[u] # "none" /\ usable[u] /\ storage[u] = {"ost"}
            /\ Become(u, ToOss(h))
  <2> DEFINE x == ToOss(h)
  <2>1. x.pc = "oss" /\ x.event = Start /\ x.writes = FALSE /\ x.ready = bag[u].ready
    BY <1>4 DEF JustDispatched, ToOss, Hook
  <2> HIDE DEF x
  <2>2. Become(u, x)
    BY <1>11 DEF x
  <2> QED
    BY <1>7, <1>11, <2>1, <2>2
<1> QED
  BY <1>6, <1>8, <1>9, <1>10, <1>11

(* relation-changed leaves whatever else makes the unit ready, and when it is the
   app databag that changed, it goes on itself or leaves the OST to start. *)
LEMMA RelationChangedRuns ==
    ASSUME OneKind, ProgressInv, NEW u \in Units, NEW v \in Units \cup {NoUnit},
           OnRelationChanged(u, v)
    PROVE  UnitProgress(u)'
<1> DEFINE s == IF Observes(u, v) /\ ~bag[v].ready THEN {v} ELSE {}
           seen == [Dispatched(u, Changed(v)) EXCEPT !.refresh = TRUE, !.stale = s]
           h == IF Candidate(u, v) THEN PromoteMgsNids(seen, v, bag[v].nids) ELSE seen
<1>0. /\ TypeOK /\ SafeInv /\ UnitProgress(u) /\ UnitsInv
      /\ hook \in [Units -> Hook] /\ pending \in [Units -> SUBSET Events]
      /\ usable \in [Units -> BOOLEAN] /\ app' = app /\ bag' = bag
      /\ disk' = disk /\ storage' = storage /\ units' = units
      /\ software' = software /\ usable' = usable
      /\ status \in [Units -> {"unknown", "maintenance", "waiting", "active", "blocked"}]
  BY ProgressFacts DEF OnRelationChanged, machine, data
<1>1. /\ \/ hook[u].pc = "failed" /\ hook[u].event = Changed(v)
         \/ hook[u].pc = "idle" /\ Install \notin pending[u] /\ Start \notin pending[u]
      /\ u \in units
  BY <1>0 DEF OnRelationChanged, Dispatchable, Changed, UnitsInv
<1>2. pending'[u] \in {pending[u], pending[u] \ {Changed(v)}}
  BY <1>0 DEF OnRelationChanged, Consume
<1>3. /\ Install \in pending'[u] <=> Install \in pending[u]
      /\ Start \in pending'[u] <=> Start \in pending[u]
      /\ v # NoUnit => /\ Changed(NoUnit) \in pending'[u] <=> Changed(NoUnit) \in pending[u]
                       /\ ~GoingOn(u, {Changed(NoUnit)})
                       /\ ~GoingOn(u, {Start, Changed(NoUnit)})
  BY <1>1, <1>2, EventsDiffer DEF GoingOn, InHook, Running
<1>4. software[u] = "lnet" /\ (usable[u] = FALSE => Start \in pending[u])
  BY <1>0, <1>1, EventsDiffer DEF UnitProgress, InstalledLnet, Returning
<1>5. InstalledLnet(u)' /\ Returning(u)'
  BY <1>0, <1>3, <1>4 DEF UnitProgress, InstalledLnet, Returning, Start
<1>6. PromotionRefused(u, v, seen.app) \/ Reconfigure(u, h)
  BY DEF OnRelationChanged
<1>7. s \in SUBSET Units /\ Changed(v) \in Events /\ h \in Hook
  BY <1>0, EventFacts, ObservedType DEF Observes
<1> HIDE DEF s
<1>8. JustDispatched(u, Changed(v), seen)
  BY <1>0, <1>7, DispatchedFacts
<1> HIDE DEF seen
<1>9. /\ h.event = Changed(v) /\ h.ready = bag[u].ready
      /\ h.app = app \/ ~Promoted(app)
  BY <1>8 DEF JustDispatched, PromoteMgsNids, Hook
<1>10. h.app \in AppData
  BY <1>7 DEF Hook
<1> HIDE DEF h
<1>11. CASE /\ Become(u, Idle) /\ status'[u] \in {status[u], "blocked"}
            /\ v # NoUnit \/ ~Promoted(app)
  <2>1. hook'[u] = Idle
    BY <1>0, <1>11 DEF Become
  <2>2. Equipped(u)' /\ Reporting(u)'
    BY <1>0, <1>1, <1>3, <1>11, <2>1, IdleFacts
    DEF UnitProgress, Equipped, Reporting, InHook, Running, Install, Start
  <2>3. DueOss(u)' /\ DueMgs(u)'
    BY <1>0, <1>3, <1>11
    DEF UnitProgress, DueOss, DueMgs, Promoted, Install, Start, Changed
  <2> QED
    BY <1>5, <2>2, <2>3 DEF UnitProgress
<1>12. ASSUME NEW x, Become(u, x), Promoted(h.app), x.app = h.app,
              x.event = Changed(v), status'[u] = status[u],
              x.pc \in {"publish", "oss", "commit"},
              \/ x.ready = TRUE /\ x.app.unit = u
              \/ x.ready = bag[u].ready /\ x.app.unit # u,
              x.pc = "publish" => x.ready = TRUE /\ x.app.unit = u,
              x.pc = "oss" => "ost" \in storage[u],
              x.pc = "commit" =>
                 x.refresh = FALSE /\ x.app.unit # u
                 /\ ("ost" \notin storage[u] \/ usable[u] = FALSE)
       PROVE  UnitProgress(u)'
  <2>1. hook'[u] = x
    BY <1>0, <1>12 DEF Become
  <2>2. x.pc = "publish" => storage[u] # {} /\ "ost" \notin storage[u]
    <3>1. SafeInv'
      BY <1>0, StepSafe DEF Dispatch
    <3>2. PromotedFromMgs(disk, h.app)
      BY <1>0, <1>12, <2>1, <3>1 DEF SafeInv, HookInv, HookOk, PromotedFromMgs, Promoted
    <3> QED
      BY <1>10, <1>12, <3>2, KindOfMgs
  <2>3. Equipped(u)'
    BY <1>0, <1>1, <1>3, <1>12, <2>1, <2>2
    DEF UnitProgress, Equipped, Install, Start
  <2>4. Reporting(u)'
    BY <1>0, <1>3, <1>4, <1>12, <2>1 DEF Reporting, InHook, Running, Start
  <2>5. DueOss(u)'
    <3>1. v = NoUnit /\ x.pc = "oss" => GoingOn(u, {Start, Changed(NoUnit)})'
      BY <1>12, <2>1 DEF GoingOn, Start, Changed
    <3> QED
      BY <1>0, <1>3, <1>4, <1>12, <2>2, <3>1
      DEF UnitProgress, DueOss, Promoted, Install, Start, Changed
  <2>6. DueMgs(u)'
    <3>1. Promoted(app) => h.app = app
      BY <1>9
    <3>2. v = NoUnit /\ x.app.unit = u => GoingOn(u, {Changed(NoUnit)})'
      BY <1>12, <2>1 DEF GoingOn, InHook, Running, Changed
    <3> QED
      BY <1>0, <1>3, <1>12, <3>1, <3>2 DEF UnitProgress, DueMgs, Promoted, Changed
  <2> QED
    BY <1>5, <2>3, <2>4, <2>5, <2>6 DEF UnitProgress
<1>13. CASE PromotionRefused(u, v, seen.app)
  <2>1. v # NoUnit /\ Become(u, Idle) /\ status'[u] \in {status[u], "blocked"}
    BY <1>0, <1>13 DEF PromotionRefused, Candidate, Observes, SetStatus
  <2> QED
    BY <1>11, <2>1
<1>14. CASE ~Promoted(h.app) /\ Become(u, Idle) /\ status' = status
  BY <1>9, <1>11, <1>14
<1>15. CASE /\ Promoted(h.app) /\ status' = status /\ h.app.unit = u
            /\ Become(u, [h EXCEPT !.pc = "publish", !.ready = TRUE])
  <2> DEFINE x == [h EXCEPT !.pc = "publish", !.ready = TRUE]
  <2>1. x.pc = "publish" /\ x.event = Changed(v) /\ x.app = h.app /\ x.ready = TRUE
    BY <1>7, <1>9 DEF Hook
  <2> HIDE DEF x
  <2>2. Become(u, x)
    BY <1>15 DEF x
  <2> QED
    BY <1>12, <1>15, <2>1, <2>2
<1>16. CASE /\ Promoted(h.app) /\ status' = status /\ h.app.unit # u
            /\ "ost" \in storage[u] /\ Become(u, ToOss(h))
  <2> DEFINE x == ToOss(h)
  <2>1. x.pc = "oss" /\ x.event = Changed(v) /\ x.app = h.app /\ x.ready = bag[u].ready
    BY <1>7, <1>9 DEF Hook, ToOss
  <2> HIDE DEF x
  <2>2. Become(u, x)
    BY <1>16 DEF x
  <2> QED
    BY <1>12, <1>16, <2>1, <2>2
<1>17. CASE /\ Promoted(h.app) /\ h.app.unit # u
            /\ "ost" \notin storage[u] \/ usable[u] = FALSE
            /\ StopWith(u, h, status[u])
  <2> DEFINE x == [h EXCEPT !.pc = "commit", !.refresh = FALSE]
  <2>1. /\ x.pc = "commit" /\ x.event = Changed(v) /\ x.app = h.app
        /\ x.ready = bag[u].ready /\ x.refresh = FALSE
    BY <1>7, <1>9 DEF Hook
  <2> HIDE DEF x
  <2>2. Become(u, x) /\ status'[u] = status[u]
    BY <1>0, <1>17 DEF StopWith, SetStatus, x
  <2> QED
    BY <1>12, <1>17, <2>1, <2>2
<1>18. \/ ~Promoted(h.app) /\ Become(u, Idle) /\ status' = status
       \/ /\ Promoted(h.app) /\ status' = status /\ h.app.unit = u
          /\ Become(u, [h EXCEPT !.pc = "publish", !.ready = TRUE])
       \/ /\ Promoted(h.app) /\ status' = status /\ h.app.unit # u
          /\ "ost" \in storage[u] /\ Become(u, ToOss(h))
       \/ /\ Promoted(h.app) /\ h.app.unit # u
          /\ "ost" \notin storage[u] \/ usable[u] = FALSE
          /\ StopWith(u, h, status[u])
       \/ PromotionRefused(u, v, seen.app)
  BY <1>0, <1>6 DEF Reconfigure, IsMgs
<1> QED
  BY <1>13, <1>14, <1>15, <1>16, <1>17, <1>18

LEMMA ProgressStep ==
    ASSUME OneKind, MaxFaults = 0, ProgressInv, NEW u \in Units,
           HookStep(u) \/ Dispatch(u) \/ OnUpdateStatus(u) \/ Environment(u)
    PROVE  ProgressInv'
<1>1. RoleInv' /\ UnitsInv'
  BY ProgressFacts, RoleStep, UnitsStep
<1>2. \A v \in Units \ {u} : UnitProgress(v)'
  BY OtherProgress
<1>3. UnitProgress(u)'
  <2>1. CASE HookStep(u)
    BY <2>1, MgsMdsSetupRuns, MgsNidsPublishedRuns, OssSetupRuns, TryPublishRuns,
       FlushRuns, FlushRefusedRuns DEF HookStep
  <2>2. CASE Dispatch(u)
    BY <2>2, InstallRuns, StartRuns, RelationChangedRuns DEF Dispatch
  <2>3. CASE OnUpdateStatus(u)
    BY <2>3, UpdateStatusRuns
  <2>4. CASE Environment(u)
    BY <2>4, CrashRuns, RebootRuns, ReattachRuns, AddUnitRuns, AttachStorageRuns
    DEF Environment
  <2> QED
    BY <2>1, <2>2, <2>3, <2>4
<1>4. \A v \in Units : UnitProgress(v)'
  BY <1>2, <1>3
<1> QED
  BY <1>1, <1>4 DEF ProgressInv

LEMMA ProgressInit ==
    ASSUME Init
    PROVE  ProgressInv
<1>1. RoleInv /\ UnitsInv
  BY RoleInvInductive, IdleFacts DEF Init, UnitsInv
<1>2. ASSUME NEW v \in Units PROVE UnitProgress(v)
  <2>1. /\ hook[v] = Idle /\ disk[v] = BlankDisk /\ software[v] = "none"
        /\ usable[v] = TRUE /\ ~Promoted(app) /\ BlankDisk.mounted = {}
        /\ v \in units => Install \in pending[v]
    BY DEF Init, Promoted, NoApp, BlankDisk, FirstEvents
  <2>2. InstalledLnet(v) /\ Returning(v)
    BY <2>1, IdleFacts DEF InstalledLnet, Returning
  <2>3. Equipped(v) /\ Reporting(v)
    BY <2>1, IdleFacts DEF Equipped, Reporting, InHook, Running
  <2>4. DueOss(v) /\ DueMgs(v)
    BY <2>1 DEF DueOss, DueMgs
  <2> QED
    BY <2>2, <2>3, <2>4 DEF UnitProgress
<1> QED
  BY <1>1, <1>2 DEF ProgressInv

(* Where no command fails, a unit that is not ready and has nothing left to do shows
   Blocked however often hooks crash, machines reboot and the leader changes, and
   whatever addresses the units come back with: a crash or a lost election repeats
   the event that leads to readiness, and no event is used up without it
   (charm.py:162-202, lustre_peer.py:82-115, 262-294).  The hypothesis on storage
   cannot be dropped: where start mounts the OST of the leader, crashes before it has
   reported that, and finds storage for the MGS attached when it is retried, the unit
   is blocked and update-status later shows it Active, since its OST is mounted. *)
THEOREM RetriesLeaveNoSilentStall ==
    ASSUME OneMgs, OneKind, MaxFaults = 0
    PROVE  Spec => []NoSilentStall
<1>1. Init => ProgressInv
  BY ProgressInit
<1>2. ProgressInv /\ [Next]_vars => ProgressInv'
  <2> SUFFICES ASSUME ProgressInv, [Next]_vars PROVE ProgressInv'
    OBVIOUS
  <2>1. CASE Next
    BY <2>1, ProgressStep DEF Next
  <2>2. CASE UNCHANGED vars
    <3>0. RoleInv /\ UnitsInv /\ \A v \in Units : UnitProgress(v)
      BY DEF ProgressInv
    <3>1. RoleInv'
      BY <2>2, <3>0, RoleInvInductive
    <3>2. /\ UNCHANGED <<leader, units, storage, usable, software, disk, status, app>>
          /\ UNCHANGED <<bag, pending, hook>>
      BY <2>2 DEF vars, machine, data
    <3>3. UnitsInv'
      BY <3>0, <3>2 DEF UnitsInv
    <3>4. ASSUME NEW v \in Units PROVE UnitProgress(v)'
      <4>1. InstalledLnet(v)' /\ Returning(v)'
        BY <3>0, <3>2 DEF UnitProgress, InstalledLnet, Returning, Install, Start
      <4>2. Equipped(v)' /\ Reporting(v)'
        BY <3>0, <3>2
        DEF UnitProgress, Equipped, Reporting, InHook, BlankDisk, Install, Start
      <4>3. DueOss(v)' /\ DueMgs(v)'
        BY <3>0, <3>2
        DEF UnitProgress, DueOss, DueMgs, GoingOn, InHook, Promoted, Install, Start,
            Changed
      <4> QED
        BY <4>1, <4>2, <4>3 DEF UnitProgress
    <3> QED
      BY <3>1, <3>3, <3>4 DEF ProgressInv
  <2> QED
    BY <2>1, <2>2
<1>3. ProgressInv => NoSilentStall
  <2> SUFFICES ASSUME ProgressInv, Promoted(app), NEW u \in units, Quiet(u),
                      ~bag[u].ready
               PROVE  status[u] = "blocked"
    BY DEF NoSilentStall
  <2>1. u \in Units /\ UnitProgress(u) /\ app \in AppData /\ PromotedFromMgs(disk, app)
    BY ProgressFacts DEF SafeInv, PromotedMgsExists, ProgressInv, RoleInv, TypeOK
  <2>2. \A events : ~GoingOn(u, events)
    BY DEF Quiet, GoingOn, InHook, Running
  <2>3. "ost" \notin storage[u] /\ app.unit # u
    BY <2>1, <2>2 DEF UnitProgress, DueOss, DueMgs, Quiet
  <2>4. storage[u] = {}
    BY <2>1, <2>3, NoStorageAtAll DEF ProgressInv
  <2> QED
    BY <2>1, <2>4 DEF UnitProgress, Equipped, Quiet
<1> QED
  BY <1>1, <1>2, <1>3, PTL DEF Spec
=============================================================================
