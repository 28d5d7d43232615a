--------------------- MODULE LustrePeerDeployment_proofs ---------------------
(* Safety theorems of LustrePeer that need something of the deployment.  Either its
   leader stays, or it has a single unit that can become the MGS; then elections are
   possible at any time, settled or not.  Any number of OSS units, crashes, faults. *)
EXTENDS LustrePeer_proofs, FiniteSetTheorems

(* _on_start makes an MGS of a unit with storage for the MGS alone, so that a unit
   deployed with storage for an OST never becomes one, whatever is attached to it
   later (charm.py:171-202). *)
MayBeMgs(u) == "mgt-mdt" \in MaxStorage[u] /\ "ost" \notin InitStorage[u]
OneMgs == \A u, v \in Units : MayBeMgs(u) /\ MayBeMgs(v) => u = v

-----------------------------------------------------------------------------
(* What a step of unit u makes of its hook: nothing, an end, a beginning from the
   committed databags, or one step further. *)

AtEnd(x) ==
    /\ x.pc \in {"idle", "failed"} /\ x.app = NoApp /\ x.writes = FALSE
    /\ x.nids = NoNids /\ x.ready = FALSE /\ x.endpoint = NoNids

Begins(u, x) ==
    /\ x.pc \in {"mgs", "oss", "publish", "commit"}
    /\ x.event.kind = "changed" => Promoted(x.app)
    /\ x.nids = bag[u].nids /\ x.endpoint = NoNids
    /\ \/ x.app = app /\ x.writes = FALSE
       \/ /\ ~Promoted(app) /\ x.writes = TRUE
          /\ \E v \in Units : /\ bag[v].nids \in Nids
                              /\ x.app = [unit |-> v, nids |-> bag[v].nids]
    /\ IF x.pc = "publish" THEN x.ready = TRUE /\ Promoted(x.app) /\ x.app.unit = u
       ELSE x.ready = bag[u].ready
    /\ x.pc = "mgs" => storage[u] = {"mgt-mdt"}
    /\ x.pc = "oss" => \/ x.app.unit # u
                       \/ storage[u] = {"ost"} /\ x.app = app /\ Promoted(app)

Offers(u, x) ==
    /\ hook[u].pc = "publish" /\ x.pc = "commit" /\ AllUnitsReady(u)
    /\ x.endpoint = x.app.nids

GoesOn(u, x) ==
    /\ hook[u].pc \in Running
    /\ x.pc \in {"promote", "publish", "commit"}
    /\ x.event = hook[u].event
    /\ \/ x.nids = hook[u].nids
       \/ x.nids = [host |-> u, addr |-> address[u]] /\ x.pc = "promote"
    /\ hook[u].pc = "promote" /\ leader = u => Promoted(x.app)
    /\ \/ x.app = hook[u].app /\ x.writes = hook[u].writes
       \/ /\ ~Promoted(hook[u].app) /\ x.writes = TRUE /\ hook[u].nids \in Nids
          /\ x.app = [unit |-> u, nids |-> hook[u].nids]
    /\ IF x.pc = "publish"
       THEN /\ x.ready = TRUE
            /\ (Promoted(x.app) /\ x.app.unit = u) \/ disk'[u].ost # NoNids
       ELSE x.ready = hook[u].ready
    /\ x.endpoint = NoNids \/ x.endpoint = hook[u].endpoint \/ Offers(u, x)

Moves(u, x) == x = hook[u] \/ AtEnd(x) \/ Begins(u, x) \/ GoesOn(u, x)

LEMMA AtEndFacts == AtEnd(Idle) /\ \A e : AtEnd(Failed(e))
BY DEF AtEnd, Idle, Failed, AtRest

(* A hook h that was dispatched for event e and did nothing yet. *)
JustDispatched(u, e, h) ==
    /\ h \in Hook /\ h.event = e /\ h.app = app /\ h.writes = FALSE
    /\ h.nids = bag[u].nids /\ h.ready = bag[u].ready /\ h.endpoint = NoNids

LEMMA DispatchedFacts ==
    ASSUME TypeOK, NEW u \in Units, NEW e \in Events, NEW s \in SUBSET Units
    PROVE  /\ JustDispatched(u, e, [Dispatched(u, e) EXCEPT !.refresh = TRUE])
           /\ JustDispatched(u, e, [Dispatched(u, e) EXCEPT !.refresh = TRUE, !.stale = s])
<1>1. Dispatched(u, e) \in Hook /\ AtRest("idle", e) \in Hook
  BY DispatchedType, AtRestType
<1>2. LET d == Dispatched(u, e) IN
      /\ d.event = e /\ d.app = app /\ d.writes = FALSE
      /\ d.nids = bag[u].nids /\ d.ready = bag[u].ready /\ d.endpoint = NoNids
  BY <1>1 DEF Dispatched, AtRest, Hook
<1> QED
  BY <1>1, <1>2 DEF Hook, JustDispatched

LEMMA OnStartMoves ==
    ASSUME SafeInv, NEW u \in Units, OnStart(u)
    PROVE  \E x : hook' = [hook EXCEPT ![u] = x] /\ Moves(u, x)
<1> DEFINE h == [Dispatched(u, Start) EXCEPT !.refresh = TRUE]
<1>0. TypeOK /\ Start \in Events /\ app \in AppData
  BY EventFacts DEF SafeInv, TypeOK
<1>1. JustDispatched(u, Start, h)
  BY <1>0, DispatchedFacts
<1>2. \/ Become(u, Idle) \/ Become(u, Failed(Start))
      \/ storage[u] = {"mgt-mdt"} /\ Become(u, ToMgsMds(u, h))
      \/ storage[u] = {"ost"} /\ Promoted(h.app) /\ Become(u, ToOss(h))
  BY DEF OnStart, StorageUnavailable
<1> HIDE DEF h
<1>3. storage[u] = {"mgt-mdt"} => Begins(u, ToMgsMds(u, h))
  BY <1>1 DEF JustDispatched, Start, Begins, ToMgsMds, Hook
<1>4. storage[u] = {"ost"} /\ Promoted(h.app) => Begins(u, ToOss(h))
  BY <1>1 DEF JustDispatched, Begins, ToOss, Hook
<1> QED
  BY <1>2, <1>3, <1>4, AtEndFacts DEF Become, Moves

LEMMA OnRelationChangedMoves ==
    ASSUME SafeInv, NEW u \in Units, NEW v \in Units \cup {NoUnit},
           OnRelationChanged(u, v)
    PROVE  \E x : hook' = [hook EXCEPT ![u] = x] /\ Moves(u, x)
<1> DEFINE s == IF Observes(u, v) /\ ~bag[v].ready THEN {v} ELSE {}
           seen == [Dispatched(u, Changed(v)) EXCEPT !.refresh = TRUE, !.stale = s]
           h == IF Candidate(u, v) THEN PromoteMgsNids(seen, v, bag[v].nids) ELSE seen
<1>0. TypeOK /\ Changed(v) \in Events /\ s \in SUBSET Units
  BY EventFacts DEF SafeInv, Observes
<1>1. PromotionRefused(u, v, seen.app) \/ Reconfigure(u, h)
  BY DEF OnRelationChanged
<1>2. h \in Hook
  BY <1>0, ObservedType
<1> HIDE DEF s
<1>10. JustDispatched(u, Changed(v), seen)
  BY <1>0, DispatchedFacts
<1>3. seen \in Hook /\ seen.app = app /\ seen.writes = FALSE
      /\ seen.nids = bag[u].nids /\ seen.ready = bag[u].ready /\ seen.endpoint = NoNids
  BY <1>10 DEF JustDispatched
<1>4. Candidate(u, v) => v \in Units /\ bag[v].nids \in Nids
  BY <1>0 DEF Candidate, Observes, TypeOK, UnitData, NidsOrNone
<1> HIDE DEF seen
<1>5. /\ h.nids = bag[u].nids /\ h.ready = bag[u].ready /\ h.endpoint = NoNids
      /\ \/ h.app = app /\ h.writes = FALSE
         \/ /\ ~Promoted(app) /\ h.writes = TRUE
            /\ \E w \in Units : /\ bag[w].nids \in Nids
                                /\ h.app = [unit |-> w, nids |-> bag[w].nids]
  <2>1. CASE Candidate(u, v) /\ ~Promoted(app)
    <3>1. h = PromoteMgsNids(seen, v, bag[v].nids)
      BY <2>1
    <3> HIDE DEF h
    <3>2. ~Promoted(seen.app)
      BY <1>3, <2>1
    <3>3. /\ h.nids = seen.nids /\ h.ready = seen.ready /\ h.endpoint = seen.endpoint
          /\ h.app = [unit |-> v, nids |-> bag[v].nids] /\ h.writes = TRUE
      BY <1>3, <3>1, <3>2 DEF PromoteMgsNids, Hook
    <3> QED
      BY <1>3, <1>4, <2>1, <3>3
  <2>2. CASE Candidate(u, v) /\ Promoted(app)
    <3>1. h = seen
      BY <1>3, <2>2 DEF PromoteMgsNids
    <3> QED
      BY <1>3, <3>1
  <2>3. CASE ~Candidate(u, v)
    BY <1>3, <2>3
  <2> QED
    BY <2>1, <2>2, <2>3
<1> HIDE DEF h
<1>6. \/ Become(u, Idle)
      \/ Promoted(h.app) /\ h.app.unit # u /\ Become(u, ToOss(h))
      \/ Promoted(h.app) /\ Become(u, [h EXCEPT !.pc = "commit", !.refresh = FALSE])
      \/ /\ Promoted(h.app) /\ h.app.unit = u
         /\ Become(u, [h EXCEPT !.pc = "publish", !.ready = TRUE])
  BY <1>1 DEF PromotionRefused, Reconfigure, StopWith, IsMgs
<1>7. Promoted(h.app) => Begins(u, [h EXCEPT !.pc = "commit", !.refresh = FALSE])
  BY <1>2, <1>5 DEF Begins, Hook
<1>8. Promoted(h.app) /\ h.app.unit # u => Begins(u, ToOss(h))
  BY <1>2, <1>5 DEF Begins, ToOss, Hook
<1>9. Promoted(h.app) /\ h.app.unit = u =>
        Begins(u, [h EXCEPT !.pc = "publish", !.ready = TRUE])
  BY <1>2, <1>5 DEF Begins, Hook
<1> QED
  BY <1>6, <1>7, <1>8, <1>9, AtEndFacts DEF Become, Moves

LEMMA MgsMdsSetupMoves ==
    ASSUME SafeInv, NEW u \in Units, MgsMdsSetup(u)
    PROVE  \E x : hook' = [hook EXCEPT ![u] = x] /\ Moves(u, x)
<1> DEFINE n == [host |-> u, addr |-> address[u]]
<1>0. hook[u] \in Hook /\ hook[u].pc \in Running /\ hook[u].pc # "promote"
  BY DEF SafeInv, TypeOK, MgsMdsSetup, Running
<1>1. GoesOn(u, [hook[u] EXCEPT !.pc = "promote", !.nids = n])
  BY <1>0 DEF GoesOn, Hook
<1>2. GoesOn(u, [hook[u] EXCEPT !.pc = "commit", !.refresh = FALSE])
  BY <1>0 DEF GoesOn, Hook
<1>3. \/ Become(u, [hook[u] EXCEPT !.pc = "promote", !.nids = n])
      \/ Become(u, [hook[u] EXCEPT !.pc = "commit", !.refresh = FALSE])
  BY DEF MgsMdsSetup, StopWith
<1> QED
  BY <1>1, <1>2, <1>3 DEF Become, Moves

LEMMA MgsNidsPublishedMoves ==
    ASSUME SafeInv, NEW u \in Units, MgsNidsPublished(u)
    PROVE  \E x : hook' = [hook EXCEPT ![u] = x] /\ Moves(u, x)
<1> DEFINE h == hook[u]
           a == [unit |-> u, nids |-> h.nids]
<1>0. /\ h \in Hook /\ h.pc \in Running /\ h.nids \in Nids
      /\ h.app \in AppData
  BY DEF SafeInv, TypeOK, HookInv, HookOk, MgsNidsPublished, Running, Hook, NidsOrNone
<1>1. leader # u => GoesOn(u, [h EXCEPT !.pc = "commit"])
  BY <1>0 DEF GoesOn, Hook
<1>4. leader # u \/ Promoted(h.app) =>
        GoesOn(u, [h EXCEPT !.pc = "commit", !.refresh = FALSE])
  BY <1>0 DEF GoesOn, Hook
<1>2. CASE leader = u /\ ~RefusesMgs(h.app, u, h.nids)
  <2> DEFINE p == PromoteMgsNids(h, u, h.nids)
  <2>1. Become(u, [p EXCEPT !.pc = "publish", !.ready = TRUE])
    BY <1>2 DEF MgsNidsPublished, StopWith
  <2>2. p \in Hook
    BY <1>0, PromoteType
  <2>3. /\ p.event = h.event /\ p.nids = h.nids /\ p.endpoint = h.endpoint
        /\ \/ p.app = h.app /\ p.writes = h.writes
           \/ ~Promoted(h.app) /\ p.app = a /\ p.writes = TRUE
    BY <1>0 DEF PromoteMgsNids, Hook
  <2>4. Promoted(p.app) /\ p.app.unit = u
    <3>1. CASE Promoted(h.app)
      <4>1. p = h
        BY <3>1 DEF PromoteMgsNids
      <4> QED
        BY <1>2, <3>1, <4>1 DEF RefusesMgs
    <3>2. CASE ~Promoted(h.app)
      <4>1. p.app = a
        BY <1>0, <3>2 DEF PromoteMgsNids, Hook
      <4>2. u # NoUnit /\ h.nids # NoNids
        BY <1>0, UnitsAssumption, NidsFacts
      <4> QED
        BY <4>1, <4>2 DEF Promoted
    <3> QED
      BY <3>1, <3>2
  <2> HIDE DEF p
  <2>5. GoesOn(u, [p EXCEPT !.pc = "publish", !.ready = TRUE])
    BY <1>0, <2>2, <2>3, <2>4 DEF GoesOn, Hook
  <2> QED
    BY <2>1, <2>5 DEF Become, Moves
<1>3. CASE ~(leader = u /\ ~RefusesMgs(h.app, u, h.nids))
  <2>1. \/ leader # u /\ Become(u, [h EXCEPT !.pc = "commit"])
        \/ /\ Promoted(h.app)
           /\ Become(u, [h EXCEPT !.pc = "commit", !.refresh = FALSE])
    BY <1>3 DEF MgsNidsPublished, StopWith, RefusesMgs
  <2> QED
    BY <1>1, <1>4, <2>1 DEF Become, Moves
<1> QED
  BY <1>2, <1>3

LEMMA OssSetupMoves ==
    ASSUME SafeInv, NEW u \in Units, OssSetup(u)
    PROVE  \E x : hook' = [hook EXCEPT ![u] = x] /\ Moves(u, x)
<1> DEFINE h == hook[u]
           new == Mount(FormatOst(disk[u], h.app.nids), "ost")
<1>0. /\ h \in Hook /\ h.pc \in Running /\ h.pc # "promote" /\ h.app.nids \in Nids
      /\ disk \in [Units -> Disk] /\ disk[u] \in Disk
  BY NidsFacts DEF SafeInv, TypeOK, HookInv, HookOk, OssSetup, Running, Hook
<1>1. GoesOn(u, [h EXCEPT !.pc = "commit", !.refresh = FALSE])
  BY <1>0 DEF GoesOn, Hook
<1>2. CASE /\ disk' = [disk EXCEPT ![u] = new]
           /\ Become(u, [h EXCEPT !.pc = "publish", !.ready = TRUE])
  <2>1. FormatOst(disk[u], h.app.nids) \in Disk
        /\ FormatOst(disk[u], h.app.nids).ost # NoNids
    BY <1>0, DiskType, CommandGrows, NidsFacts DEF Kinds, NidsOrNone
  <2>2. disk'[u].ost # NoNids
    BY <1>0, <1>2, <2>1, CommandGrows, NidsFacts DEF Kinds
  <2>3. GoesOn(u, [h EXCEPT !.pc = "publish", !.ready = TRUE])
    BY <1>0, <2>2 DEF GoesOn, Hook
  <2> QED
    BY <1>2, <2>3 DEF Become, Moves
<1>3. CASE Become(u, [h EXCEPT !.pc = "commit", !.refresh = FALSE])
  BY <1>1, <1>3 DEF Become, Moves
<1> QED
  BY <1>2, <1>3 DEF OssSetup, StopWith

LEMMA TryPublishFilesystemInfoMoves ==
    ASSUME SafeInv, NEW u \in Units, TryPublishFilesystemInfo(u)
    PROVE  \E x : hook' = [hook EXCEPT ![u] = x] /\ Moves(u, x)
<1> DEFINE h == hook[u]
           e == IF leader = u /\ AllUnitsReady(u) THEN h.app.nids ELSE NoNids
           x == [h EXCEPT !.pc = "commit", !.endpoint = e]
<1>0. h \in Hook /\ h.pc = "publish" /\ h.pc \in Running
  BY DEF SafeInv, TypeOK, TryPublishFilesystemInfo, Running
<1>1. Become(u, x)
  BY DEF TryPublishFilesystemInfo
<1>2. e = NoNids \/ (AllUnitsReady(u) /\ e = h.app.nids)
  OBVIOUS
<1> HIDE DEF e
<1>3. /\ x.pc = "commit" /\ x.event = h.event /\ x.endpoint = e /\ x.nids = h.nids /\ x.app = h.app
      /\ x.writes = h.writes /\ x.ready = h.ready
  BY <1>0 DEF Hook
<1> HIDE DEF x
<1>4. GoesOn(u, x)
  BY <1>0, <1>2, <1>3 DEF GoesOn, Offers
<1> QED
  BY <1>1, <1>4 DEF Become, Moves

LEMMA StepMoves ==
    ASSUME SafeInv, NEW u \in Units,
           HookStep(u) \/ Dispatch(u) \/ OnUpdateStatus(u) \/ Environment(u)
    PROVE  \E x : hook' = [hook EXCEPT ![u] = x] /\ Moves(u, x)
<1>0. hook \in [Units -> Hook]
  BY DEF SafeInv, TypeOK
<1>1. CASE \/ Flush(u) \/ FlushRefused(u) \/ OnInstall(u) \/ OnUpdateStatus(u)
           \/ Environment(u)
  <2>1. Become(u, Idle) \/ (\E e : Become(u, Failed(e))) \/ hook' = hook
        \/ Become(u, hook[u])
    BY <1>1 DEF OnInstall, Flush, FlushRefused, OnUpdateStatus, Environment, Elect,
                Crash, Reboot, Reattach, AddUnit, AttachStorage
  <2>2. hook = [hook EXCEPT ![u] = hook[u]]
    BY <1>0
  <2> QED
    BY <2>1, <2>2, AtEndFacts DEF Become, Moves
<1> QED
  BY <1>1, OnStartMoves, OnRelationChangedMoves, MgsMdsSetupMoves, OssSetupMoves,
     MgsNidsPublishedMoves, TryPublishFilesystemInfoMoves DEF HookStep, Dispatch

-----------------------------------------------------------------------------
(* What a hook promotes it promotes completely; what it sees promoted is committed. *)
ViewInv == \A u \in Units :
    /\ hook[u].writes = TRUE => Promoted(hook[u].app)
    /\ hook[u].writes = FALSE /\ Promoted(hook[u].app) => Promoted(app)


LEMMA ViewStep ==
    ASSUME SafeInv, ViewInv, NEW u \in Units,
           HookStep(u) \/ Dispatch(u) \/ OnUpdateStatus(u) \/ Environment(u)
    PROVE  ViewInv' /\ (Promoted(app) => Promoted(app'))
<1>0. hook \in [Units -> Hook] /\ hook[u] \in Hook
  BY DEF SafeInv, TypeOK
<1>1. Promoted(app) => Promoted(app')
  <2>1. CASE Flush(u)
    BY <1>0, <2>1 DEF Flush, ViewInv, Hook
  <2> QED
    BY <2>1, DatabagSteps
<1>2. PICK x : hook' = [hook EXCEPT ![u] = x] /\ Moves(u, x)
  BY StepMoves
<1>3. hook'[u] = x /\ \A v \in Units \ {u} : hook'[v] = hook[v]
  BY <1>0, <1>2
<1>4. /\ x.writes = TRUE => Promoted(x.app)
      /\ x.writes = FALSE /\ Promoted(x.app) => Promoted(app)
  <2>1. CASE x = hook[u]
    BY <2>1 DEF ViewInv
  <2>2. CASE AtEnd(x)
    BY <2>2, NidsFacts DEF AtEnd
  <2>3. \A v \in Units, n \in Nids : Promoted([unit |-> v, nids |-> n])
    BY UnitsAssumption, NidsFacts DEF Promoted
  <2>4. CASE Begins(u, x)
    BY <2>3, <2>4 DEF Begins
  <2>5. CASE GoesOn(u, x)
    BY <2>3, <2>5 DEF GoesOn, ViewInv
  <2> QED
    BY <1>2, <2>1, <2>2, <2>4, <2>5 DEF Moves
<1>5. \A v \in Units :
        /\ hook'[v].writes = TRUE => Promoted(hook'[v].app)
        /\ hook'[v].writes = FALSE /\ Promoted(hook'[v].app) => Promoted(app')
  BY <1>1, <1>3, <1>4 DEF ViewInv
<1> QED
  BY <1>1, <1>5 DEF ViewInv, Promoted

(* The leader is a unit that exists; a unit that does not has nothing to do. *)
UnitsInv ==
    /\ leader \in units /\ InitUnits \subseteq units
    /\ \A u \in Units \ units : pending[u] = {} /\ hook[u].pc = "idle"

LEMMA UnitsStep ==
    ASSUME TypeOK, UnitsInv, NEW u \in Units,
           HookStep(u) \/ Dispatch(u) \/ OnUpdateStatus(u) \/ Environment(u)
    PROVE  UnitsInv'
<1>0. /\ pending \in [Units -> SUBSET Events] /\ hook \in [Units -> Hook]
      /\ units \in SUBSET Units
  BY DEF TypeOK
<1>1. ASSUME u \in units, units' = units, leader' \in units,
             \A v \in Units \ units : pending'[v] = pending[v] /\ hook'[v] = hook[v]
      PROVE  UnitsInv'
  BY <1>1 DEF UnitsInv
<1>2. CASE HookStep(u) \/ Crash(u)
  <2>1. hook[u].pc \in Running
    BY <1>2 DEF HookStep, MgsMdsSetup, MgsNidsPublished, OssSetup, Crash, InHook,
                TryPublishFilesystemInfo, Flush, FlushRefused, Running
  <2>2. u \in units
    BY <2>1 DEF UnitsInv, Running
  <2>3. units' = units /\ leader' = leader
    BY <1>2 DEF HookStep, MgsMdsSetup, MgsNidsPublished, OssSetup, Crash,
                TryPublishFilesystemInfo, Flush, FlushRefused
  <2>4. \A v \in Units \ units : pending'[v] = pending[v]
    BY <1>0, <1>2 DEF HookStep, MgsMdsSetup, MgsNidsPublished, OssSetup, Crash,
                TryPublishFilesystemInfo, Flush, FlushRefused
  <2>5. \A v \in Units \ units : hook'[v] = hook[v]
    BY <1>0, <1>2, <2>2
    DEF HookStep, MgsMdsSetup, MgsNidsPublished, OssSetup, Crash,
        TryPublishFilesystemInfo, Flush, FlushRefused, StopWith, Become
  <2> QED
    BY <1>1, <2>2, <2>3, <2>4, <2>5 DEF UnitsInv
<1>3. CASE OnInstall(u) \/ OnStart(u)
  <2>1. u \in units
    BY <1>3 DEF OnInstall, OnStart, Dispatchable, UnitsInv
  <2>2. \A v \in Units \ units : pending'[v] = pending[v] /\ hook'[v] = hook[v]
    BY <1>0, <1>3, <2>1 DEF OnInstall, OnStart, Consume, StorageUnavailable, Become
  <2> QED
    BY <1>1, <1>3, <2>1, <2>2 DEF OnInstall, OnStart, UnitsInv
<1>4. CASE \E v \in Units \cup {NoUnit} : OnRelationChanged(u, v)
  <2>1. PICK w \in Units \cup {NoUnit} : OnRelationChanged(u, w)
    BY <1>4
  <2>2. u \in units
    BY <2>1 DEF OnRelationChanged, Dispatchable, UnitsInv
  <2>3. \A v \in Units \ units : pending'[v] = pending[v]
    BY <1>0, <2>1, <2>2 DEF OnRelationChanged, Consume
  <2>4. \A h : Reconfigure(u, h) => \A v \in Units \ {u} : hook'[v] = hook[v]
    BY <1>0 DEF Reconfigure, StopWith, Become
  <2>5. \A v \in Units \ {u} : hook'[v] = hook[v]
    BY <1>0, <2>1, <2>4 DEF OnRelationChanged, PromotionRefused, Become
  <2> QED
    BY <1>1, <2>1, <2>2, <2>3, <2>5 DEF OnRelationChanged, UnitsInv
<1>5. CASE AddUnit(u)
  BY <1>0, <1>5 DEF AddUnit, UnitsInv
<1>6. CASE OnUpdateStatus(u) \/ Elect(u) \/ Reattach(u)
  BY <1>6 DEF OnUpdateStatus, Elect, Reattach, UnitsInv
<1>7. CASE Reboot(u) \/ \E k \in Kinds : AttachStorage(u, k)
  BY <1>0, <1>7 DEF Reboot, AttachStorage, Become, UnitsInv
<1> QED
  BY <1>2, <1>3, <1>4, <1>5, <1>6, <1>7 DEF Dispatch, Environment

-----------------------------------------------------------------------------
(* Without elections, the NIDs that a unit publishes are promoted.  A hook of the
   relation goes on only with a promoted MGS, and the leader's own NIDs are
   promoted by the hook that publishes them. *)

ChangedInv == \A u \in Units :
    InHook(u) /\ hook[u].event.kind = "changed" => Promoted(hook[u].app)
SelfInv ==
    /\ bag[leader].nids # NoNids => Promoted(app)
    /\ InHook(leader) /\ hook[leader].nids # NoNids =>
          Promoted(hook[leader].app) \/ hook[leader].pc = "promote"

PromotionInv ==
    SafeInv /\ ViewInv /\ UnitsInv /\ ChangedInv /\ SelfInv /\ PromotionUnderWay

(* Unit w has still to see the databag of v, or is looking at it. *)
Watches(w, v) == Changed(v) \in pending[w]
                 \/ (hook[w].pc # "idle" /\ hook[w].event = Changed(v))

LEMMA ChangedFacts ==
    /\ \A v, w : Changed(v) = Changed(w) => v = w
    /\ \A v : Changed(v).kind = "changed" /\ Changed(v) # Install /\ Changed(v) # Start
    /\ Install.kind # "changed" /\ Start.kind # "changed"
BY DEF Changed, Install, Start

LEMMA LeaderFixed ==
    ASSUME MaxElections = 0, TypeOK, NEW u \in Units,
           HookStep(u) \/ Dispatch(u) \/ OnUpdateStatus(u) \/ Environment(u)
    PROVE  leader' = leader
<1>1. ~Elect(u)
  BY DEF Elect, TypeOK
<1>2. CASE OnStart(u)
  BY <1>2 DEF OnStart
<1>3. CASE \E v \in Units \cup {NoUnit} : OnRelationChanged(u, v)
  BY <1>3 DEF OnRelationChanged
<1>4. CASE HookStep(u) \/ OnInstall(u) \/ OnUpdateStatus(u)
  BY <1>4 DEF HookStep, MgsMdsSetup, MgsNidsPublished, OssSetup, Flush, FlushRefused,
              TryPublishFilesystemInfo, OnInstall, OnUpdateStatus
<1>5. CASE \/ Crash(u) \/ Reboot(u) \/ Reattach(u) \/ AddUnit(u)
           \/ \E k \in Kinds : AttachStorage(u, k)
  BY <1>5 DEF Crash, Reboot, Reattach, AddUnit, AttachStorage
<1> QED
  BY <1>1, <1>2, <1>3, <1>4, <1>5 DEF Dispatch, Environment

LEMMA ChangedStep ==
    ASSUME SafeInv, ViewInv, ChangedInv, NEW u \in Units,
           HookStep(u) \/ Dispatch(u) \/ OnUpdateStatus(u) \/ Environment(u)
    PROVE  ChangedInv'
<1>0. hook \in [Units -> Hook]
  BY DEF SafeInv, TypeOK
<1>1. PICK x : hook' = [hook EXCEPT ![u] = x] /\ Moves(u, x)
  BY StepMoves
<1>2. hook'[u] = x /\ \A v \in Units \ {u} : hook'[v] = hook[v]
  BY <1>0, <1>1
<1>3. x.pc \in Running /\ x.event.kind = "changed" => Promoted(x.app)
  <2>1. CASE x = hook[u]
    BY <2>1 DEF ChangedInv, InHook
  <2>2. CASE AtEnd(x) \/ Begins(u, x)
    BY <2>2 DEF AtEnd, Begins, Running
  <2>3. CASE GoesOn(u, x)
    <3>1. \A n \in Nids : Promoted([unit |-> u, nids |-> n])
      BY UnitsAssumption, NidsFacts DEF Promoted
    <3>2. hook[u].event.kind = "changed" => Promoted(hook[u].app)
      BY <2>3 DEF GoesOn, ChangedInv, InHook
    <3> QED
      BY <2>3, <3>1, <3>2 DEF GoesOn
  <2> QED
    BY <1>1, <2>1, <2>2, <2>3 DEF Moves
<1>4. \A v \in Units : hook'[v].pc \in Running /\ hook'[v].event.kind = "changed" =>
                        Promoted(hook'[v].app)
  BY <1>2, <1>3 DEF ChangedInv, InHook
<1> QED
  BY <1>4 DEF ChangedInv, InHook, Promoted

LEMMA SelfStep ==
    ASSUME SafeInv, ViewInv, SelfInv, leader' = leader, NEW u \in Units,
           HookStep(u) \/ Dispatch(u) \/ OnUpdateStatus(u) \/ Environment(u)
    PROVE  SelfInv'
<1>0. /\ hook \in [Units -> Hook] /\ bag \in [Units -> UnitData] /\ leader \in Units
      /\ hook[u] \in Hook
  BY DEF SafeInv, TypeOK
<1>1. PICK x : hook' = [hook EXCEPT ![u] = x] /\ Moves(u, x)
  BY StepMoves
<1>2. hook'[u] = x /\ \A v \in Units \ {u} : hook'[v] = hook[v]
  BY <1>0, <1>1
<1>3. Promoted(app) => Promoted(app')
  BY ViewStep
<1>4. bag'[leader].nids # NoNids => Promoted(app')
  <2>1. CASE Flush(u) /\ u = leader
    <3>1. bag'[u].nids = hook[u].nids /\ hook[u].pc = "commit" /\ InHook(u)
      BY <1>0, <2>1 DEF Flush, InHook, Running
    <3>2. hook[u].nids # NoNids => Promoted(hook[u].app)
      BY <2>1, <3>1 DEF SelfInv
    <3>3. Promoted(hook[u].app) => Promoted(app')
      BY <1>0, <1>3, <2>1 DEF Flush, ViewInv, Hook
    <3> QED
      BY <2>1, <3>1, <3>2, <3>3
  <2>2. CASE Flush(u) /\ u # leader
    <3>1. bag'[leader] = bag[leader]
      BY <1>0, <2>2 DEF Flush
    <3> QED
      BY <1>3, <3>1 DEF SelfInv
  <2>3. CASE bag' = bag
    BY <1>3, <2>3 DEF SelfInv
  <2> QED
    BY <2>1, <2>2, <2>3, DatabagSteps
<1>5. ASSUME u = leader, x.pc \in Running, x.nids # NoNids
      PROVE  Promoted(x.app) \/ x.pc = "promote"
  <2>0. \A v \in Units, n \in Nids : Promoted([unit |-> v, nids |-> n])
    BY UnitsAssumption, NidsFacts DEF Promoted
  <2>1. CASE x = hook[u]
    BY <1>5, <2>1 DEF SelfInv, InHook
  <2>2. CASE AtEnd(x)
    BY <1>5, <2>2 DEF AtEnd
  <2>3. CASE Begins(u, x)
    <3>1. Promoted(app)
      BY <1>5, <2>3 DEF Begins, SelfInv
    <3> QED
      BY <2>0, <2>3, <3>1 DEF Begins
  <2>4. CASE GoesOn(u, x) /\ x.pc # "promote"
    <3>1. x.nids = hook[u].nids /\ InHook(u)
      BY <2>4 DEF GoesOn, InHook
    <3>2. Promoted(hook[u].app) \/ hook[u].pc = "promote"
      BY <1>5, <3>1 DEF SelfInv
    <3> QED
      BY <1>5, <2>0, <2>4, <3>2 DEF GoesOn
  <2> QED
    BY <1>1, <2>1, <2>2, <2>3, <2>4 DEF Moves
<1>6. hook'[leader].pc \in Running /\ hook'[leader].nids # NoNids =>
        Promoted(hook'[leader].app) \/ hook'[leader].pc = "promote"
  BY <1>0, <1>2, <1>5 DEF SelfInv, InHook
<1> QED
  BY <1>4, <1>6 DEF SelfInv, InHook, Promoted

(* The leader stops watching a databag only if it had no NIDs or there is an MGS. *)
LEMMA LeaderWatches ==
    ASSUME PromotionInv, leader' = leader, NEW v \in Units, Watches(leader, v),
           HookStep(leader) \/ Dispatch(leader) \/ OnUpdateStatus(leader)
             \/ Environment(leader)
    PROVE  Watches(leader, v)' \/ Promoted(app')
           \/ (bag[v].nids = NoNids /\ bag' = bag)
<1> DEFINE u == leader
<1>0. /\ TypeOK /\ SafeInv /\ ViewInv /\ u \in Units /\ u \in units
      /\ hook \in [Units -> Hook] /\ hook[u] \in Hook /\ hook[u].app \in AppData
      /\ pending \in [Units -> SUBSET Events] /\ bag[v] \in UnitData /\ app \in AppData
  BY DEF PromotionInv, SafeInv, TypeOK, UnitsInv, Hook
<1>1. CASE \/ MgsMdsSetup(u) \/ MgsNidsPublished(u) \/ OssSetup(u)
           \/ TryPublishFilesystemInfo(u)
  <2> DEFINE q == PromoteMgsNids(hook[u], u, hook[u].nids)
             NextHooks == {[hook[u] EXCEPT !.pc = "commit"],
                           [hook[u] EXCEPT !.pc = "commit", !.refresh = FALSE],
                           [hook[u] EXCEPT !.pc = "publish", !.ready = TRUE]}
  <2>1. pending' = pending /\ hook[u].pc \in Running
    BY <1>1 DEF MgsMdsSetup, MgsNidsPublished, OssSetup, TryPublishFilesystemInfo,
                Running
  <2>2. \/ \E y \in NextHooks : Become(u, y)
        \/ \E n : Become(u, [hook[u] EXCEPT !.pc = "promote", !.nids = n])
        \/ \E n : Become(u, [hook[u] EXCEPT !.pc = "commit", !.endpoint = n])
        \/ MgsNidsPublished(u) /\ Become(u, [q EXCEPT !.pc = "publish", !.ready = TRUE])
    BY <1>1 DEF MgsMdsSetup, OssSetup, TryPublishFilesystemInfo, MgsNidsPublished,
                StopWith
  <2>3. MgsNidsPublished(u) => q \in Hook /\ q.event = hook[u].event
    <3>1. MgsNidsPublished(u) => hook[u].nids \in Nids
      BY <1>0 DEF SafeInv, HookInv, HookOk, MgsNidsPublished, Hook, NidsOrNone
    <3> QED
      BY <1>0, <3>1, PromoteType DEF PromoteMgsNids, Hook
  <2> HIDE DEF q
  <2>4. \A y : Become(u, y) => hook'[u] = y
    BY <1>0 DEF Become
  <2>5. hook'[u].pc # "idle" /\ hook'[u].event = hook[u].event
    <3>1. CASE \E y \in NextHooks : Become(u, y)
      <4>1. \A y \in NextHooks : y.pc # "idle" /\ y.event = hook[u].event
        BY <1>0 DEF Hook
      <4> QED
        BY <2>4, <3>1, <4>1
    <3>2. CASE \E n : Become(u, [hook[u] EXCEPT !.pc = "promote", !.nids = n])
      <4>1. \A n : LET y == [hook[u] EXCEPT !.pc = "promote", !.nids = n]
                   IN  y.pc # "idle" /\ y.event = hook[u].event
        BY <1>0 DEF Hook
      <4> QED
        BY <2>4, <3>2, <4>1
    <3>3. CASE \E n : Become(u, [hook[u] EXCEPT !.pc = "commit", !.endpoint = n])
      <4>1. \A n : LET y == [hook[u] EXCEPT !.pc = "commit", !.endpoint = n]
                   IN  y.pc # "idle" /\ y.event = hook[u].event
        BY <1>0 DEF Hook
      <4> QED
        BY <2>4, <3>3, <4>1
    <3>4. CASE /\ MgsNidsPublished(u)
               /\ Become(u, [q EXCEPT !.pc = "publish", !.ready = TRUE])
      <4>1. LET y == [q EXCEPT !.pc = "publish", !.ready = TRUE]
            IN  y.pc # "idle" /\ y.event = hook[u].event
        BY <2>3, <3>4 DEF Hook
      <4> QED
        BY <2>4, <3>4, <4>1
    <3> QED
      BY <2>2, <3>1, <3>2, <3>3, <3>4
  <2> QED
    BY <2>1, <2>5 DEF Watches, Changed
<1>2. CASE FlushRefused(u) \/ Crash(u) \/ Reboot(u)
  <2>1. hook' = hook \/ hook'[u] = hook[u] \/ hook'[u] = Failed(hook[u].event)
    BY <1>0, <1>2 DEF FlushRefused, Crash, Reboot, Become
  <2>2. pending[u] \subseteq pending'[u]
    BY <1>0, <1>2 DEF FlushRefused, Crash, Reboot
  <2> QED
    BY <2>1, <2>2 DEF Watches, Failed, AtRest, Changed
<1>3. CASE Flush(u)
  <2>1. pending[u] \subseteq pending'[u] /\ InHook(u)
    BY <1>0, <1>3 DEF Flush, InHook, Running
  <2>2. CASE hook[u].event = Changed(v)
    <3>1. Promoted(hook[u].app)
      BY <1>0, <2>1, <2>2, ChangedFacts DEF PromotionInv, ChangedInv
    <3>2. Promoted(app) => Promoted(app')
      BY <1>0, <1>3, ViewStep DEF HookStep
    <3> QED
      BY <1>0, <1>3, <3>1, <3>2 DEF Flush, ViewInv, Hook
  <2> QED
    BY <2>1, <2>2 DEF Watches, Changed
<1>4. CASE OnInstall(u) \/ OnStart(u)
  <2>1. hook[u].pc = "idle" \/ hook[u].event \in {Install, Start}
    BY <1>4 DEF OnInstall, OnStart, Dispatchable
  <2>2. Changed(v) \in pending[u] /\ Changed(v) \notin {Install, Start}
    BY <2>1, ChangedFacts DEF Watches
  <2>3. \A e \in pending[u] \ {Install, Start} : e \in pending'[u]
    BY <1>0, <1>4 DEF OnInstall, OnStart, Consume
  <2> QED
    BY <2>2, <2>3 DEF Watches, Changed
<1>5. ASSUME NEW w \in Units \cup {NoUnit}, OnRelationChanged(u, w)
      PROVE  Watches(u, v)' \/ Promoted(app') \/ (bag[v].nids = NoNids /\ bag' = bag)
  <2>0. app' = app /\ bag' = bag
    BY <1>5 DEF OnRelationChanged, data
  <2>1. CASE v # w
    <3>1. Changed(v) \in pending[u]
      BY <1>5, <2>1, ChangedFacts DEF OnRelationChanged, Dispatchable, Watches
    <3>2. Changed(v) \in pending'[u]
      BY <1>0, <1>5, <2>1, <3>1, ChangedFacts DEF OnRelationChanged, Consume
    <3> QED
      BY <3>2 DEF Watches, Changed
  <2>2. CASE v = w /\ bag[v].nids # NoNids /\ ~Promoted(app)
    <3> DEFINE seen == [Dispatched(u, Changed(w)) EXCEPT
                         !.refresh = TRUE,
                         !.stale = IF Observes(u, w) /\ ~bag[w].ready THEN {w} ELSE {}]
               h == PromoteMgsNids(seen, w, bag[w].nids)
    <3>1. Candidate(u, w) /\ w \in Units /\ bag[w].nids \in Nids
      BY <1>0, <2>2, UnitsAssumption DEF Candidate, Observes, UnitData, NidsOrNone
    <3>2. JustDispatched(u, Changed(w), seen)
      BY <1>0, <3>1, DispatchedFacts, EventFacts
    <3>3. PromotionRefused(u, w, seen.app) \/ Reconfigure(u, h)
      BY <1>5, <3>1 DEF OnRelationChanged
    <3> HIDE DEF seen
    <3>4. ~Promoted(seen.app) /\ seen \in Hook /\ seen.event = Changed(w)
      BY <2>2, <3>2 DEF JustDispatched
    <3>5. ~PromotionRefused(u, w, seen.app)
      BY <3>4 DEF PromotionRefused, RefusesMgs
    <3>6. h \in Hook /\ h.event = Changed(w) /\ h.app = [unit |-> w, nids |-> bag[w].nids]
      BY <3>1, <3>4, PromoteType DEF PromoteMgsNids, Hook
    <3>7. Promoted(h.app)
      BY <3>1, <3>6, UnitsAssumption, NidsFacts DEF Promoted
    <3> HIDE DEF h
    <3>8. \/ Become(u, ToOss(h))
          \/ Become(u, [h EXCEPT !.pc = "publish", !.ready = TRUE])
          \/ Become(u, [h EXCEPT !.pc = "commit", !.refresh = FALSE])
      BY <3>3, <3>5, <3>7 DEF Reconfigure, StopWith
    <3>9. \A y \in {ToOss(h), [h EXCEPT !.pc = "publish", !.ready = TRUE],
                    [h EXCEPT !.pc = "commit", !.refresh = FALSE]} :
             y.pc # "idle" /\ y.event = Changed(w)
      BY <3>6 DEF ToOss, Hook
    <3>10. \A y : Become(u, y) => hook'[u] = y
      BY <1>0 DEF Become
    <3>11. hook'[u].pc # "idle" /\ hook'[u].event = Changed(w)
      BY <3>8, <3>9, <3>10
    <3> QED
      BY <2>2, <3>11 DEF Watches, Changed
  <2> QED
    BY <2>0, <2>1, <2>2
<1>6. CASE \/ OnUpdateStatus(u) \/ Reattach(u) \/ AddUnit(u)
           \/ \E k \in Kinds : AttachStorage(u, k)
  <2>1. hook' = hook /\ pending[u] \subseteq pending'[u]
    BY <1>0, <1>6 DEF OnUpdateStatus, Reattach, AddUnit, AttachStorage
  <2> QED
    BY <2>1 DEF Watches, Changed
<1>7. ~Elect(u)
  BY DEF Elect
<1> QED
  BY <1>1, <1>2, <1>3, <1>4, <1>5, <1>6, <1>7 DEF HookStep, Dispatch, Environment

(* Another unit adds to what the leader watches, and takes nothing away. *)
LEMMA OthersLeave ==
    ASSUME TypeOK, UnitsInv, NEW u \in Units, u # leader,
           HookStep(u) \/ Dispatch(u) \/ OnUpdateStatus(u) \/ Environment(u)
    PROVE  pending[leader] \subseteq pending'[leader]
<1>0. pending \in [Units -> SUBSET Events] /\ leader \in Units
  BY DEF TypeOK
<1>1. CASE Flush(u) \/ AddUnit(u)
  BY <1>0, <1>1 DEF Flush, AddUnit
<1>2. CASE OnStart(u)
  BY <1>0, <1>2 DEF OnStart, Consume
<1>3. CASE \E v \in Units \cup {NoUnit} : OnRelationChanged(u, v)
  BY <1>0, <1>3 DEF OnRelationChanged, Consume
<1>4. CASE \/ MgsMdsSetup(u) \/ MgsNidsPublished(u) \/ OssSetup(u) \/ OnInstall(u)
           \/ TryPublishFilesystemInfo(u) \/ FlushRefused(u) \/ OnUpdateStatus(u)
  BY <1>0, <1>4 DEF MgsMdsSetup, MgsNidsPublished, OssSetup, FlushRefused, OnInstall,
                    TryPublishFilesystemInfo, OnUpdateStatus
<1>5. CASE \/ Elect(u) \/ Crash(u) \/ Reboot(u) \/ Reattach(u)
           \/ \E k \in Kinds : AttachStorage(u, k)
  BY <1>0, <1>5 DEF Elect, Crash, Reboot, Reattach, AttachStorage
<1> QED
  BY <1>1, <1>2, <1>3, <1>4, <1>5 DEF HookStep, Dispatch, Environment

LEMMA UnitsAdded ==
    ASSUME NEW u \in Units,
           HookStep(u) \/ Dispatch(u) \/ OnUpdateStatus(u) \/ Environment(u)
    PROVE  units' = units \/ AddUnit(u)
<1>1. CASE OnStart(u)
  BY <1>1 DEF OnStart
<1>2. CASE \E v \in Units \cup {NoUnit} : OnRelationChanged(u, v)
  BY <1>2 DEF OnRelationChanged
<1>3. CASE HookStep(u) \/ OnInstall(u) \/ OnUpdateStatus(u)
  BY <1>3 DEF HookStep, MgsMdsSetup, MgsNidsPublished, OssSetup, Flush, FlushRefused,
              TryPublishFilesystemInfo, OnInstall, OnUpdateStatus
<1>4. CASE Environment(u)
  BY <1>4 DEF Environment, Elect, Crash, Reboot, Reattach, AttachStorage
<1> QED
  BY <1>1, <1>2, <1>3, <1>4 DEF Dispatch

LEMMA PromotionStep ==
    ASSUME MaxElections = 0, PromotionInv, NEW u \in Units,
           HookStep(u) \/ Dispatch(u) \/ OnUpdateStatus(u) \/ Environment(u)
    PROVE  PromotionInv'
<1>0. /\ TypeOK /\ SafeInv /\ ViewInv /\ UnitsInv /\ ChangedInv /\ SelfInv
      /\ leader \in Units /\ leader \in units /\ units \subseteq Units
      /\ hook \in [Units -> Hook] /\ bag \in [Units -> UnitData]
  BY DEF PromotionInv, SafeInv, TypeOK, UnitsInv
<1>1. /\ leader' = leader /\ SafeInv' /\ ViewInv' /\ UnitsInv' /\ ChangedInv'
      /\ Promoted(app) => Promoted(app')
  BY <1>0, LeaderFixed, StepSafe, ViewStep, UnitsStep, ChangedStep
<1>2. SelfInv'
  BY <1>0, <1>1, SelfStep
<1>3. \A v \in Units \ {u} : bag'[v] = bag[v] /\ hook'[v] = hook[v]
  <2>1. PICK x : hook' = [hook EXCEPT ![u] = x] /\ Moves(u, x)
    BY <1>0, StepMoves
  <2>2. CASE Flush(u)
    BY <1>0, <2>1, <2>2 DEF Flush
  <2> QED
    BY <1>0, <2>1, <2>2, DatabagSteps
<1>4. ASSUME NEW v \in units', bag'[v].nids # NoNids, ~Promoted(app')
      PROVE  Watches(leader, v)'
  <2>0. v \in Units /\ ~Promoted(app)
    BY <1>0, <1>1, <1>4 DEF TypeOK, SafeInv
  <2>1. v \in units /\ bag[v].nids # NoNids => Watches(leader, v)
    BY <2>0 DEF PromotionInv, PromotionUnderWay, Watches
  <2>2. CASE u = leader
    <3>1. v # leader
      BY <1>1, <1>2, <1>4 DEF SelfInv, Promoted
    <3>2. v \in units /\ bag[v].nids # NoNids
      BY <1>0, <1>3, <1>4, <2>0, <2>2, <3>1, UnitsAdded DEF AddUnit
    <3> QED
      BY <1>1, <1>4, <2>0, <2>1, <2>2, <3>2, LeaderWatches
  <2>3. CASE u # leader
    <3>1. pending[leader] \subseteq pending'[leader] /\ hook'[leader] = hook[leader]
      BY <1>0, <1>3, <2>3, OthersLeave
    <3>2. CASE v \in units /\ bag'[v] = bag[v]
      BY <1>1, <1>4, <2>1, <3>1, <3>2 DEF Watches, Changed
    <3>3. CASE v \notin units
      <4>1. AddUnit(u) /\ v = u
        BY <3>3, UnitsAdded DEF AddUnit
      <4>2. Changed(v) \in pending'[leader]
        BY <1>0, <2>3, <4>1 DEF AddUnit
      <4> QED
        BY <1>1, <4>2 DEF Watches, Changed
    <3>4. CASE v \in units /\ bag'[v] # bag[v]
      <4>1. Flush(u) /\ v = u
        BY <1>3, <2>0, <3>4, DatabagSteps
      <4>2. Changed(v) \in pending'[leader]
        BY <1>0, <2>3, <3>4, <4>1 DEF Flush
      <4> QED
        BY <1>1, <4>2 DEF Watches, Changed
    <3> QED
      BY <3>2, <3>3, <3>4
  <2> QED
    BY <2>2, <2>3
<1>5. PromotionUnderWay'
  BY <1>1, <1>4 DEF PromotionUnderWay, Watches, Promoted, Changed
<1> QED
  BY <1>1, <1>2, <1>5 DEF PromotionInv

(* NIDs in a unit databag that nobody promoted yet are on their way, through any
   crashes, faults and new units, as long as the leader stays the same: the hook
   that would promote them is pending or running on it (lustre_peer.py:87-115).
   With one election they may be forgotten (lost_promotion). *)
THEOREM NidsOnTheirWay ==
    ASSUME MaxElections = 0
    PROVE  Spec => []PromotionUnderWay
<1>1. Init => PromotionInv
  <2> SUFFICES ASSUME Init
               PROVE  ViewInv /\ UnitsInv /\ ChangedInv /\ SelfInv /\ PromotionUnderWay
    BY SafeInvInductive DEF PromotionInv
  <2>1. ViewInv /\ UnitsInv
    BY NidsFacts DEF Init, ViewInv, UnitsInv, Idle, AtRest
  <2>2. ChangedInv
    BY DEF Init, ChangedInv, InHook, Running, Idle, AtRest
  <2>3. SelfInv /\ PromotionUnderWay
    BY UnitsAssumption
    DEF Init, SelfInv, PromotionUnderWay, InHook, Running, Idle, AtRest
  <2> QED
    BY <2>1, <2>2, <2>3
<1>2. PromotionInv /\ [Next]_vars => PromotionInv'
  <2> SUFFICES ASSUME PromotionInv, [Next]_vars PROVE PromotionInv'
    OBVIOUS
  <2>1. CASE Next
    BY <2>1, PromotionStep DEF Next
  <2>2. CASE UNCHANGED vars
    <3>1. SafeInv'
      BY <2>2, SafeInvInductive DEF PromotionInv
    <3>2. UNCHANGED <<leader, units, bag, app, pending, hook>>
      BY <2>2 DEF vars, data
    <3>3. ViewInv' /\ UnitsInv' /\ ChangedInv'
      BY <3>2 DEF PromotionInv, ViewInv, UnitsInv, ChangedInv, InHook, Promoted
    <3>4. SelfInv' /\ PromotionUnderWay'
      BY <3>2 DEF PromotionInv, SelfInv, PromotionUnderWay, InHook, Promoted, Changed
    <3> QED
      BY <3>1, <3>3, <3>4 DEF PromotionInv
  <2> QED
    BY <2>1, <2>2
<1>3. PromotionInv => PromotionUnderWay
  BY DEF PromotionInv
<1> QED
  BY <1>1, <1>2, <1>3, PTL DEF Spec

-----------------------------------------------------------------------------
(* Only that one unit formats an MGS, it has the storage for it ever since, and no
   OST is formatted against an MGS on its own unit. *)

StorageInv == \A u \in Units :
    InitStorage[u] \subseteq storage[u] /\ storage[u] \subseteq MaxStorage[u]
MgsInv == \A u \in Units :
    hook[u].pc = "mgs" \/ disk[u].mgs => "mgt-mdt" \in storage[u] /\ MayBeMgs(u)
OssInv == \A u \in Units :
    /\ hook[u].pc = "oss" => hook[u].app.unit # u
    /\ disk[u].ost # NoNids => disk[u].ost.host # u

RoleInv == SafeInv /\ StorageInv /\ MgsInv /\ OssInv

LEMMA StorageSteps ==
    ASSUME TypeOK, StorageInv, NEW u \in Units,
           HookStep(u) \/ Dispatch(u) \/ OnUpdateStatus(u) \/ Environment(u)
    PROVE  StorageInv' /\ \A v \in Units : storage[v] \subseteq storage'[v]
<1>0. storage \in [Units -> SUBSET Kinds]
  BY DEF TypeOK
<1>1. CASE \E k \in Kinds : AttachStorage(u, k)
  BY <1>0, <1>1 DEF AttachStorage, StorageInv
<1>2. CASE storage' = storage
  BY <1>2 DEF StorageInv
<1>3. CASE OnStart(u)
  BY <1>2, <1>3 DEF OnStart, machine
<1>4. CASE \E v \in Units \cup {NoUnit} : OnRelationChanged(u, v)
  BY <1>2, <1>4 DEF OnRelationChanged, machine
<1>5. CASE HookStep(u) \/ OnInstall(u) \/ OnUpdateStatus(u)
  BY <1>2, <1>5 DEF HookStep, MgsMdsSetup, MgsNidsPublished, OssSetup,
                    TryPublishFilesystemInfo, Flush, FlushRefused, OnInstall,
                    OnUpdateStatus, machine
<1>6. CASE Elect(u) \/ Crash(u) \/ Reboot(u) \/ Reattach(u) \/ AddUnit(u)
  BY <1>2, <1>6 DEF Elect, Crash, Reboot, Reattach, AddUnit, machine
<1> QED
  BY <1>1, <1>3, <1>4, <1>5, <1>6 DEF Dispatch, Environment

LEMMA RoleStep ==
    ASSUME RoleInv, NEW u \in Units,
           HookStep(u) \/ Dispatch(u) \/ OnUpdateStatus(u) \/ Environment(u)
    PROVE  RoleInv'
<1>0. /\ TypeOK /\ HookInv /\ StorageInv /\ MgsInv /\ OssInv
      /\ hook \in [Units -> Hook] /\ app \in AppData
      /\ \A v \in Units : hook[v].app \in AppData
  BY DEF RoleInv, SafeInv, TypeOK, Hook
<1>1. SafeInv' /\ StorageInv' /\ \A v \in Units : storage[v] \subseteq storage'[v]
  BY <1>0, StepSafe, StorageSteps DEF RoleInv
<1>2. PICK x : hook' = [hook EXCEPT ![u] = x] /\ Moves(u, x)
  BY StepMoves DEF RoleInv
<1>3. hook'[u] = x /\ \A v \in Units \ {u} : hook'[v] = hook[v]
  BY <1>0, <1>2
<1>4. /\ \A v \in Units \ {u} : disk'[v] = disk[v]
      /\ \/ disk'[u].ost = disk[u].ost
         \/ /\ hook[u].pc = "oss" /\ Promoted(hook[u].app)
            /\ disk'[u].ost = hook[u].app.nids
      /\ disk'[u].mgs => disk[u].mgs \/ hook[u].pc = "mgs"
  BY <1>0, TargetSteps
<1>5. MgsInv'
  <2>1. x.pc = "mgs" => "mgt-mdt" \in storage[u] /\ MayBeMgs(u)
    <3>1. CASE x = hook[u]
      BY <1>0, <3>1 DEF MgsInv
    <3>2. CASE Begins(u, x) /\ x.pc = "mgs"
      BY <1>0, <3>2, StorageAssumption DEF Begins, StorageInv, MayBeMgs
    <3> QED
      BY <1>2, <3>1, <3>2 DEF Moves, AtEnd, GoesOn
  <2>2. \A v \in Units : hook'[v].pc = "mgs" \/ disk'[v].mgs =>
                          "mgt-mdt" \in storage[v] /\ MayBeMgs(v)
    BY <1>0, <1>3, <1>4, <2>1 DEF MgsInv
  <2> QED
    BY <1>1, <2>2 DEF MgsInv, MayBeMgs
<1>6. OssInv'
  <2>1. x.pc = "oss" => x.app.unit # u
    <3>1. CASE x = hook[u]
      BY <1>0, <3>1 DEF OssInv
    <3>2. CASE Begins(u, x) /\ storage[u] = {"ost"} /\ x.app = app /\ Promoted(app)
      <4>1. disk[app.unit].mgs /\ app.unit \in Units
        BY <1>0, <3>2, NidsFacts DEF RoleInv, SafeInv, PromotedMgsExists, PromotedFromMgs
      <4>2. ~disk[u].mgs
        BY <1>0, <3>2 DEF MgsInv
      <4> QED
        BY <3>2, <4>1, <4>2
    <3> QED
      BY <1>2, <3>1, <3>2 DEF Moves, AtEnd, Begins, GoesOn
  <2>2. hook[u].pc = "oss" /\ Promoted(hook[u].app) => hook[u].app.nids.host # u
    BY <1>0 DEF OssInv, HookInv, HookOk, PromotedFromMgs
  <2>3. \A v \in Units : /\ hook'[v].pc = "oss" => hook'[v].app.unit # v
                         /\ disk'[v].ost # NoNids => disk'[v].ost.host # v
    BY <1>0, <1>3, <1>4, <2>1, <2>2 DEF OssInv
  <2> QED
    BY <2>3 DEF OssInv
<1> QED
  BY <1>1, <1>5, <1>6 DEF RoleInv

LEMMA RoleInvInductive ==
    /\ Init => RoleInv
    /\ RoleInv /\ [Next]_vars => RoleInv'
<1>1. Init => RoleInv
  <2> SUFFICES ASSUME Init PROVE StorageInv /\ MgsInv /\ OssInv
    BY SafeInvInductive DEF RoleInv
  <2> QED
    BY StorageAssumption
    DEF Init, StorageInv, MgsInv, OssInv, Idle, AtRest, BlankDisk
<1>2. RoleInv /\ [Next]_vars => RoleInv'
  <2> SUFFICES ASSUME RoleInv, [Next]_vars PROVE RoleInv'
    OBVIOUS
  <2>1. CASE Next
    BY <2>1, RoleStep DEF Next
  <2>2. CASE UNCHANGED vars
    <3>1. SafeInv'
      BY <2>2, SafeInvInductive DEF RoleInv
    <3> QED
      BY <2>2, <3>1 DEF vars, machine, RoleInv, StorageInv, MgsInv, MayBeMgs, OssInv
  <2> QED
    BY <2>1, <2>2
<1> QED
  BY <1>1, <1>2

(* "OSS service must not be enabled on MGS+MDS unit" (lustre_peer.py:268), even if
   storage for an OST is attached to the MGS unit later, or storage for the MGS to
   an OSS unit: only one unit can ever format the MGS, and every OST belongs to an
   MGS on another unit. *)
THEOREM NoOssOnMgsUnit ==
    ASSUME OneMgs
    PROVE  Spec => []OssOffMgsUnit
<1>1. RoleInv => OssOffMgsUnit
  <2> SUFFICES ASSUME RoleInv, NEW u \in Units, disk[u].mgs, disk[u].ost # NoNids
               PROVE  FALSE
    BY DEF OssOffMgsUnit
  <2> DEFINE v == disk[u].ost.host
  <2>1. v \in Units /\ v # u /\ disk[v].mgs
    BY DEF RoleInv, SafeInv, TypeOK, Disk, NidsOrNone, Nids, OssInv, PromotedMgsExists
  <2>2. MayBeMgs(u) /\ MayBeMgs(v)
    BY <2>1 DEF RoleInv, MgsInv
  <2> QED
    BY <2>1, <2>2 DEF OneMgs
<1> QED
  BY <1>1, RoleInvInductive, PTL DEF Spec

-----------------------------------------------------------------------------
(* If the addresses of a unit never change, because there is one or because it is
   never rebooted, there are no NIDs but those of the one MGS, and so there is one
   app databag to promote, whoever is the leader. *)
StaticAddresses == MaxCrashes = 0 \/ \A a, b \in Addresses : a = b

Known(n) == n # NoNids => n.addr = address[n.host]
NidsInv ==
    /\ Known(app.nids)
    /\ \A u \in Units : /\ Known(bag[u].nids) /\ Known(disk[u].ost)
                        /\ Known(hook[u].nids) /\ Known(hook[u].app.nids)

OnceInv == RoleInv /\ NidsInv /\ ViewInv

LEMMA AddressFixed ==
    ASSUME StaticAddresses, TypeOK, NEW u \in Units,
           HookStep(u) \/ Dispatch(u) \/ OnUpdateStatus(u) \/ Environment(u)
    PROVE  address' = address
<1>1. CASE Reboot(u)
  <2>1. MaxCrashes # 0
    BY <1>1, BoundsAssumption DEF Reboot, Spend, TypeOK
  <2>2. PICK a \in Addresses : address' = [address EXCEPT ![u] = a]
    BY <1>1 DEF Reboot
  <2>3. a = address[u] /\ address \in [Units -> Addresses]
    BY <2>1, <2>2 DEF StaticAddresses, TypeOK
  <2> QED
    BY <2>2, <2>3
<1>2. CASE OnStart(u)
  BY <1>2 DEF OnStart, machine
<1>3. CASE \E v \in Units \cup {NoUnit} : OnRelationChanged(u, v)
  BY <1>3 DEF OnRelationChanged, machine
<1>4. CASE HookStep(u) \/ OnInstall(u) \/ OnUpdateStatus(u)
  BY <1>4 DEF HookStep, MgsMdsSetup, MgsNidsPublished, OssSetup,
              TryPublishFilesystemInfo, Flush, FlushRefused, OnInstall,
              OnUpdateStatus, machine
<1>5. CASE \/ Elect(u) \/ Crash(u) \/ Reattach(u) \/ AddUnit(u)
           \/ \E k \in Kinds : AttachStorage(u, k)
  BY <1>5 DEF Elect, Crash, Reattach, AddUnit, AttachStorage, machine
<1> QED
  BY <1>1, <1>2, <1>3, <1>4, <1>5 DEF Dispatch, Environment

(* Two promoted databags are the same. *)
LEMMA OnePromotion ==
    ASSUME OneMgs, RoleInv, NEW a \in AppData, NEW b \in AppData,
           Promoted(a), PromotedFromMgs(disk, a), Known(a.nids),
           Promoted(b), PromotedFromMgs(disk, b), Known(b.nids)
    PROVE  a = b
<1>1. a \in [unit : Units, nids : Nids] /\ b \in [unit : Units, nids : Nids]
  BY NidsFacts DEF AppData
<1>2. a.unit = b.unit
  BY <1>1 DEF PromotedFromMgs, RoleInv, MgsInv, OneMgs
<1>3. a.nids.host = b.nids.host /\ a.nids.addr = b.nids.addr
  BY <1>1, <1>2, NidsFacts DEF PromotedFromMgs, Known
<1>4. a.nids = b.nids
  BY <1>1, <1>3 DEF Nids
<1> QED
  BY <1>1, <1>2, <1>4

LEMMA OneApp ==
    ASSUME OneMgs, OnceInv, NEW u \in Units, Promoted(app), Promoted(hook[u].app)
    PROVE  hook[u].app = app
<1>1. app \in AppData /\ hook[u].app \in AppData
  BY DEF OnceInv, RoleInv, SafeInv, TypeOK, Hook
<1>2. PromotedFromMgs(disk, app) /\ PromotedFromMgs(disk, hook[u].app)
  BY DEF OnceInv, RoleInv, SafeInv, PromotedMgsExists, HookInv, HookOk
<1>3. Known(app.nids) /\ Known(hook[u].app.nids)
  BY DEF OnceInv, NidsInv
<1> QED
  BY <1>1, <1>2, <1>3, OnePromotion DEF OnceInv

(* A promotion is never taken back nor replaced. *)
LEMMA AppKept ==
    ASSUME OneMgs, OnceInv, NEW u \in Units,
           HookStep(u) \/ Dispatch(u) \/ OnUpdateStatus(u) \/ Environment(u)
    PROVE  /\ Promoted(app) => app' = app
           /\ app' # app => Flush(u) /\ app' = hook[u].app /\ Promoted(app')
<1>1. hook[u].writes \in BOOLEAN
  BY DEF OnceInv, RoleInv, SafeInv, TypeOK, Hook
<1>2. CASE Flush(u) /\ hook[u].writes = TRUE
  BY <1>2, OneApp DEF Flush, OnceInv, ViewInv
<1>3. CASE Flush(u) /\ hook[u].writes = FALSE
  BY <1>3 DEF Flush
<1> QED
  BY <1>1, <1>2, <1>3, DatabagSteps

LEMMA OnceStep ==
    ASSUME OneMgs, StaticAddresses, OnceInv, NEW u \in Units,
           HookStep(u) \/ Dispatch(u) \/ OnUpdateStatus(u) \/ Environment(u)
    PROVE  OnceInv'
<1>0. /\ RoleInv /\ NidsInv /\ ViewInv /\ TypeOK /\ HookInv
      /\ hook \in [Units -> Hook] /\ bag \in [Units -> UnitData] /\ app \in AppData
      /\ hook[u] \in Hook /\ hook[u].app \in AppData
  BY DEF OnceInv, RoleInv, SafeInv, TypeOK, Hook
<1>1. RoleInv' /\ address' = address
  BY <1>0, RoleStep, AddressFixed
<1>2. PICK x : hook' = [hook EXCEPT ![u] = x] /\ Moves(u, x)
  BY <1>0, StepMoves DEF RoleInv
<1>3. hook'[u] = x /\ \A v \in Units \ {u} : hook'[v] = hook[v]
  BY <1>0, <1>2
<1>4. Known(x.nids) /\ Known(x.app.nids)
  <2>1. CASE x = hook[u]
    BY <1>0, <2>1 DEF NidsInv
  <2>2. CASE AtEnd(x)
    BY <2>2 DEF AtEnd, NoApp, Known
  <2>3. CASE Begins(u, x)
    <3>1. Known(x.nids)
      BY <1>0, <2>3 DEF Begins, NidsInv
    <3>2. CASE x.app = app
      BY <1>0, <3>1, <3>2 DEF NidsInv
    <3>3. CASE \E w \in Units : x.app = [unit |-> w, nids |-> bag[w].nids]
      <4>1. PICK w \in Units : x.app = [unit |-> w, nids |-> bag[w].nids]
        BY <3>3
      <4>2. x.app.nids = bag[w].nids
        BY <4>1
      <4> QED
        BY <1>0, <3>1, <4>2 DEF NidsInv
    <3> QED
      BY <2>3, <3>2, <3>3 DEF Begins
  <2>4. CASE GoesOn(u, x)
    <3>1. Known([host |-> u, addr |-> address[u]])
      BY DEF Known
    <3> QED
      BY <1>0, <2>4, <3>1 DEF GoesOn, NidsInv
  <2> QED
    BY <1>2, <2>1, <2>2, <2>3, <2>4 DEF Moves
<1>5. app' = app \/ app' = hook[u].app
  BY AppKept
<1>6. \A v \in Units : bag'[v].nids = bag[v].nids \/ bag'[v].nids = hook[v].nids
  <2>1. CASE Flush(u)
    BY <1>0, <2>1 DEF Flush
  <2> QED
    BY <2>1, DatabagSteps
<1>7. \A v \in Units : disk'[v].ost = disk[v].ost \/ disk'[v].ost = hook[v].app.nids
  BY <1>0, TargetSteps
<1>8. NidsInv'
  <2>1. /\ Known(app'.nids)
        /\ \A v \in Units : /\ Known(bag'[v].nids) /\ Known(disk'[v].ost)
                            /\ Known(hook'[v].nids) /\ Known(hook'[v].app.nids)
    BY <1>0, <1>3, <1>4, <1>5, <1>6, <1>7 DEF NidsInv
  <2> QED
    BY <1>1, <2>1 DEF NidsInv, Known
<1>9. ViewInv'
  BY <1>0, ViewStep DEF RoleInv
<1> QED
  BY <1>1, <1>8, <1>9 DEF OnceInv

LEMMA OnceInvInductive ==
    ASSUME OneMgs, StaticAddresses
    PROVE  /\ Init => OnceInv
           /\ OnceInv /\ [Next]_vars => OnceInv'
<1>1. Init => OnceInv
  <2> SUFFICES ASSUME Init PROVE NidsInv /\ ViewInv
    BY RoleInvInductive DEF OnceInv
  <2>1. NidsInv
    BY DEF Init, NidsInv, Known, Idle, AtRest, NoApp, BlankDisk
  <2>2. ViewInv
    BY NidsFacts DEF Init, ViewInv, Idle, AtRest
  <2> QED
    BY <2>1, <2>2
<1>2. OnceInv /\ [Next]_vars => OnceInv'
  <2> SUFFICES ASSUME OnceInv, [Next]_vars PROVE OnceInv'
    OBVIOUS
  <2>1. CASE Next
    BY <2>1, OnceStep DEF Next
  <2>2. CASE UNCHANGED vars
    <3>1. RoleInv'
      BY <2>2, RoleInvInductive DEF OnceInv
    <3> QED
      BY <2>2, <3>1 DEF vars, data, machine, OnceInv, NidsInv, Known, ViewInv, Promoted
  <2> QED
    BY <2>1, <2>2
<1> QED
  BY <1>1, <1>2

(* "Never overwrites" (lustre_peer.py:232-233) needs settled elections only if two
   units can become the MGS or the MGS may come back with other NIDs: otherwise it
   holds even if leadership moves while a hook runs. *)
THEOREM OneMgsWriteOnce ==
    ASSUME OneMgs, StaticAddresses
    PROVE  Spec => MgsStable
<1>1. OnceInv /\ [Next]_vars => [Promoted(app) => app' = app]_vars
  BY AppKept DEF Next
<1> QED
  BY <1>1, OnceInvInductive, PTL DEF Spec, MgsStable

-----------------------------------------------------------------------------
(* The filesystem is offered when every unit has reported ready.  The reports that
   a hook reads only ever become true, and the unit that publishes has a report of
   its own that it flushes with the endpoint. *)

(* Why a unit is ready: it is the promoted MGS, or it has a formatted OST. *)
Earned(u, a) == (Promoted(a) /\ a.unit = u) \/ disk[u].ost # NoNids
ReadyInv == \A u \in Units :
    /\ bag[u].ready => Earned(u, app)
    /\ hook[u].ready => Earned(u, hook[u].app)
    /\ InHook(u) /\ bag[u].ready => hook[u].ready
    /\ hook[u].pc = "publish" => hook[u].ready

OfferInv ==
    /\ \A u \in Units : hook[u].endpoint # NoNids =>
          hook[u].ready /\ \A v \in InitUnits \ {u} : bag[v].ready
    /\ endpoint # NoNids =>
          endpoint = app.nids /\ \A v \in InitUnits : bag[v].ready

ServeInv == OnceInv /\ EndpointInv /\ UnitsInv /\ ReadyInv /\ OfferInv

LEMMA AllReady ==
    ASSUME TypeOK, NEW u \in units, AllUnitsReady(u)
    PROVE  \A v \in units \ {u} : bag[v].ready
<1>1. ReadyUnits(u) \in SUBSET units
  BY DEF ReadyUnits
<1>2. IsFiniteSet(units)
  BY FiniteUnitsAssumption, FS_Subset DEF TypeOK
<1>3. /\ Cardinality(ReadyUnits(u)) \in Nat /\ Cardinality(units) \in Nat
      /\ Cardinality(ReadyUnits(u)) <= Cardinality(units)
      /\ Cardinality(units) = Cardinality(ReadyUnits(u)) => units = ReadyUnits(u)
  BY <1>1, <1>2, FS_Subset, FS_CardinalityType
<1>4. units = ReadyUnits(u)
  BY <1>3 DEF AllUnitsReady
<1> QED
  BY <1>4 DEF ReadyUnits

(* What a unit earned it keeps, and a report is never taken back. *)
LEMMA EarnedKept ==
    ASSUME OneMgs, OnceInv, ReadyInv, NEW u \in Units,
           HookStep(u) \/ Dispatch(u) \/ OnUpdateStatus(u) \/ Environment(u)
    PROVE  \A v \in Units : /\ disk[v].ost # NoNids => disk'[v].ost # NoNids
                            /\ Earned(v, app) => Earned(v, app)'
                            /\ bag[v].ready => bag'[v].ready
<1>0. TypeOK /\ bag \in [Units -> UnitData] /\ hook \in [Units -> Hook]
  BY DEF OnceInv, RoleInv, SafeInv, TypeOK
<1>1. \A v \in Units : disk[v].ost # NoNids => disk'[v].ost # NoNids
  BY <1>0, DiskGrows DEF Grows
<1>2. \A v \in Units : Earned(v, app) => Earned(v, app)'
  BY <1>1, AppKept DEF Earned, Promoted
<1>3. \A v \in Units : bag[v].ready => bag'[v].ready
  <2>1. CASE Flush(u)
    <3>1. bag' = [bag EXCEPT ![u] = [ready |-> hook[u].ready, nids |-> hook[u].nids]]
          /\ InHook(u)
      BY <2>1 DEF Flush, InHook, Running
    <3>2. bag[u].ready => hook[u].ready
      BY <3>1 DEF ReadyInv
    <3> QED
      BY <1>0, <3>1, <3>2
  <2> QED
    BY <2>1, DatabagSteps
<1> QED
  BY <1>1, <1>2, <1>3

LEMMA ReadyStep ==
    ASSUME OneMgs, OnceInv, ReadyInv, NEW u \in Units,
           HookStep(u) \/ Dispatch(u) \/ OnUpdateStatus(u) \/ Environment(u)
    PROVE  ReadyInv'
<1>0. /\ TypeOK /\ bag \in [Units -> UnitData] /\ hook \in [Units -> Hook]
      /\ hook[u] \in Hook /\ bag[u].ready \in BOOLEAN
  BY DEF OnceInv, RoleInv, SafeInv, TypeOK, UnitData
<1>1. PICK x : hook' = [hook EXCEPT ![u] = x] /\ Moves(u, x)
  BY StepMoves DEF OnceInv, RoleInv
<1>2. hook'[u] = x /\ \A v \in Units \ {u} : hook'[v] = hook[v]
  BY <1>0, <1>1
<1>3. \A v \in Units : bag'[v].ready => Earned(v, app)'
  <2>1. CASE Flush(u)
    <3>1. bag' = [bag EXCEPT ![u] = [ready |-> hook[u].ready, nids |-> hook[u].nids]]
      BY <2>1 DEF Flush
    <3>2. hook[u].ready => Earned(u, app)'
      <4>1. CASE hook[u].ready /\ disk[u].ost # NoNids
        BY <4>1, EarnedKept DEF Earned
      <4>2. CASE hook[u].ready /\ Promoted(hook[u].app) /\ hook[u].app.unit = u
        <5>1. CASE Promoted(app)
          BY <4>2, <5>1, OneApp, EarnedKept DEF Earned
        <5>2. CASE ~Promoted(app)
          <6>1. hook[u].writes
            BY <1>0, <4>2, <5>2 DEF OnceInv, ViewInv, Hook
          <6>2. app' = hook[u].app
            BY <2>1, <6>1 DEF Flush
          <6> QED
            BY <4>2, <6>2 DEF Earned, Promoted
        <5> QED
          BY <5>1, <5>2
      <4> QED
        BY <4>1, <4>2 DEF ReadyInv, Earned
    <3>3. \A v \in Units \ {u} : bag'[v] = bag[v]
      BY <1>0, <3>1
    <3>4. bag'[u].ready = hook[u].ready
      BY <1>0, <3>1
    <3> QED
      BY <3>2, <3>3, <3>4, EarnedKept DEF ReadyInv
  <2>2. CASE bag' = bag
    BY <2>2, EarnedKept DEF ReadyInv
  <2> QED
    BY <2>1, <2>2, DatabagSteps
<1>4. /\ x.ready => (Promoted(x.app) /\ x.app.unit = u) \/ disk'[u].ost # NoNids
      /\ x.pc \in Running /\ bag[u].ready => x.ready
      /\ x.pc = "publish" => x.ready
  <2>1. CASE x = hook[u]
    BY <2>1, EarnedKept DEF ReadyInv, Earned, InHook
  <2>2. CASE AtEnd(x)
    BY <2>2 DEF AtEnd, Running
  <2>3. CASE Begins(u, x)
    <3>1. bag[u].ready => (Promoted(app) /\ app.unit = u) \/ disk'[u].ost # NoNids
      BY EarnedKept DEF ReadyInv, Earned
    <3> QED
      BY <2>3, <3>1 DEF Begins
  <2>4. CASE GoesOn(u, x)
    <3>1. /\ hook[u].ready => \/ Promoted(hook[u].app) /\ hook[u].app.unit = u
                              \/ disk'[u].ost # NoNids
          /\ bag[u].ready => hook[u].ready
      BY <2>4, EarnedKept DEF ReadyInv, Earned, GoesOn, InHook
    <3> QED
      BY <2>4, <3>1 DEF GoesOn
  <2> QED
    BY <1>1, <2>1, <2>2, <2>3, <2>4 DEF Moves
<1>5. InHook(u)' /\ bag'[u].ready => hook'[u].ready
  <2>1. CASE Flush(u)
    BY <1>0, <2>1 DEF Flush, Become, InHook, Idle, AtRest, Running
  <2>2. CASE bag' = bag
    BY <1>2, <1>4, <2>2 DEF InHook
  <2> QED
    BY <2>1, <2>2, DatabagSteps
<1>6. \A v \in Units \ {u} : bag'[v] = bag[v]
  <2>1. CASE Flush(u)
    BY <1>0, <2>1 DEF Flush
  <2> QED
    BY <2>1, DatabagSteps
<1>7. \A v \in Units :
        /\ hook'[v].ready => Earned(v, hook[v].app)'
        /\ InHook(v)' /\ bag'[v].ready => hook'[v].ready
        /\ hook'[v].pc = "publish" => hook'[v].ready
  <2> TAKE v \in Units
  <2>1. CASE v = u
    BY <1>2, <1>4, <1>5, <2>1 DEF Earned, Promoted
  <2>2. CASE v # u
    <3>1. hook'[v] = hook[v] /\ bag'[v] = bag[v]
      BY <1>2, <1>6, <2>2
    <3> QED
      BY <3>1, EarnedKept DEF ReadyInv, Earned, Promoted, InHook
  <2> QED
    BY <2>1, <2>2
<1> QED
  BY <1>3, <1>7 DEF ReadyInv

LEMMA OfferStep ==
    ASSUME OneMgs, ServeInv, NEW u \in Units,
           HookStep(u) \/ Dispatch(u) \/ OnUpdateStatus(u) \/ Environment(u)
    PROVE  OfferInv'
<1>0. /\ OnceInv /\ EndpointInv /\ UnitsInv /\ ReadyInv /\ OfferInv /\ TypeOK
      /\ bag \in [Units -> UnitData] /\ hook \in [Units -> Hook] /\ app \in AppData
      /\ hook[u] \in Hook /\ hook[u].app \in AppData
      /\ InitUnits \subseteq Units
  BY UnitsAssumption DEF ServeInv, OnceInv, RoleInv, SafeInv, TypeOK, Hook
<1>1. \A v \in Units : bag[v].ready => bag'[v].ready
  BY <1>0, EarnedKept
<1>2. PICK x : hook' = [hook EXCEPT ![u] = x] /\ Moves(u, x)
  BY <1>0, StepMoves DEF OnceInv, RoleInv
<1>3. hook'[u] = x /\ \A v \in Units \ {u} : hook'[v] = hook[v]
  BY <1>0, <1>2
<1>4. \A a \in AppData : a.nids # NoNids => Promoted(a)
  BY UnitsAssumption, NidsFacts DEF AppData, Promoted, NoApp
<1>5. x.endpoint # NoNids => x.ready /\ \A v \in InitUnits \ {u} : bag[v].ready
  <2>1. CASE x = hook[u]
    BY <1>0, <2>1 DEF OfferInv
  <2>2. CASE AtEnd(x) \/ Begins(u, x)
    BY <2>2 DEF AtEnd, Begins
  <2>3. CASE GoesOn(u, x) /\ x.endpoint = hook[u].endpoint
    BY <1>0, <2>3 DEF GoesOn, OfferInv
  <2>4. CASE GoesOn(u, x) /\ Offers(u, x)
    <3>1. u \in units
      BY <1>0, <2>4 DEF Offers, UnitsInv
    <3>2. \A v \in units \ {u} : bag[v].ready
      BY <1>0, <2>4, <3>1, AllReady DEF Offers
    <3>3. x.ready
      BY <1>0, <2>4 DEF GoesOn, Offers, ReadyInv
    <3> QED
      BY <1>0, <3>2, <3>3 DEF UnitsInv
  <2> QED
    BY <1>2, <2>1, <2>2, <2>3, <2>4 DEF Moves, GoesOn
<1>6. \A v \in Units : hook'[v].endpoint # NoNids =>
        hook'[v].ready /\ \A w \in InitUnits \ {v} : bag'[w].ready
  <2> TAKE v \in Units
  <2>1. CASE v = u
    BY <1>0, <1>1, <1>3, <1>5, <2>1
  <2>2. CASE v # u
    <3>1. hook'[v] = hook[v]
      BY <1>3, <2>2
    <3> QED
      BY <1>0, <1>1, <3>1 DEF OfferInv
  <2> QED
    BY <2>1, <2>2
<1>7. endpoint' # NoNids => endpoint' = app'.nids /\ \A v \in InitUnits : bag'[v].ready
  <2>1. CASE endpoint' = endpoint
    <3>1. endpoint # NoNids => Promoted(app) /\ app' = app
      BY <1>0, <1>4, AppKept DEF OfferInv
    <3> QED
      BY <1>0, <1>1, <2>1, <3>1 DEF OfferInv
  <2>2. CASE Flush(u) /\ hook[u].endpoint # NoNids
    <3>1. /\ endpoint' = hook[u].app.nids /\ Promoted(hook[u].app)
          /\ hook[u].ready /\ \A v \in InitUnits \ {u} : bag[v].ready
      BY <1>0, <1>4, <2>2 DEF Flush, EndpointInv, EndpointOk, OfferInv
    <3>2. app' = hook[u].app
      <4>1. CASE Promoted(app)
        BY <1>0, <3>1, <4>1, AppKept, OneApp
      <4>2. CASE ~Promoted(app)
        <5>1. hook[u].writes
          BY <1>0, <3>1, <4>2 DEF OnceInv, ViewInv, Hook
        <5> QED
          BY <2>2, <5>1 DEF Flush
      <4> QED
        BY <4>1, <4>2
    <3>3. bag'[u].ready
      BY <1>0, <2>2, <3>1 DEF Flush
    <3> QED
      BY <1>0, <1>1, <3>1, <3>2, <3>3
  <2> QED
    BY <2>1, <2>2, DatabagSteps DEF Flush
<1> QED
  BY <1>6, <1>7 DEF OfferInv

LEMMA ServeInvInductive ==
    ASSUME OneMgs, StaticAddresses
    PROVE  /\ Init => ServeInv
           /\ ServeInv /\ [Next]_vars => ServeInv'
<1>1. Init => ServeInv
  <2> SUFFICES ASSUME Init PROVE UnitsInv /\ ReadyInv /\ OfferInv
    BY OnceInvInductive, EndpointInvInductive DEF ServeInv
  <2>1. UnitsInv
    BY DEF Init, UnitsInv, Idle, AtRest
  <2>2. ReadyInv
    BY DEF Init, ReadyInv, InHook, Running, Idle, AtRest
  <2>3. OfferInv
    BY DEF Init, OfferInv, Idle, AtRest
  <2> QED
    BY <2>1, <2>2, <2>3
<1>2. ServeInv /\ [Next]_vars => ServeInv'
  <2> SUFFICES ASSUME ServeInv, [Next]_vars PROVE ServeInv'
    OBVIOUS
  <2>0. /\ OnceInv /\ EndpointInv /\ UnitsInv /\ ReadyInv /\ OfferInv
        /\ SafeInv /\ TypeOK
    BY DEF ServeInv, OnceInv, RoleInv, SafeInv
  <2>1. OnceInv' /\ EndpointInv'
    BY <2>0, OnceInvInductive, EndpointInvInductive
  <2>2. ASSUME NEW u \in Units,
               HookStep(u) \/ Dispatch(u) \/ OnUpdateStatus(u) \/ Environment(u)
        PROVE  UnitsInv' /\ ReadyInv' /\ OfferInv'
    BY <2>0, <2>2, UnitsStep, ReadyStep, OfferStep
  <2>3. CASE UNCHANGED vars
    <3>1. UNCHANGED <<units, leader, pending, hook, bag, disk, app, endpoint>>
      BY <2>3 DEF vars, data
    <3>2. UnitsInv'
      BY <2>0, <3>1 DEF UnitsInv
    <3>3. ReadyInv' /\ OfferInv'
      BY <2>0, <3>1 DEF ReadyInv, OfferInv, Earned, Promoted, InHook
    <3> QED
      BY <2>1, <3>2, <3>3 DEF ServeInv
  <2> QED
    BY <2>1, <2>2, <2>3 DEF Next, ServeInv
<1> QED
  BY <1>1, <1>2

(* Clients get the filesystem only when it can serve (lustre_peer.py:321-332): the
   endpoint is the promoted MGS, which exists, every unit of the first deployment
   has reported ready, and the OSTs of the others belong to that very MGS, whoever
   was elected in between and whatever hooks failed. *)
THEOREM OfferedIsServable ==
    ASSUME OneMgs, StaticAddresses
    PROVE  Spec => []PublishedIsServable
<1>1. ServeInv => PublishedIsServable
  <2> SUFFICES ASSUME ServeInv, endpoint # NoNids
               PROVE  /\ endpoint = app.nids /\ disk[app.unit].mgs
                      /\ \A u \in InitUnits : bag[u].ready
                      /\ \A u \in InitUnits \ {app.unit} : disk[u].ost = endpoint
    BY DEF PublishedIsServable
  <2>0. /\ OnceInv /\ RoleInv /\ NidsInv /\ ReadyInv /\ TypeOK
        /\ PromotedMgsExists /\ MgsInv /\ app \in AppData
    BY DEF ServeInv, OnceInv, RoleInv, SafeInv, TypeOK
  <2>1. endpoint = app.nids /\ \A u \in InitUnits : bag[u].ready
    BY DEF ServeInv, OfferInv
  <2>2. Promoted(app) /\ app.unit \in Units /\ app.nids \in Nids
    BY <2>0, <2>1, UnitsAssumption, NidsFacts DEF AppData, Promoted, NoApp
  <2>3. app.nids.host = app.unit /\ disk[app.unit].mgs
    BY <2>0, <2>2 DEF PromotedMgsExists, PromotedFromMgs
  <2>4. ASSUME NEW u \in InitUnits \ {app.unit} PROVE disk[u].ost = app.nids
    <3> DEFINE n == disk[u].ost
    <3>1. u \in Units /\ n # NoNids
      BY <2>0, <2>1, UnitsAssumption DEF ReadyInv, Earned
    <3>2. n \in Nids
      BY <2>0, <3>1 DEF TypeOK, Disk, NidsOrNone
    <3>3. n.host \in Units /\ disk[n.host].mgs
      BY <2>0, <3>1, <3>2 DEF PromotedMgsExists, Nids
    <3>4. n.host = app.unit
      BY <2>0, <2>2, <2>3, <3>3 DEF MgsInv, OneMgs
    <3>5. n.addr = app.nids.addr
      <4>1. app.nids # NoNids
        BY <2>2 DEF Promoted
      <4>2. Known(n) /\ Known(app.nids)
        BY <2>0, <3>1 DEF NidsInv
      <4> QED
        BY <2>3, <3>1, <3>4, <4>1, <4>2 DEF Known
    <3> QED
      BY <2>2, <2>3, <3>2, <3>4, <3>5 DEF Nids
  <2> QED
    BY <2>1, <2>3, <2>4
<1> QED
  BY <1>1, ServeInvInductive, PTL DEF Spec

-----------------------------------------------------------------------------
(* With one MGS the registry needs no settled elections either. *)

LEMMA OnceRegisters ==
    ASSUME OneMgs, ServeInv, NEW u \in Units,
           HookStep(u) \/ Dispatch(u) \/ OnUpdateStatus(u) \/ Environment(u)
    PROVE  RegistryStep
<1>0. /\ OnceInv /\ SafeInv /\ HookInv /\ TypeOK /\ EndpointInv /\ ViewInv
      /\ app \in AppData /\ hook[u] \in Hook /\ hook[u].app \in AppData
  BY DEF ServeInv, OnceInv, RoleInv, SafeInv, TypeOK, Hook
<1>1. Formats' = Formats \/ Formats' = Formats \cup {u}
  <2>1. \A v \in Units \ {u} : disk'[v] = disk[v]
    BY <1>0, TargetSteps
  <2>2. disk[u].mgs => disk'[u].mgs
    BY <1>0, DiskGrows DEF Grows
  <2> QED
    BY <2>1, <2>2 DEF Formats
<1>2. CASE UNCHANGED <<app, endpoint>>
  <2>1. CASE Formats' = Formats \cup {u}
    <3>1. Registry!Format(u)
      BY <1>2, <2>1 DEF Registry!Format, Formats
    <3> QED
      BY <3>1 DEF RegistryStep, Registry!Next
  <2> QED
    BY <1>1, <1>2, <2>1 DEF RegistryStep
<1>3. CASE Flush(u)
  <2>1. Formats' = Formats
    BY <1>3 DEF Flush, Formats
  <2>2. hook[u].endpoint # NoNids => Promoted(hook[u].app)
    BY <1>0, UnitsAssumption, NidsFacts
    DEF EndpointInv, EndpointOk, AppData, Promoted, NoApp
  <2>3. endpoint' = endpoint \/ (endpoint' = hook[u].app.nids /\ Promoted(hook[u].app))
    BY <1>0, <1>3, <2>2 DEF Flush, EndpointInv, EndpointOk
  <2>4. CASE app' = app
    <3>1. CASE endpoint' = endpoint
      BY <2>1, <2>4, <3>1 DEF RegistryStep
    <3>2. CASE endpoint' = hook[u].app.nids /\ Promoted(hook[u].app)
      <4>1. hook[u].app = app
        <5>1. CASE hook[u].writes
          BY <1>3, <2>4, <5>1 DEF Flush
        <5>2. CASE ~hook[u].writes
          BY <1>0, <3>2, <5>2, OneApp DEF ViewInv, Hook
        <5> QED
          BY <5>1, <5>2
      <4>2. Registry!Offer
        BY <2>1, <2>4, <3>2, <4>1, NidsFacts DEF Registry!Offer, Formats
      <4> QED
        BY <4>2 DEF RegistryStep, Registry!Next
    <3> QED
      BY <2>3, <3>1, <3>2
  <2>5. CASE app' # app
    <3>1. app' = hook[u].app /\ Promoted(app') /\ ~Promoted(app)
      BY <1>0, <2>5, AppKept
    <3>2. app = NoApp
      BY <1>0, <3>1, UnitsAssumption DEF AppData, Promoted, NoNids, Nids
    <3> DEFINE a == hook[u].app
    <3>3. Promoted(a) /\ a \in [unit : Units, nids : Nids]
      BY <1>0, <3>1, NidsFacts DEF AppData, Promoted
    <3>4. a.nids.host = a.unit /\ a.unit \in Formats
      BY <1>0, <3>3 DEF HookInv, HookOk, PromotedFromMgs, Formats
    <3>5. PICK d \in Addresses : a.nids = [host |-> a.unit, addr |-> d]
      BY <3>3, <3>4 DEF Nids
    <3>6. app' = [unit |-> a.unit, nids |-> a.nids]
      BY <3>1, <3>3
    <3>7. endpoint' \in {endpoint, a.nids}
      BY <2>3
    <3>8. Registry!Choose(a.unit, [host |-> a.unit, addr |-> d])
      BY <2>1, <3>2, <3>4, <3>5, <3>6, <3>7 DEF Registry!Choose, Formats
    <3> QED
      BY <3>3, <3>5, <3>8 DEF RegistryStep, Registry!Next
  <2> QED
    BY <2>4, <2>5
<1> QED
  BY <1>0, <1>2, <1>3, DatabagSteps

(* The units together are an MgsRegistry, also when leadership moves while hooks
   run (lustre_peer.py:229-249, 321-332). *)
THEOREM OneMgsImplementsRegistry ==
    ASSUME OneMgs, StaticAddresses
    PROVE  Spec => ImplementsRegistry
<1>1. Init => Registry!Init
  BY DEF Init, Registry!Init, BlankDisk
<1>2. ServeInv /\ [Next]_vars => [Registry!Next]_(Registry!vars)
  <2> SUFFICES ASSUME ServeInv, [Next]_vars PROVE RegistryStep
    BY DEF RegistryStep, Registry!vars, Formats
  <2>1. CASE UNCHANGED vars
    BY <2>1 DEF vars, data, RegistryStep, Formats
  <2>2. CASE Next
    BY <2>2, OnceRegisters DEF Next
  <2> QED
    BY <2>1, <2>2
<1> QED
  BY <1>1, <1>2, ServeInvInductive, PTL DEF Spec, ImplementsRegistry, Registry!Spec
=============================================================================
