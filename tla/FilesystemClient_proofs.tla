----------------------- MODULE FilesystemClient_proofs -----------------------
(* Safety theorems of FilesystemClient, for any requests, endpoints and mount
   relations, and any number of failures, crashes, reboots and changes. *)
EXTENDS FilesystemClient, TLAPS

-----------------------------------------------------------------------------
(* What the rest of the hook relies on: between the set-up and the reload the
   machine is set up for the configuration that the hook has read (charm.py:64-66). *)
SetUpBeforeMount ==
    hook.pc \in {"mount", "reload"} => IsSetup(host, config.lustre)

(* Files and packages only grow; the map is not touched by a set-up. *)
Grows(h, i) ==
    /\ i \in Host
    /\ h.packages \subseteq i.packages /\ (h.lnet => i.lnet)

Inv == TypeOK /\ LustreNeedsLnet /\ SetUpBeforeMount

-----------------------------------------------------------------------------
(* The steps of a set-up. *)

LEMMA InstalledGrows ==
    ASSUME NEW h \in Host, NEW lustre \in BOOLEAN
    PROVE  /\ Grows(h, Installed(h, lustre)) /\ Installed(h, lustre).map = h.map
           /\ Needed(lustre) \subseteq Installed(h, lustre).packages
BY DEF Host, Grows, Installed, Needed

LEMMA TouchGrows ==
    ASSUME NEW h \in Host
    PROVE  /\ Grows(h, TouchMaster(h)) /\ TouchMaster(h).map = h.map
           /\ Grows(h, TouchMap(h)) /\ TouchMap(h).map = h.map
           /\ TouchMap(h).mapExists
           /\ Grows(h, WriteMaster(h)) /\ WriteMaster(h).map = h.map
           /\ WriteMaster(h).master = "written" /\ WriteMaster(h).mapExists = h.mapExists
           /\ Grows(h, [h EXCEPT !.master = "empty"])
           /\ [h EXCEPT !.master = "empty"].map = h.map
BY DEF Host, Grows, TouchMaster, TouchMap, WriteMaster

LEMMA TouchedGrows ==
    ASSUME NEW h \in Host, NEW lustre \in BOOLEAN
    PROVE  /\ Touched(h, lustre) \in Host
           /\ Grows(h, Touched(h, lustre)) /\ Touched(h, lustre).map = h.map
           /\ Needed(lustre) \subseteq Touched(h, lustre).packages
           /\ Touched(h, lustre).mapExists
<1> DEFINE i == Installed(h, lustre)
           j == TouchMaster(i)
<1>1. Grows(h, i) /\ i.map = h.map /\ Needed(lustre) \subseteq i.packages /\ i \in Host
  BY InstalledGrows DEF Grows
<1>2. Grows(i, j) /\ j.map = i.map /\ j \in Host
  BY <1>1, TouchGrows DEF Grows
<1>3. Grows(j, TouchMap(j)) /\ TouchMap(j).map = j.map /\ TouchMap(j).mapExists
  BY <1>2, TouchGrows
<1> QED
  BY <1>1, <1>2, <1>3 DEF Grows, Touched

LEMMA WrittenGrows ==
    ASSUME NEW h \in Host, NEW lustre \in BOOLEAN
    PROVE  LET w == WriteMaster(Touched(h, lustre)) IN
           /\ Grows(h, w) /\ w.map = h.map /\ w.mapExists /\ w.master = "written"
           /\ Needed(lustre) \subseteq w.packages
<1> DEFINE t == Touched(h, lustre)
<1>1. t \in Host /\ Grows(h, t) /\ t.map = h.map
      /\ Needed(lustre) \subseteq t.packages /\ t.mapExists
  BY TouchedGrows
<1>2. Grows(t, WriteMaster(t)) /\ WriteMaster(t).map = t.map
      /\ WriteMaster(t).master = "written" /\ WriteMaster(t).mapExists = t.mapExists
  BY <1>1, TouchGrows
<1> QED
  BY <1>1, <1>2 DEF Grows

(* setup() ends with a machine on which is_setup() holds. *)
LEMMA PreparedIsSetup ==
    ASSUME NEW h \in Host, NEW lustre \in BOOLEAN
    PROVE  /\ Grows(h, Prepared(h, lustre)) /\ Prepared(h, lustre).map = h.map
           /\ IsSetup(Prepared(h, lustre), lustre)
<1> DEFINE w == WriteMaster(Touched(h, lustre))
<1>1. Grows(h, w) /\ w.map = h.map /\ w.mapExists /\ w.master = "written"
      /\ Needed(lustre) \subseteq w.packages
  BY WrittenGrows
<1>2. Prepared(h, lustre) = [w EXCEPT !.lnet = w.lnet \/ lustre]
  BY DEF Prepared, InitLnet
<1>3. w \in Host
  BY <1>1 DEF Grows
<1> QED
  BY <1>1, <1>2, <1>3 DEF Grows, Host, IsSetup

(* A set-up that is interrupted takes nothing away. *)
LEMMA LeftByGrows ==
    ASSUME NEW h \in Host, NEW lustre \in BOOLEAN, NEW c \in Commands,
           NEW i \in LeftBy(c, h, lustre)
    PROVE  Grows(h, i) /\ i.map = h.map
<1>1. CASE c = "packages"
  <2>1. i = h \/ i = Installed(h, FALSE)
    BY <1>1 DEF LeftBy
  <2> QED
    BY <2>1, InstalledGrows DEF Grows
<1>2. CASE c = "touch"
  <2>1. i = Installed(h, lustre) \/ i = TouchMaster(Installed(h, lustre))
    BY <1>2 DEF LeftBy
  <2>2. Grows(h, Installed(h, lustre)) /\ Installed(h, lustre).map = h.map
        /\ Installed(h, lustre) \in Host
    BY InstalledGrows DEF Grows
  <2>3. Grows(Installed(h, lustre), TouchMaster(Installed(h, lustre)))
        /\ TouchMaster(Installed(h, lustre)).map = Installed(h, lustre).map
    BY <2>2, TouchGrows
  <2> QED
    BY <2>1, <2>2, <2>3 DEF Grows
<1>3. CASE c = "write"
  <2> DEFINE t == Touched(h, lustre)
  <2>1. i = t \/ i = [t EXCEPT !.master = "empty"]
    BY <1>3 DEF LeftBy
  <2>2. t \in Host /\ Grows(h, t) /\ t.map = h.map
    BY TouchedGrows
  <2>3. Grows(t, [t EXCEPT !.master = "empty"]) /\ [t EXCEPT !.master = "empty"].map = t.map
    BY <2>2, TouchGrows
  <2> QED
    BY <2>1, <2>2, <2>3 DEF Grows
<1>4. CASE c = "lnet"
  <2>1. i = WriteMaster(Touched(h, lustre))
    BY <1>4 DEF LeftBy
  <2> QED
    BY <2>1, WrittenGrows
<1>5. c # "reload"
  BY DEF LeftBy
<1> QED
  BY <1>1, <1>2, <1>3, <1>4, <1>5 DEF Commands

-----------------------------------------------------------------------------
(* Maps and what autofs serves. *)

LEMMA NoEntryFacts ==
    /\ NoEntry \in Entries \cup {NoEntry}
    /\ NoEntry.endpoint \notin LustreEndpoints
BY EndpointsAssumption DEF NoEntry, Entry

LEMMA LoadedEntry ==
    ASSUME NEW h \in Host
    PROVE  Loaded(h) \in Entries \cup {NoEntry} /\ Loaded(h) \in {h.map, NoEntry}
BY DEF Loaded, Host

(* A machine that only grew, with a map and a served entry that were there or are
   empty, keeps the invariant LustreNeedsLnet. *)
LEMMA KeepsLustreNeedsLnet ==
    ASSUME LustreNeedsLnet, Grows(host, host'),
           host'.map \in {host.map, served, NoEntry}, served' \in {host.map, served, NoEntry}
    PROVE  LustreNeedsLnet'
BY NoEntryFacts DEF LustreNeedsLnet, Grows

LEMMA HostSteps ==
    ASSUME NEW h \in Host
    PROVE  /\ Grows(h, h)
           /\ \A e \in Entries \cup {NoEntry} :
                LET i == [h EXCEPT !.map = e] IN
                /\ Grows(h, i) /\ i.map = e
                /\ \A l \in BOOLEAN : IsSetup(h, l) => IsSetup(i, l)
BY DEF Host, Grows, IsSetup

-----------------------------------------------------------------------------
LEMMA InitInv == Init => Inv
<1> SUFFICES ASSUME Init PROVE Inv
  OBVIOUS
<1>1. host \in Host
  BY DEF Init, Host
<1>2. TypeOK
  BY <1>1 DEF Init, TypeOK, Hook
<1>3. LustreNeedsLnet
  BY NoEntryFacts DEF Init, LustreNeedsLnet
<1> QED
  BY <1>2, <1>3 DEF Init, Inv, SetUpBeforeMount

LEMMA FaultType ==
    ASSUME TypeOK, NEW c, Fault(c)
    PROVE  used' \in [faults : Nat, crashes : Nat, reboots : Nat, changes : Nat]
BY DEF TypeOK, Fault

LEMMA ChangeType ==
    ASSUME TypeOK, Change
    PROVE  used' \in [faults : Nat, crashes : Nat, reboots : Nat, changes : Nat]
BY DEF TypeOK, Change

LEMMA GotoType ==
    ASSUME TypeOK, NEW pc \in {"idle", "failed", "setup", "mount", "reload", "commit"},
           Goto(pc)
    PROVE  hook' \in Hook /\ hook'.pc = pc
BY DEF TypeOK, Goto, Hook

LEMMA HandleEventInv == Inv /\ HandleEvent => Inv'
<1> SUFFICES ASSUME Inv, HandleEvent PROVE Inv'
  OBVIOUS
<1> USE DEF Inv
<1>1. UNCHANGED <<world, host, served, mounted, used>>
      /\ hook' \in Hook /\ hook'.pc \notin {"mount", "reload"}
      /\ status' \in {"maintenance", "blocked"}
  BY DEF HandleEvent, Hook
<1>2. TypeOK'
  BY <1>1 DEF TypeOK, world
<1>3. LustreNeedsLnet'
  BY <1>1 DEF LustreNeedsLnet
<1> QED
  BY <1>1, <1>2, <1>3 DEF SetUpBeforeMount

LEMMA SetupInv == Inv /\ Setup => Inv'
<1> SUFFICES ASSUME Inv, Setup PROVE Inv'
  OBVIOUS
<1> USE DEF Inv
<1>0. hook.pc = "setup" /\ UNCHANGED <<world, served, mounted>>
      /\ host \in Host /\ config.lustre \in BOOLEAN /\ hook \in Hook
  BY DEF Setup, TypeOK, Config
<1>1. ASSUME host' = IF IsSetup(host, config.lustre) THEN host
                     ELSE Prepared(host, config.lustre),
             Goto("mount"), UNCHANGED <<status, used>>
      PROVE  Inv'
  <2>1. Grows(host, host') /\ host'.map = host.map /\ IsSetup(host', config.lustre)
    BY <1>0, <1>1, PreparedIsSetup, HostSteps
  <2>2. TypeOK'
    BY <1>0, <1>1, <2>1, GotoType DEF TypeOK, world, Grows
  <2>3. LustreNeedsLnet'
    BY <1>0, <2>1, KeepsLustreNeedsLnet
  <2> QED
    BY <1>0, <2>1, <2>2, <2>3 DEF SetUpBeforeMount, world
<1>2. ASSUME NEW c \in Commands, NEW h \in SetupFailures(c),
             Fault(c), host' = h, Stop("blocked")
      PROVE  Inv'
  <2>1. h = host \/ h \in LeftBy(c, host, config.lustre)
    BY DEF SetupFailures
  <2>2. Grows(host, host') /\ host'.map = host.map
    BY <1>0, <1>2, <2>1, LeftByGrows, HostSteps
  <2>3. hook' \in Hook /\ hook'.pc = "commit" /\ status' = "blocked"
    BY <1>2, GotoType DEF Stop
  <2>4. TypeOK'
    BY <1>0, <1>2, <2>2, <2>3, FaultType DEF TypeOK, world, Grows
  <2>5. LustreNeedsLnet'
    BY <1>0, <2>2, KeepsLustreNeedsLnet
  <2> QED
    BY <2>3, <2>4, <2>5 DEF SetUpBeforeMount
<1> QED
  BY <1>1, <1>2 DEF Setup

(* A hook that gets as far as the map has a request and an endpoint, and LNet if
   the endpoint needs it. *)
LEMMA MountableEntry ==
    ASSUME Inv, hook.pc = "mount", ~CannotMount, ~Waits,
           NEW q \in Requests \cup {NoRequest}, Asked(q)
    PROVE  /\ Entry(q, provider) \in Entries
           /\ provider \in LustreEndpoints => "lustre" \in host.packages /\ host.lnet
<1>1. q \in Requests /\ provider \in Endpoints
  BY DEF Inv, TypeOK, CannotMount, Waits
<1>2. provider \in LustreEndpoints => config.lustre
  BY DEF CannotMount
<1>3. IsSetup(host, config.lustre)
  BY DEF Inv, SetUpBeforeMount
<1>4. provider \in LustreEndpoints => "lustre" \in host.packages /\ host.lnet
  BY <1>2, <1>3 DEF IsSetup, Needed
<1> QED
  BY <1>1, <1>4 DEF Entry, Entries

LEMMA MountInv == Inv /\ Mount => Inv'
<1> SUFFICES ASSUME Inv, Mount PROVE Inv'
  OBVIOUS
<1> USE DEF Inv
<1>0. hook.pc = "mount" /\ UNCHANGED <<world, served, mounted>>
      /\ host \in Host /\ config.lustre \in BOOLEAN /\ hook \in Hook
  BY DEF Mount, TypeOK, Config
<1>1. ASSUME NEW s \in {"blocked", "waiting"}, Stop(s), UNCHANGED <<host, used>>
      PROVE  Inv'
  <2>1. hook' \in Hook /\ hook'.pc = "commit" /\ status' = s
    BY <1>1, GotoType DEF Stop
  <2>2. TypeOK'
    BY <1>0, <1>1, <2>1 DEF TypeOK, world
  <2>3. LustreNeedsLnet'
    BY <1>0, <1>1 DEF LustreNeedsLnet
  <2> QED
    BY <2>1, <2>2, <2>3 DEF SetUpBeforeMount
<1>2. ASSUME ~CannotMount, ~Waits, NEW q \in Requests \cup {NoRequest}, Asked(q)
      PROVE  LET e == Entry(q, provider) IN
             /\ ~MapChanged(e) /\ hook' = [pc |-> "commit", flag |-> "true"]
                /\ status' = "active" /\ UNCHANGED <<host, used>> => Inv'
             /\ host' = [host EXCEPT !.map = e]
                /\ Goto("reload") /\ status' = "active" /\ UNCHANGED used => Inv'
             /\ Fault("write") /\ host' \in {host, [host EXCEPT !.map = NoEntry]}
                /\ Stop("blocked") => Inv'
  <2> DEFINE e == Entry(q, provider)
  <2>1. e \in Entries
        /\ (e.endpoint \in LustreEndpoints => "lustre" \in host.packages /\ host.lnet)
    BY <1>0, <1>2, MountableEntry DEF Entry
  <2>2. ASSUME hook' = [pc |-> "commit", flag |-> "true"], status' = "active",
               UNCHANGED <<host, used>>
        PROVE  Inv'
    <3>1. TypeOK'
      BY <1>0, <2>2 DEF TypeOK, world, Hook
    <3>2. LustreNeedsLnet'
      BY <1>0, <2>2 DEF LustreNeedsLnet
    <3> QED
      BY <2>2, <3>1, <3>2 DEF SetUpBeforeMount
  <2>3. ASSUME host' = [host EXCEPT !.map = e], Goto("reload"), status' = "active",
               UNCHANGED used
        PROVE  Inv'
    <3>1. Grows(host, host') /\ host'.map = e
          /\ \A l \in BOOLEAN : IsSetup(host, l) => IsSetup(host', l)
      BY <1>0, <2>1, <2>3, HostSteps
    <3>2. TypeOK'
      BY <1>0, <2>3, <3>1, GotoType DEF TypeOK, world, Grows
    <3>3. LustreNeedsLnet'
      BY <1>0, <2>1, <3>1 DEF LustreNeedsLnet, Grows
    <3>4. SetUpBeforeMount'
      BY <1>0, <3>1 DEF SetUpBeforeMount, world
    <3> QED
      BY <3>2, <3>3, <3>4
  <2>4. ASSUME Fault("write"), host' \in {host, [host EXCEPT !.map = NoEntry]},
               Stop("blocked")
        PROVE  Inv'
    <3>1. Grows(host, host') /\ host'.map \in {host.map, NoEntry}
      BY <1>0, <2>4, HostSteps
    <3>2. hook' \in Hook /\ hook'.pc = "commit" /\ status' = "blocked"
      BY <2>4, GotoType DEF Stop
    <3>3. TypeOK'
      BY <1>0, <2>4, <3>1, <3>2, FaultType DEF TypeOK, world, Grows
    <3>4. LustreNeedsLnet'
      BY <1>0, <3>1, KeepsLustreNeedsLnet
    <3> QED
      BY <3>2, <3>3, <3>4 DEF SetUpBeforeMount
  <2> QED
    BY <2>2, <2>3, <2>4
<1> QED
  BY <1>1, <1>2 DEF Mount

LEMMA ReloadInv == Inv /\ Reload => Inv'
<1> SUFFICES ASSUME Inv, Reload PROVE Inv'
  OBVIOUS
<1> USE DEF Inv
<1>1. UNCHANGED <<world, host, mounted>> /\ host \in Host
      /\ served' \in {host.map, served, NoEntry}
  BY LoadedEntry DEF Reload, TypeOK
<1>2. hook' \in Hook /\ hook'.pc = "commit" /\ status' \in {status, "blocked"}
  BY GotoType DEF Reload, Stop, Hook
<1>3. used' \in [faults : Nat, crashes : Nat, reboots : Nat, changes : Nat]
  BY FaultType DEF Reload, TypeOK
<1>4. TypeOK'
  BY <1>1, <1>2, <1>3, NoEntryFacts DEF TypeOK, world, Host
<1>5. LustreNeedsLnet'
  BY <1>1, HostSteps, KeepsLustreNeedsLnet
<1> QED
  BY <1>2, <1>4, <1>5 DEF SetUpBeforeMount

LEMMA CommitInv == Inv /\ Commit => Inv'
<1> SUFFICES ASSUME Inv, Commit PROVE Inv'
  OBVIOUS
<1> USE DEF Inv
<1>1. UNCHANGED <<world, host, served, status, used>>
  BY DEF Commit
<1>2. hook' \in Hook /\ hook'.pc = "idle"
  BY GotoType DEF Commit
<1>3. mounted' \in [Relations -> {"unset", "false", "true"}]
  BY DEF Commit, TypeOK, Hook
<1>4. TypeOK'
  BY <1>1, <1>2, <1>3 DEF TypeOK, world
<1>5. LustreNeedsLnet'
  BY <1>1 DEF LustreNeedsLnet
<1> QED
  BY <1>2, <1>4, <1>5 DEF SetUpBeforeMount

-----------------------------------------------------------------------------
(* What a killed hook leaves behind. *)
LEMMA KilledHostsGrow ==
    ASSUME TypeOK, NEW h \in KilledHosts
    PROVE  Grows(host, h) /\ h.map \in {host.map, NoEntry}
<1>0. host \in Host /\ config.lustre \in BOOLEAN
  BY DEF TypeOK, Config
<1>1. \/ h = host \/ h = Prepared(host, config.lustre)
      \/ \E c \in Commands : h \in LeftBy(c, host, config.lustre)
      \/ h = [host EXCEPT !.map = NoEntry]
  BY DEF KilledHosts
<1>2. CASE h = host
  BY <1>0, <1>2, HostSteps
<1>3. CASE h = Prepared(host, config.lustre)
  BY <1>0, <1>3, PreparedIsSetup
<1>4. CASE \E c \in Commands : h \in LeftBy(c, host, config.lustre)
  BY <1>0, <1>4, LeftByGrows
<1>5. CASE h = [host EXCEPT !.map = NoEntry]
  BY <1>0, <1>5, HostSteps
<1> QED
  BY <1>1, <1>2, <1>3, <1>4, <1>5

LEMMA CrashInv == Inv /\ Crash => Inv'
<1> SUFFICES ASSUME Inv, Crash PROVE Inv'
  OBVIOUS
<1> USE DEF Inv
<1>1. Grows(host, host') /\ host'.map \in {host.map, NoEntry}
  BY KilledHostsGrow DEF Crash
<1>2. hook' \in Hook /\ hook'.pc = "failed" /\ UNCHANGED <<world, served, mounted, status>>
  BY GotoType DEF Crash
<1>3. used' \in [faults : Nat, crashes : Nat, reboots : Nat, changes : Nat]
  BY DEF Crash, TypeOK
<1>4. TypeOK'
  BY <1>1, <1>2, <1>3 DEF TypeOK, world, Grows
<1>5. LustreNeedsLnet'
  BY <1>1, <1>2, KeepsLustreNeedsLnet
<1> QED
  BY <1>2, <1>4, <1>5 DEF SetUpBeforeMount

LEMMA RebootInv == Inv /\ Reboot => Inv'
<1> SUFFICES ASSUME Inv, Reboot PROVE Inv'
  OBVIOUS
<1> USE DEF Inv
<1>1. host \in Host /\ served' \in Entries \cup {NoEntry}
      /\ served' \in {host.map, NoEntry}
      /\ UNCHANGED <<world, host, mounted, status, hook>>
  BY LoadedEntry DEF Reboot, TypeOK
<1>2. used' \in [faults : Nat, crashes : Nat, reboots : Nat, changes : Nat]
  BY DEF Reboot, TypeOK
<1>3. TypeOK'
  BY <1>1, <1>2 DEF TypeOK, world
<1>4. LustreNeedsLnet'
  BY <1>1, HostSteps, KeepsLustreNeedsLnet
<1> QED
  BY <1>1, <1>3, <1>4 DEF SetUpBeforeMount, world

(* The operator and the other charms do not touch the machine; they change the
   configuration only between two hooks. *)
LEMMA OthersInv ==
    ASSUME Inv, Configure \/ UmountFilesystem
                \/ (\E r \in Relations : Relate(r) \/ \E q \in Requests : SetMountInfo(r, q))
                \/ (\E e \in Endpoints : SetEndpoint(e))
    PROVE  Inv'
<1> USE DEF Inv
<1>1. UNCHANGED <<supported, host, served, status, hook>>
      /\ (hook.pc \in {"mount", "reload"} => UNCHANGED config) /\ Change
  BY DEF Configure, UmountFilesystem, Relate, SetMountInfo, SetEndpoint, Resting
<1>2. config' \in Config /\ provider' \in Endpoints \cup {NoEndpoint}
  BY DEF Configure, UmountFilesystem, Relate, SetMountInfo, SetEndpoint, TypeOK
<1>3. mount' \in [Relations -> Requests \cup {NoRequest, Unrelated}]
      /\ mounted' \in [Relations -> {"unset", "false", "true"}]
  BY DEF Configure, UmountFilesystem, Relate, SetMountInfo, SetEndpoint, TypeOK
<1>4. TypeOK'
  BY <1>1, <1>2, <1>3, ChangeType DEF TypeOK
<1>5. LustreNeedsLnet'
  BY <1>1 DEF LustreNeedsLnet
<1>6. SetUpBeforeMount'
  BY <1>1 DEF SetUpBeforeMount
<1> QED
  BY <1>4, <1>5, <1>6

LEMMA StutterInv == Inv /\ UNCHANGED vars => Inv'
BY DEF Inv, TypeOK, LustreNeedsLnet, SetUpBeforeMount, vars, world

-----------------------------------------------------------------------------
LEMMA StepInv == Inv /\ [Next]_vars => Inv'
<1> SUFFICES ASSUME Inv, [Next]_vars PROVE Inv'
  OBVIOUS
<1>1. CASE HandleEvent
  BY <1>1, HandleEventInv
<1>2. CASE HookStep
  BY <1>2, SetupInv, MountInv, ReloadInv, CommitInv DEF HookStep
<1>3. CASE Environment
  BY <1>3, CrashInv, RebootInv, OthersInv DEF Environment
<1>4. CASE UNCHANGED vars
  BY <1>4, StutterInv
<1> QED
  BY <1>1, <1>2, <1>3, <1>4 DEF Next

(* Every variable keeps its type, whatever fails, crashes or changes. *)
THEOREM TypeCorrect == Spec => []TypeOK
<1>1. Inv => TypeOK
  BY DEF Inv
<1> QED
  BY InitInv, StepInv, <1>1, PTL DEF Spec

(* A Lustre filesystem is neither in the map nor served on a machine without the
   Lustre packages and an LNet configuration, whatever set-up failed or was killed
   half way and however often Lustre is enabled and disabled (manager.py:146-188). *)
THEOREM LustreAfterLnet == Spec => []LustreNeedsLnet
<1>1. Inv => LustreNeedsLnet
  BY DEF Inv
<1> QED
  BY InitInv, StepInv, <1>1, PTL DEF Spec

-----------------------------------------------------------------------------
(* A step that writes the map writes a mount, unless the write fails or is killed. *)
LEMMA MapStep ==
    ASSUME Inv, [Next]_vars, "write" \notin Faults, MaxCrashes = 0
    PROVE  host'.map = host.map \/ host'.map \in Entries
<1>0. host \in Host /\ config.lustre \in BOOLEAN
  BY DEF Inv, TypeOK, Config
<1>1. CASE Setup
  <2>1. CASE host' = IF IsSetup(host, config.lustre) THEN host
                     ELSE Prepared(host, config.lustre)
    BY <1>0, <2>1, PreparedIsSetup
  <2>2. CASE \E c \in Commands : \E h \in SetupFailures(c) : host' = h
    <3>1. PICK c \in Commands : host' = host \/ host' \in LeftBy(c, host, config.lustre)
      BY <2>2 DEF SetupFailures
    <3> QED
      BY <1>0, <3>1, LeftByGrows
  <2> QED
    BY <1>1, <2>1, <2>2 DEF Setup
<1>2. CASE Mount
  <2>1. CASE host' = host
    BY <2>1
  <2>2. CASE /\ ~CannotMount /\ ~Waits
             /\ \E q \in Requests \cup {NoRequest} :
                  Asked(q) /\ host' = [host EXCEPT !.map = Entry(q, provider)]
    <3>1. hook.pc = "mount"
      BY <1>2 DEF Mount
    <3>2. PICK q \in Requests \cup {NoRequest} :
                Asked(q) /\ host' = [host EXCEPT !.map = Entry(q, provider)]
      BY <2>2
    <3>3. Entry(q, provider) \in Entries
      BY <2>2, <3>1, <3>2, MountableEntry
    <3> QED
      BY <1>0, <3>2, <3>3, HostSteps
  <2> QED
    BY <1>2, <2>1, <2>2 DEF Mount, Fault
<1>3. ~Crash
  BY DEF Crash, Inv, TypeOK
<1>4. CASE HandleEvent \/ Reload \/ Commit
  BY <1>4 DEF HandleEvent, Reload, Commit
<1>5. CASE Environment
  BY <1>3, <1>5 DEF Environment, Reboot, Configure, UmountFilesystem, Relate,
                    SetMountInfo, SetEndpoint
<1>6. CASE UNCHANGED vars
  BY <1>6 DEF vars
<1> QED
  BY <1>1, <1>2, <1>4, <1>5, <1>6 DEF Next, HookStep

(* Errors do not unmount: once the map has a mount, no step that comes without an
   umount request leaves it without one, unless a write of the map fails or a hook is
   killed in it, which may truncate the file (manager.py:209-211, 173-176). *)
THEOREM ErrorsKeepMounts ==
    ASSUME "write" \notin Faults, MaxCrashes = 0
    PROVE  Spec => KeepsMounts
<1>1. NoEntry \notin Entries
  BY EndpointsAssumption DEF NoEntry, Entry, Entries
<1>2. Inv /\ [Next]_vars =>
        [~UmountRequested /\ host.map # NoEntry => host'.map # NoEntry]_vars
  BY <1>1, MapStep
<1> QED
  BY <1>2, InitInv, StepInv, PTL DEF Spec, KeepsMounts

-----------------------------------------------------------------------------
(* Why the flag is true, if neither writes nor reloads fail and no hook is killed:
   the file autofs reads names a map as soon as there is one, and the map is always
   the one that is served, but between its write and the reload. *)

FilesComplete(h) ==
    /\ h.mapExists => h.master = "written"
    /\ h.map # NoEntry => h.mapExists
Says(r) == mounted[r] = "true"
Promises == hook.flag = "true" \/ hook.pc = "reload" \/ \E r \in Relations : Says(r)

Consistent ==
    /\ FilesComplete(host)
    /\ hook.pc # "reload" => served = host.map
    /\ Promises => host.map # NoEntry

LEMMA SetupCompletes ==
    ASSUME NEW h \in Host, NEW lustre \in BOOLEAN, FilesComplete(h)
    PROVE  /\ FilesComplete(Prepared(h, lustre))
           /\ \A c \in Commands \ {"write"} : \A i \in LeftBy(c, h, lustre) : FilesComplete(i)
<1> DEFINE w == WriteMaster(Touched(h, lustre))
<1>1. w \in Host /\ FilesComplete(w)
  BY WrittenGrows DEF Grows, FilesComplete
<1>2. FilesComplete(Prepared(h, lustre))
  BY <1>1 DEF Prepared, InitLnet, FilesComplete, Host
<1>3. ASSUME NEW b \in BOOLEAN PROVE FilesComplete(Installed(h, b))
  BY DEF FilesComplete, Installed, Host
<1>4. FilesComplete(TouchMaster(Installed(h, lustre)))
  <2>1. Installed(h, lustre) \in Host /\ FilesComplete(Installed(h, lustre))
    BY <1>3, InstalledGrows DEF Grows
  <2> QED
    BY <2>1 DEF FilesComplete, TouchMaster, Host
<1>5. ASSUME NEW c \in Commands \ {"write"}, NEW i \in LeftBy(c, h, lustre)
      PROVE  FilesComplete(i)
  BY <1>1, <1>3, <1>4, <1>5 DEF LeftBy, Commands
<1> QED
  BY <1>2, <1>5

LEMMA InitConsistent == Init => Consistent
BY DEF Init, Consistent, FilesComplete, Promises, Says

LEMMA SetupConsistent ==
    ASSUME Inv, Consistent, Setup, "write" \notin Faults PROVE Consistent'
<1>0. host \in Host /\ config.lustre \in BOOLEAN /\ hook \in Hook
  BY DEF Inv, TypeOK, Config
<1>1. \/ host' = host \/ host' = Prepared(host, config.lustre)
      \/ \E c \in Commands \ {"write"} : host' \in LeftBy(c, host, config.lustre)
  BY DEF Setup, SetupFailures, Fault
<1>2. FilesComplete(host')
  BY <1>0, <1>1, SetupCompletes DEF Consistent
<1>3. host'.map = host.map
  BY <1>0, <1>1, PreparedIsSetup, LeftByGrows
<1>4. /\ hook.pc = "setup" /\ hook'.pc # "reload" /\ hook'.flag = hook.flag
      /\ UNCHANGED <<served, mounted>>
  BY <1>0 DEF Setup, Goto, Stop, Hook
<1> QED
  BY <1>2, <1>3, <1>4 DEF Consistent, Promises, Says

LEMMA MountConsistent ==
    ASSUME Inv, Consistent, Mount, "write" \notin Faults PROVE Consistent'
<1>0. host \in Host /\ hook \in Hook /\ hook.pc = "mount" /\ UNCHANGED <<served, mounted>>
  BY DEF Inv, TypeOK, Mount
<1>1. ASSUME UNCHANGED host, hook'.pc = "commit", hook'.flag = hook.flag
      PROVE  Consistent'
  BY <1>0, <1>1 DEF Consistent, Promises, Says
<1>2. ASSUME ~CannotMount, ~Waits, NEW q \in Requests \cup {NoRequest}, Asked(q),
             host.map = Entry(q, provider), UNCHANGED host,
             hook' = [pc |-> "commit", flag |-> "true"]
      PROVE  Consistent'
  <2>1. host.map \in Entries /\ NoEntry \notin Entries
    BY <1>0, <1>2, MountableEntry, EndpointsAssumption DEF NoEntry, Entry, Entries
  <2> QED
    BY <1>0, <1>2, <2>1 DEF Consistent, Promises
<1>3. ASSUME ~CannotMount, ~Waits, NEW q \in Requests \cup {NoRequest}, Asked(q),
             host' = [host EXCEPT !.map = Entry(q, provider)], Goto("reload")
      PROVE  Consistent'
  <2>1. Entry(q, provider) \in Entries /\ NoEntry \notin Entries /\ host.mapExists
    BY <1>0, <1>3, MountableEntry, EndpointsAssumption
       DEF NoEntry, Entry, Entries, CannotMount
  <2>2. /\ host'.map = Entry(q, provider) /\ host'.mapExists = host.mapExists
        /\ host'.master = host.master
    BY <1>0, <1>3 DEF Host
  <2>3. hook'.pc = "reload"
    BY <1>0, <1>3 DEF Goto, Hook
  <2> QED
    BY <2>1, <2>2, <2>3 DEF Consistent, FilesComplete
<1>4. CASE \E s \in {"blocked", "waiting"} : Stop(s) /\ UNCHANGED host
  BY <1>0, <1>1, <1>4 DEF Stop, Goto, Hook
<1>5. CASE /\ ~CannotMount /\ ~Waits
           /\ \E q \in Requests \cup {NoRequest} :
                /\ Asked(q)
                /\ \/ /\ host.map = Entry(q, provider) /\ UNCHANGED host
                      /\ hook' = [pc |-> "commit", flag |-> "true"]
                   \/ host' = [host EXCEPT !.map = Entry(q, provider)] /\ Goto("reload")
  BY <1>2, <1>3, <1>5
<1> QED
  BY <1>4, <1>5 DEF Mount, MapChanged, Fault

LEMMA OtherStepsConsistent ==
    ASSUME Inv, Consistent, Faults \cap {"write", "reload"} = {}, MaxCrashes = 0,
           HandleEvent \/ Reload \/ Commit \/ Environment \/ UNCHANGED vars
    PROVE  Consistent'
<1>0. host \in Host /\ hook \in Hook /\ mounted \in [Relations -> {"unset", "false", "true"}]
  BY DEF Inv, TypeOK
<1>1. Loaded(host) = host.map
  BY DEF Consistent, FilesComplete, Loaded
<1>2. CASE HandleEvent
  <2>1. hook.pc # "reload" /\ hook'.pc # "reload" /\ hook'.flag = "false"
        /\ UNCHANGED <<host, served, mounted>>
    BY <1>2 DEF HandleEvent, Resting
  <2> QED
    BY <2>1 DEF Consistent, Promises, Says
<1>3. CASE Reload
  <2>1. /\ hook.pc = "reload" /\ served' = host.map /\ hook'.pc = "commit"
        /\ UNCHANGED <<host, mounted>>
    BY <1>1, <1>3 DEF Reload, Fault
  <2> QED
    BY <2>1 DEF Consistent, Promises
<1>4. CASE Commit
  <2>1. hook.pc = "commit" /\ hook'.pc = "idle" /\ hook'.flag = hook.flag
        /\ UNCHANGED <<host, served>>
    BY <1>0, <1>4 DEF Commit, Goto, Hook
  <2>2. \A r \in Relations : mounted'[r] \in {hook.flag, mounted[r]}
    BY <1>4 DEF Commit
  <2> QED
    BY <2>1, <2>2 DEF Consistent, Promises, Says
<1>5. CASE Reboot
  <2>1. hook.pc # "reload" /\ served' = host.map /\ UNCHANGED <<host, mounted, hook>>
    BY <1>1, <1>5 DEF Reboot, Resting
  <2> QED
    BY <2>1 DEF Consistent, Promises, Says
<1>6. CASE Environment /\ ~Reboot
  <2>1. ~Crash
    BY DEF Crash, Inv, TypeOK
  <2>2. UNCHANGED <<host, served, hook>>
    BY <1>6, <2>1 DEF Environment, Configure, UmountFilesystem, Relate, SetMountInfo, SetEndpoint
  <2>3. \A r \in Relations : mounted'[r] \in {"unset", mounted[r]}
    BY <1>0, <1>6, <2>1
       DEF Environment, Configure, UmountFilesystem, Relate, SetMountInfo, SetEndpoint
  <2> QED
    BY <2>2, <2>3 DEF Consistent, Promises, Says
<1>7. CASE UNCHANGED vars
  BY <1>7 DEF vars, Consistent, Promises, Says
<1> QED
  BY <1>2, <1>3, <1>4, <1>5, <1>6, <1>7

(* The workload is told "mounted" only of what autofs serves, if no write and no
   reload fails and no hook is killed, whatever the set-up runs into, and over
   reboots (manager.py:202-203, charm.py:94). *)
THEOREM FlagIsTrue ==
    ASSUME Faults \cap {"write", "reload"} = {}, MaxCrashes = 0
    PROVE  Spec => []MountedIsServed
<1>1. Inv /\ Consistent /\ [Next]_vars => Consistent'
  BY SetupConsistent, MountConsistent, OtherStepsConsistent DEF Next, HookStep
<1>2. Consistent => MountedIsServed
  BY DEF Consistent, MountedIsServed, Promises, Says
<1> QED
  BY <1>1, <1>2, InitInv, StepInv, InitConsistent, PTL DEF Spec
=============================================================================
