------------------------ MODULE MountRelation_proofs ------------------------
(* What a workload of filesystem-client hears is true of the machine: for any number
   of relations, requests, endpoints, reboots and changes. *)
EXTENDS MountRelation, FilesystemClient_proofs

LEMMA EmittedType ==
    ASSUME NEW r \in Relations
    PROVE  Emitted(r) \in {"mounted", "unmounted", heard[r]}
           /\ (Emitted(r) = "mounted" => heard[r] = "mounted" \/ Says(r))
BY DEF Emitted, Says

(* The workloads add nothing to what the unit of the client does: every step is
   one of the client's or leaves all of its state alone. *)
LEMMA ClientSteps == [MountNext]_allVars => [Next]_vars
<1> SUFFICES ASSUME [MountNext]_allVars PROVE [Next]_vars
  OBVIOUS
<1>1. CASE Elsewhere
  BY <1>1 DEF Elsewhere, Next, HookStep, Environment
<1>2. CASE CommitAndNotify
  BY <1>2 DEF CommitAndNotify, Next, HookStep
<1>3. CASE OnConfigChanged
  BY <1>3 DEF OnConfigChanged, Next, Environment
<1>4. CASE \E r \in Relations : OnRelationChanged(r) \/ RelateWorkload(r)
  BY <1>4 DEF OnRelationChanged, RelateWorkload, Next, Environment
<1>5. CASE UNCHANGED allVars
  BY <1>5 DEF allVars
<1> QED
  BY <1>1, <1>2, <1>3, <1>4, <1>5 DEF MountNext

-----------------------------------------------------------------------------
(* What a workload has heard of a mount stays true: the map that had an entry then
   has one ever since. *)

RelationTypeOK ==
    /\ notices \in SUBSET Relations
    /\ heard \in [Relations -> {"nothing", "mounted", "unmounted"}]

HeardInv ==
    /\ RelationTypeOK
    /\ \A r \in Relations : heard[r] = "mounted" => host.map # NoEntry

LEMMA HeardStep ==
    ASSUME Inv, Consistent, HeardInv, [MountNext]_allVars,
           "write" \notin Faults, MaxCrashes = 0
    PROVE  HeardInv'
<1>0. RelationTypeOK
  BY DEF HeardInv
<1>1. host.map # NoEntry => host'.map # NoEntry
  <2>1. NoEntry \notin Entries
    BY EndpointsAssumption DEF NoEntry, Entry, Entries
  <2> QED
    BY <2>1, ClientSteps, MapStep
<1>2. CASE UNCHANGED heard /\ notices' \in SUBSET Relations
  BY <1>0, <1>1, <1>2 DEF HeardInv, RelationTypeOK
<1>3. CASE \E r \in Relations : OnRelationChanged(r)
  <2>1. PICK r \in Relations : OnRelationChanged(r)
    BY <1>3
  <2>2. heard' = [heard EXCEPT ![r] = Emitted(r)] /\ notices' \in SUBSET Relations
        /\ UNCHANGED host
    BY <1>0, <2>1 DEF OnRelationChanged, RelationTypeOK, vars
  <2>3. RelationTypeOK'
    BY <1>0, <2>2, EmittedType DEF RelationTypeOK
  <2>4. Emitted(r) = "mounted" => host.map # NoEntry
    BY EmittedType DEF HeardInv, Consistent, Promises
  <2> QED
    BY <1>0, <2>2, <2>3, <2>4 DEF HeardInv, RelationTypeOK
<1>4. CASE \E r \in Relations : RelateWorkload(r)
  <2>1. PICK r \in Relations : RelateWorkload(r)
    BY <1>4
  <2>2. heard' = [heard EXCEPT ![r] = "nothing"] /\ notices' \in SUBSET Relations
    BY <1>0, <2>1 DEF RelateWorkload, RelationTypeOK
  <2> QED
    BY <1>0, <1>1, <2>2 DEF HeardInv, RelationTypeOK
<1>5. CASE Elsewhere \/ CommitAndNotify \/ OnConfigChanged \/ UNCHANGED allVars
  <2>1. UNCHANGED heard /\ notices' \in {notices, notices \cup Told}
    BY <1>5 DEF Elsewhere, CommitAndNotify, OnConfigChanged, allVars, relationVars
  <2>2. Told \subseteq Relations
    BY DEF Told, Related
  <2> QED
    BY <1>0, <1>2, <2>1, <2>2 DEF RelationTypeOK
<1> QED
  BY <1>3, <1>4, <1>5 DEF MountNext

(* If no write and no reload fails and no hook is killed, a workload that heard
   "mounted" last has the filesystem between two hooks of the client: the event
   may be late, but never outlives the mount, over failed set-ups, reboots and
   relations that come and go (mount_info.py:186-231, charm.py:50-96). *)
THEOREM WorkloadsHearTheTruth ==
    ASSUME Faults \cap {"write", "reload"} = {}, MaxCrashes = 0
    PROVE  MountSpec => []HeardIsServed
<1> DEFINE IInv == Inv /\ Consistent /\ HeardInv
<1>1. MountInit => IInv
  <2> SUFFICES ASSUME MountInit PROVE HeardInv
    BY InitInv, InitConsistent DEF MountInit
  <2> QED
    BY DEF MountInit, HeardInv, RelationTypeOK
<1>2. IInv /\ [MountNext]_allVars => IInv'
  <2> SUFFICES ASSUME IInv, [MountNext]_allVars PROVE Consistent' /\ HeardInv'
    BY ClientSteps, StepInv
  <2>1. [Next]_vars
    BY ClientSteps
  <2>2. Consistent'
    BY <2>1, SetupConsistent, MountConsistent, OtherStepsConsistent DEF Next, HookStep
  <2> QED
    BY <2>2, HeardStep
<1>3. IInv => HeardIsServed
  BY DEF HeardInv, Consistent, HeardIsServed
<1> QED
  BY <1>1, <1>2, <1>3, PTL DEF MountSpec
=============================================================================
