CONSTANTS
  NoRequest = NoRequest
  Unrelated = Unrelated
  NoEndpoint = NoEndpoint
  q1 = q1
  q2 = q2
  nfs = nfs
  lustre = lustre
  r1 = r1
  r2 = r2
  Requests = {q1, q2}
  Endpoints = {nfs, lustre}
  LustreEndpoints = {lustre}
  Relations = {r1, r2}
  Faults = {"packages", "touch", "lnet"}
  MaxFaults = 2
  MaxCrashes = 0
  MaxReboots = 1
  MaxChanges = 4
SPECIFICATION FairMountSpec
INVARIANTS
  TypeOK
  MountedIsServed
  HeardIsServed
PROPERTIES
  KeepsMounts
  Converges
  WorkloadLearns
