CONSTANTS
  NoRequest = NoRequest
  Unrelated = Unrelated
  NoEndpoint = NoEndpoint
  q1 = q1
  q2 = q2
  nfs = nfs
  lustre = lustre
  r1 = r1
  r2 = r2
  Requests = {q1, q2}
  Endpoints = {nfs, lustre}
  LustreEndpoints = {lustre}
  Relations = {r1}
  Faults = {"reload"}
  MaxFaults = 1
  MaxCrashes = 0
  MaxReboots = 0
  MaxChanges = 3
SPECIFICATION Spec
INVARIANTS
  MountedIsServed
