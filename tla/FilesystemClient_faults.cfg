CONSTANTS
  NoRequest = NoRequest
  Unrelated = Unrelated
  NoEndpoint = NoEndpoint
  q1 = q1
  q2 = q2
  nfs = nfs
  lustre = lustre
  r1 = r1
  r2 = r2
  Requests = {q1, q2}
  Endpoints = {nfs, lustre}
  LustreEndpoints = {lustre}
  Relations = {r1}
  Faults = {"packages", "touch", "write", "lnet", "reload"}
  MaxFaults = 2
  MaxCrashes = 2
  MaxReboots = 1
  MaxChanges = 4
SPECIFICATION Spec
INVARIANTS
  LustreNeedsLnet
