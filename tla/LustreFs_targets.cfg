CONSTANTS
  Devices = {d1, d2, d3, d4}
  Labels = {n1, n2}
  None = None
  Kinds = {"mgt-mdt", "ost"}
  MaxFaults = 1
  MaxCrashes = 2
  MaxReboots = 2
SPECIFICATION FairSpec
CHECK_DEADLOCK FALSE
INVARIANTS
  TypeOK
PROPERTIES
  ImplementsTarget
  ComesUp
