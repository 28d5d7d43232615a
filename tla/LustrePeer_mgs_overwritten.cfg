CONSTANTS
  NoUnit = NoUnit
  m = m
  n = n
  a = a
  Units = {m, n, a}
  InitUnits = {m, n, a}
  InitStorage <- TwoMgs
  MaxStorage <- TwoMgs
  Addresses = {1}
  MaxElections = 1
  MaxCrashes = 0
  MaxFaults = 0
  SettledElections = FALSE
SPECIFICATION Spec
CHECK_DEADLOCK FALSE
PROPERTIES
  MgsStable
