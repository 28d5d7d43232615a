CONSTANTS
  NoUnit = NoUnit
  m = m
  n = n
  a = a
  Units = {m, a}
  InitUnits = {m, a}
  InitStorage <- Pair
  MaxStorage <- Anything
  Addresses = {1}
  MaxElections = 0
  MaxCrashes = 0
  MaxFaults = 2
  SettledElections = FALSE
SPECIFICATION Spec
CHECK_DEADLOCK FALSE
INVARIANTS
  NoSilentStall
  OssOffMgsUnit
  ReadyIsProvisioned
  PromotedMgsExists
