CONSTANTS
  NoUnit = NoUnit
  m = m
  n = n
  a = a
  Units = {m, a}
  InitUnits = {m, a}
  InitStorage <- Pair
  MaxStorage <- Pair
  Addresses = {1}
  MaxElections = 1
  MaxCrashes = 0
  MaxFaults = 0
  SettledElections = TRUE
SPECIFICATION FairSpec
CHECK_DEADLOCK FALSE
PROPERTIES
  NidsPromoted
