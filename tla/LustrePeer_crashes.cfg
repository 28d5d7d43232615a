CONSTANTS
  NoUnit = NoUnit
  m = m
  n = n
  a = a
  Units = {m, a}
  InitUnits = {m, a}
  InitStorage <- Pair
  MaxStorage <- Pair
  Addresses = {1}
  MaxElections = 0
  MaxCrashes = 2
  MaxFaults = 0
  SettledElections = FALSE
SPECIFICATION FairSpec
CHECK_DEADLOCK FALSE
INVARIANTS
  PublishedIsServable
  NoSilentStall
  PromotionUnderWay
PROPERTIES
  NidsPromoted
  EventuallyPublished
  PromotionReachesEveryOss
