CONSTANTS
  u1 = u1
  u2 = u2
  c1 = c1
  c2 = c2
  key1 = key1
  key2 = key2
  NoInfo = NoInfo
  NoUri = NoUri
  NoKey = NoKey
  Unrelated = Unrelated
  Denied = Denied
  ConfigChanged = ConfigChanged
  Units = {u1, u2}
  Clients = {c1, c2}
  Proxies <- SomeProxies
  SettledElections = TRUE
  MaxElections = 1
  MaxCrashes = 1
  MaxChanges = 1
  MaxRelations = 2
SPECIFICATION FairSpec
CHECK_DEADLOCK FALSE
INVARIANTS
  TypeOK
PROPERTIES
  Publishes
  FollowsConfig
