CONSTANTS
  eth0 = eth0
  eth1 = eth1
  ib0 = ib0
  ib1 = ib1
  typo = typo
  mlx = mlx
  roce = roce
  NoInterface = NoInterface
  NoConf = NoConf
  Interfaces = {eth0, eth1, ib0, ib1, typo}
  Present = {eth0, eth1, ib0, ib1}
  RdmaDevices = {mlx, roce}
  Networks <- KernelNetworks
  Specs <- SomeSpecs
  Machines <- SomeMachines
  Roles = {"server", "client"}
  MaxFaults = 2
  MaxCrashes = 1
  MaxReboots = 1
  MaxChanges = 2
SPECIFICATION FairSpec
CHECK_DEADLOCK FALSE
INVARIANTS
  TypeOK
  SavedIsInUse
PROPERTIES
  SavesWhatWasAsked
  KeepsAnInterface
  EventuallyConfigured
