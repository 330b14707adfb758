SPECIFICATION Spec
CONSTANTS
  pa = pa
  va = va
  vb = vb
  Plugins = {pa}
  Versions = {va, vb}
  MaxTasks = 3
  MaxInFlight = 2
  Capacity = 4
  Configs <- EveryConfig
  FirstConfigs <- WithPlugin
  MaxUpdates = 1
  MaxLoads = 1
INVARIANTS
  NoClientIsLost
  StartIsExclusive
  RegistryFollowsGateway
  ShutdownClosesAutostarted
SYMMETRY VersionSymmetry
CHECK_DEADLOCK FALSE
