SPECIFICATION ModelRouteSpec
CONSTANTS
  Models = {"m1", "m2"}
  Targets <- MCTargets
  Configs <- MCConfigs
  RouteObjects = {"r1"}
  RouteNameOf <- Own
  NamespaceOf <- InNs
  RouteSpecs <- MCSpecs
  BackendKeys <- MCBackends
  BackendModelOf <- MCBackendModelOf
  Removable <- MCRemovable
  FailingRouteCalls = {"register", "finalDelete"}
  MaxRouteEdits = 3
  MaxRouteWrites = 2
  MaxRouteFaults = 2
  MaxBackendEvents = 2
  MaxDisturbances = 4
  BaseConfig <- MCBaseConfig
INVARIANTS
  UniqueMatch
  NoOrphanRoute
  HealthyRouteIsCurrent
  BaseRouteComesToLight
PROPERTIES
  RouteDeletionCompletes
  RoutesConverge
CHECK_DEADLOCK FALSE
