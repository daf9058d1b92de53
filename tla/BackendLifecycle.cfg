SPECIFICATION FairControllerSpec
CONSTANTS
  Models = {"m1", "m2"}
  Targets <- MCTargets
  Configs <- MCConfigs
  Backends = {"b1"}
  Kinds = {"LLM"}
  KindOf <- LLMs
  NameOf <- OwnName
  ModelsOf <- AnyModel
  MaxEdits = 3
  FailingCalls = {"register", "finalDelete", "status"}
  MaxErrors = 2
  MaxRestarts = 1
INVARIANTS
  NoOrphanCluster
  HealthyIsServed
PROPERTIES
  DeletionCompletes
  Converges
CHECK_DEADLOCK FALSE
