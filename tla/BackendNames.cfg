SPECIFICATION ControllerSpec
CONSTANTS
  Models = {"m1", "m2"}
  Targets <- MCTargets
  Configs <- MCConfigs
  Backends = {"b1", "b2"}
  Kinds = {"LLM"}
  KindOf <- LLMs
  NameOf <- OwnName
  ModelsOf <- AnyModel
  MaxEdits = 3
  FailingCalls = {"config", "validator", "finalDelete"}
  MaxErrors = 1
  MaxRestarts = 0
INVARIANTS
  UniqueGlobally
  HealthyIsServed
CHECK_DEADLOCK FALSE
