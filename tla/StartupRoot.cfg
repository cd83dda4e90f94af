SPECIFICATION Spec
CONSTANTS
  Configs <- RootConfigs
  Targets <- SmallTargets
  HandlerTypes <- KnownTypes
  NoHandler = none
  Environments <- GoodEnvironment
  Garbage <- SomeShorts
  Ephemeral <- SomeEphemeral
INVARIANTS
  LocationsAreCalledOn
CHECK_DEADLOCK FALSE
