SPECIFICATION FairSpec
CONSTANTS
  Configs <- DocumentedConfigs
  Targets <- RootOnly
  HandlerTypes <- KnownTypes
  NoHandler = none
  Environments <- GoodEnvironment
  Garbage <- SomeShorts
  Ephemeral <- SomeEphemeral
PROPERTIES
  DocumentedConfigIsServed
CHECK_DEADLOCK FALSE
