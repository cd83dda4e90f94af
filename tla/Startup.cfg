SPECIFICATION FairSpec
CONSTANTS
  Configs <- SmallConfigs
  Targets <- SmallTargets
  HandlerTypes <- KnownTypes
  NoHandler = none
  Environments <- SomeEnvironments
  Garbage <- SomeShorts
  Ephemeral <- SomeEphemeral
INVARIANTS
  TypeOK
  HandlersMatchConfig
  LongestPrefixWins
  NameMatchesHandler
  SlashTargetsAreHandled
  PortsAreHonoured
  KeysAreThoseNamed
PROPERTIES
  SoundConfigIsServed
  DispatcherSpec
CHECK_DEADLOCK FALSE
