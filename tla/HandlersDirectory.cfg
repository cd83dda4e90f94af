SPECIFICATION Spec
CONSTANTS
  Locations <- SomeLocations
  Targets <- SomeTargets
  Methods = {"GET", "POST"}
  FilePaths <- SomeFiles
  Contents = {"c1", "c2"}
  Pieces = 2
  Urls <- SomeUrls
  Redirections = 3
  Stack = 4
INVARIANTS
  EveryRequestIsAnswered
CHECK_DEADLOCK FALSE
