SPECIFICATION Spec
CONSTANTS
  w1 = w1
  w2 = w2
  w3 = w3
  Workers <- ThreeWorkers
  Uris <- Pages
  StatusUri = "/status"
  Codes = {200, 404}
  MaxRequests = 3
INVARIANTS
  TypeOK
  NeverOvercounts
  PageIsExact
SYMMETRY AnyWorker
CHECK_DEADLOCK FALSE
