SPECIFICATION Spec
CONSTANTS
  w1 = w1
  w2 = w2
  w3 = w3
  Workers <- TwoWorkers
  Uris <- Pages
  StatusUri = "/status"
  Codes = {200, 404}
  MaxRequests = 3
INVARIANTS
  TotalCountsAnswered
CHECK_DEADLOCK FALSE
