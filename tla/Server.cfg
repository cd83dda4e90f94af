SPECIFICATION FairSpec
CONSTANTS
  s1 = s1
  s2 = s2
  s3 = s3
  Sessions <- ThreeSessions
  Version = "https"
  Stalling <- Proxied
  SureThreads = 2
  Sends <- Roles
  Resetting <- Others
  Main = main
  NoCall = none
INVARIANTS
  TypeOK
  NoDanglingSession
  SingleActivity
  AcceptorNeverLost
  NoStarvation
  NoAbandonedConnection
PROPERTIES
  ImplementsExchange
  AcceptedIsStarted
  RequestIsAnswered
CHECK_DEADLOCK FALSE
