\* A program that loads, sets up, runs, and perhaps destroys the client.
SPECIFICATION FairClientSpec
CONSTANTS
  Item <- OrderBooks
  Limit = 2
  Bound = {"WebSocket", "RestApi"}
  MayThrow = TRUE
  MaxItems = 3
  Number <- Numbers
  Uninitialised <- Memory
  MaxLines = 2
  MaxSubscriptions = 2
  Catches = TRUE
CHECK_DEADLOCK FALSE
INVARIANTS
  ClientInv
  CreatedAsConfigured
  ServedWhileLive
  JoinsStoppedThreads
  DestructorDefined
PROPERTIES
  DestructorEnds
  RunDelivers
