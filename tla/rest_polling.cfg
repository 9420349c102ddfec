\* Requests of any duration and with any outcome.
SPECIFICATION FairRestSpec
CONSTANTS
  MaxPolls = 3
CHECK_DEADLOCK FALSE
INVARIANTS
  TimelyOwnStream
  TimelyAnswersInOrder
  AnswersOnce
  RestInv
PROPERTIES
  PollingGoesOn
