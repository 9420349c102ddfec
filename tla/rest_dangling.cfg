\* A request outlasts the polling period.
SPECIFICATION RestSpec
CONSTANTS
  MaxPolls = 2
CHECK_DEADLOCK FALSE
INVARIANTS
  NoDanglingOperation
