\* What queue.h says that the constructor ensures; it accepts capacity 0.
SPECIFICATION RingSpec
CONSTANTS
  Width = 7
  IntWidth = 6
  Requests <- AllInts
CHECK_DEADLOCK FALSE
INVARIANTS
  CapacityEnsured
