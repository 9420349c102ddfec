\* Every capacity: the mask is a modulus, size() is exact.  Replies of either
\* framing, whole or cut short in any line.
SPECIFICATION SequentialSpec
CONSTANTS
  Width = 7
  IntWidth = 6
  Requests <- AllInts
  Body <- ShortBodies
CHECK_DEADLOCK FALSE
INVARIANTS
  MaskIsModulo
  SizeExact
  LastLineBeforeGap
  WhichRepliesAreRead
