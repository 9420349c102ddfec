\* One producer, one consumer: the contract under which the queue is safe.
SPECIFICATION FairQueueSpec
CONSTANTS
  Producers = {p1}
  Capacity = 4
  Item = {a, b}
  NoItem = NoItem
  Torn = Torn
  MaxItems = 7
INVARIANTS
  NoDataRace
  FifoOrder
  UnreadKept
  VerdictsExact
  SpscInv
PROPERTIES
  ImplementsFifo
  Drained
