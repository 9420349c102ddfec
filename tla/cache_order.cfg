\* One instrument, two WebSocket replicas and REST: what the gate guarantees.
SPECIFICATION FairCacheSpec
CONSTANTS
  Producers = {btcusdt}
  Capacity = 2
  Item <- Message
  NoItem = NoItem
  Torn = Torn
  MaxItems = 3
  Replicas = {r1, r2}
  UpdateIds = {1, 2, 3}
  UninitialisedU = {0, 2}
  MayBeMalformed = TRUE
CHECK_DEADLOCK FALSE
INVARIANTS
  DeliveredInOrder
  RefusedForCause
  OneInstrumentInv
PROPERTIES
  NeverForgets
  NewestDelivered
