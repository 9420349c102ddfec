\* Two instruments share U_: the ids of one refuse the updates of the other.
SPECIFICATION CacheSpec
CONSTANTS
  Producers = {btcusdt, ethusdt}
  Capacity = 4
  Item <- Message
  NoItem = NoItem
  Torn = Torn
  MaxItems = 2
  Replicas = {r1}
  UpdateIds = {1, 2}
  UninitialisedU = {0}
  MayBeMalformed = FALSE
INVARIANTS
  OnlyDuplicatesRefused
