\* Two instruments share U_: check-then-act lets a duplicate through.
SPECIFICATION CacheSpec
CONSTANTS
  Producers = {btcusdt, ethusdt}
  Capacity = 4
  Item <- Message
  NoItem = NoItem
  Torn = Torn
  MaxItems = 3
  Replicas = {r1, r2}
  UpdateIds = {1, 2}
  UninitialisedU = {0}
  MayBeMalformed = FALSE
SYMMETRY ReplicaSymmetry
INVARIANTS
  AcceptedOnce
