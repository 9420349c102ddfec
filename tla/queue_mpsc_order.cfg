\* Two producers: two enqueues lose or repeat items.
SPECIFICATION QueueSpec
CONSTANTS
  Producers = {p1, p2}
  Capacity = 4
  Item = {a, b}
  NoItem = NoItem
  Torn = Torn
  MaxItems = 4
SYMMETRY ItemSymmetry
INVARIANTS
  FifoOrder
