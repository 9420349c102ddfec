\* Only onOrderBookWS is bound, and may throw; other messages come too.
SPECIFICATION FairConsumerSpec
CONSTANTS
  Item <- Message
  Limit = 3
  Bound = {"WebSocket"}
  MayThrow = TRUE
  MaxItems = 4
CHECK_DEADLOCK FALSE
INVARIANTS
  OnePoll
  CallbacksFollowCache
PROPERTIES
  EveryMessageCalled
  ImplementsDelivery
