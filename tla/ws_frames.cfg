\* A connection that may fail at any time, and frames that may lack a "U".
SPECIFICATION FairWsSpec
CONSTANTS
  Frame = {f1, f2}
  Unnumbered = {f2}
  MaxFrames = 4
CHECK_DEADLOCK FALSE
INVARIANTS
  WsInv
  OneOperation
  OneDataPending
  FramesInOrder
PROPERTIES
  EveryFrameHandled
