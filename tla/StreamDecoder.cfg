SPECIFICATION FairSpec
CONSTANTS
  FrameUnits = 3
  FrameCount = 3
  MaxLookalikes = 1
INVARIANTS
  WholeFramesDecoded
  CarriesLessThanAFrame
  BytesAccounted
PROPERTY
  LoopEnds
CHECK_DEADLOCK FALSE
