SPECIFICATION FairSpec
CONSTANTS
  Cap = 2
  MaxOffers = 6
INVARIANTS
  TypeOK
  AtMostOnce
  TailBehindHead
  ExactUnlessRaced
  FifoUntilFull
PROPERTIES
  FrameLeaves
  ImplementsLossyChannel
