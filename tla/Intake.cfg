SPECIFICATION FairSpec
CONSTANTS
  Units = 2
  Edges = {edge}
  EdgeFrames = 2
  SockUnits = 2
  SockDgrams = 1
  MaxSource = 2
  MaxFaults = 2
INVARIANTS
  AcceptedIsCounted
  RecaptureExact
  WholeStreamsNeedNoResync
  ConnectionsKeepTheirFrames
PROPERTY ReplayEnds
CHECK_DEADLOCK FALSE
