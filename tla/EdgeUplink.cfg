SPECIFICATION FairSpec
CONSTANTS
  Capacity = 3
  FrameUnits = 2
  Transports = {"auto", "tcp", "udp", "mesh"}
  Platforms = {"posix", "windows"}
  BackoffCap = 4
  MaxFrames = 4
  MaxFaults = 2
INVARIANTS
  TypeOK
  Conservation
  NoDoubleSend
  AutoStreamsClean
  TornAtMostOncePerFault
  OkCountsSent
PROPERTY
  RetainedBatchDrains
CHECK_DEADLOCK FALSE
