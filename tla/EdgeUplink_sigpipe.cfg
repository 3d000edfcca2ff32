SPECIFICATION Spec
CONSTANTS
  Capacity = 2
  FrameUnits = 2
  Transports = {"auto", "tcp", "udp", "mesh"}
  Platforms = {"posix"}
  BackoffCap = 4
  MaxFrames = 3
  MaxFaults = 1
INVARIANT
  StaysUp
CHECK_DEADLOCK FALSE
