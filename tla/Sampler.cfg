SPECIFICATION Spec
CONSTANTS
  Threads = {ui, stats}
  MaxFrames = 2
  MaxClock = 2
  MaxShots = 3
INVARIANTS
  CountersCover
  RatedOnce
CHECK_DEADLOCK FALSE
