SPECIFICATION Spec
CONSTANTS
  DrainMax = 2
  Units = 2
  MaxFrames = 2
  MaxFaults = 0
INVARIANT
  HeaderFinal
CHECK_DEADLOCK FALSE
