SPECIFICATION Spec
CONSTANTS
  DrainMax = 2
  Units = 2
  MaxFrames = 4
  MaxFaults = 2
INVARIANTS
  TypeOK
  NeverOverclaims
  ReadsWhatWasCounted
  TearsAreNoticed
  CloseCountsAll
  FewLost
CHECK_DEADLOCK FALSE
