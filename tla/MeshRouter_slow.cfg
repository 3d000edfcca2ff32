SPECIFICATION FairSpec
CONSTANTS
  HopCount = 2
  ProbeInterval = 1
  MinRate = 1
  MaxChanges = 1
  MaxControls = 0
PROPERTY
  PreferredRecovered
