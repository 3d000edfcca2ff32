SPECIFICATION FairSpec
CONSTANTS
  HopCount = 3
  ProbeInterval = 2
  MinRate = 1
  MaxChanges = 1
  MaxControls = 2
PROPERTIES
  NeverSendsToSkipped
  ActiveStaysAllowed
  StickyWhileUp
  PreferredRecovered
  FramesGetThrough
