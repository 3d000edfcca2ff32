SPECIFICATION Spec
CONSTANTS
  HopCount = 2
  SeqSpace = 5
  IndexMax = 1
  MaxFrames = 4
  MaxCopies = 1
  MaxRestarts = 1
INVARIANTS
  ExactInOrder
  LossesReported
  AccountsAgree
  StampsTruthful
CHECK_DEADLOCK FALSE
