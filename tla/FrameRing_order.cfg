SPECIFICATION Spec
CONSTANTS
  Cap = 2
  MaxOffers = 5
INVARIANT
  InOrder
