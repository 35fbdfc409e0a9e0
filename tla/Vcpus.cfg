SPECIFICATION Spec
CONSTANTS
  N = 3
  MaxHostKicks = 1
INVARIANTS
  PauseHoldsGuest
  NoGuestAfterStop
PROPERTIES
  ImplementsSafePoint
