SPECIFICATION Spec
CONSTANTS
  Tabs = {a, b}
  Accounts = {ann, bob}
  Years = {y1}
  Generations = {g1}
  None = None
  Refused = Refused
  Readers = {a, b}
  MaxEdits = 1
  MaxLocks = 1
  MaxSwitches = 2
  MaxRights = 0
  MaxOffers = 2
  MaxExpiries = 0
  MaxCrashes = 1
CHECK_DEADLOCK FALSE
SYMMETRY Symmetry
CONSTRAINT Bounded
INVARIANTS TypeOK LockHolds NoCopyFromBeforeEdit ServedReadsAreCurrent
