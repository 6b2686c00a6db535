SPECIFICATION FairSpec
CONSTANTS
  Tabs = {a}
  Accounts = {ann}
  Years = {y1}
  Generations = {g1, g2}
  None = None
  Refused = Refused
  Readers = {}
  MaxEdits = 1
  MaxLocks = 0
  MaxSwitches = 2
  MaxRights = 1
  MaxOffers = 1
  MaxExpiries = 1
  MaxCrashes = 1
CHECK_DEADLOCK FALSE

PROPERTY CopiesReturn
