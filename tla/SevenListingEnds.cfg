SPECIFICATION Spec
CONSTANTS
  Attempts = 3
  MaxLost = 0
  MaxDamaged = 0
  MaxLate = 0
  Calls = {"list", "type"}
  MaxEntries = 2
PROPERTY ListingEnds
CHECK_DEADLOCK FALSE
