SPECIFICATION Spec
CONSTANTS
  Variants = {"CAS40"}
  InitAttempts = 1
  MaxParts = 2
  MaxItems = 2
  MaxCalls = 2
  MaxStarts = 1
  MaxLost = 0
  MaxDamaged = 1
  MaxLate = 0
INVARIANTS
  Accepted
CHECK_DEADLOCK FALSE
