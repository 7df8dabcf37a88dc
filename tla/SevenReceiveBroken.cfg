SPECIFICATION Spec
CONSTANTS
  Attempts = 3
  MaxLost = 0
  MaxDamaged = 0
  MaxLate = 1
  Calls = {"request_file"}
  MaxCount = 1
PROPERTY NothingSentOnceBroken
CHECK_DEADLOCK FALSE
