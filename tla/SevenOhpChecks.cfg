SPECIFICATION Spec
CONSTANTS
  Modes = {"mono", "color", "parts"}
  MaxFrames = 5
  MaxFaults = 1
  MaxLate = 1
  MaxStarts = 1
PROPERTIES
  ChecksAreAnswered
CHECK_DEADLOCK FALSE
