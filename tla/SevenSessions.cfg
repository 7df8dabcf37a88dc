SPECIFICATION SessionsSpec
CONSTANTS
  Attempts = 3
  InitAttempts = 2
  MaxCalls = 2
  MaxLost = 2
  MaxDamaged = 2
  MaxLate = 2
  Discover = TRUE
  Terminate = TRUE
  Modes = {"mono", "color", "parts"}
  MaxFrames = 5
  MaxFaults = 1
  MaxPauses = 1
  MaxStarts = 1
INVARIANTS
  SessionsTypeOK
  AnswersMatch
  QuietAtRest
  OneFaultIsSurvived
  CarriedOutOncePerLoss
  FramesAreWhole
PROPERTIES
  NothingSentOnceBroken
  SessionsGoOn
  ServiceSpec
CHECK_DEADLOCK FALSE
