SPECIFICATION Spec
CONSTANTS
  Attempts = 3
  MaxLost = 1
  MaxDamaged = 1
  MaxLate = 1
  Counts = {0, 1, 2, 3, 4}
  MaxCount = 4
  MaxEntries = 2
  SystemEnd = 3
  FlashEnd = 4
  Pieces = 2
  MaxPackets = 2
  MaxCalls = 2
INVARIANTS
  TypeOK
  FileArrives
  ParamsAgree
  LinkIsFree
  EntriesAreFaithful
  FlashedInOrder
  OneFaultIsSurvived
PROPERTIES
  CallEnds
CHECK_DEADLOCK FALSE
