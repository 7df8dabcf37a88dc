SPECIFICATION Spec
CONSTANTS
  Ids = 4
  Variants = {"CAS40", "CAS50", "CAS100"}
  Attempts = 3
  InitAttempts = 2
  NoticedAttempts = 3
  BufferSize = 8
  MaxNotices = 1
  MaxParts = 2
  MaxItems = 2
  MaxCalls = 2
  MaxStarts = 2
  MaxLost = 1
  MaxDamaged = 1
  MaxFaults = 1
  MaxLate = 1
  Systems = {"posix", "amigaos", "win32", "win16"}
  Speeds = {"9600", "115200"}
  SerialDevices = {"fx-9860G"}
  UmsDevices = {"fx-CG50"}
  SearchAttempts = 2
  MaxPlugs = 1
  MaxOpenings = 2
  MaxSettings = 3
INVARIANTS
  TypeOK
  NothingLeaks
  LineIsAsAsked
  ProtocolIsSpoken
  InStep
  TerminationIsAgreed
  AcceptedIsReceived
PROPERTIES
  CallsReturn
  DeviceIsFound
CHECK_DEADLOCK FALSE
