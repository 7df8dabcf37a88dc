SPECIFICATION PlatformSpec
CONSTANTS
  BufferSize = 2
  Sizes = {0, 1, 3}
  Timeouts = {0, 3}
  StreamLength = 4
  Earliness = 1
  Kinds = {"serial", "bulk", "ums"}
  UMSSTATUSDELAY = 1
  MaxGiven = 2
  UnlimitedOnUms = FALSE
  PlatformKinds = {"overlapped", "immediate", "win16"}
  READ_CHECK_DELAY_MS = 1
INVARIANTS
  TypeOK
  ReceivesTheStream
  PlatformTimeoutIsKept
  SendsTheMessage
PROPERTIES
  ReceptionEnds
  PlatformsImplement
