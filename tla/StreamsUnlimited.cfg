SPECIFICATION StreamsSpec
CONSTANTS
  BufferSize = 2
  Sizes = {1, 2}
  Timeouts = {0, 2}
  StreamLength = 3
  Earliness = 1
  Kinds = {"ums"}
  UMSSTATUSDELAY = 1
  MaxGiven = 2
  UnlimitedOnUms = TRUE
INVARIANTS
  UnlimitedIsUnlimited
