SPECIFICATION AmigaSpec
CONSTANTS
  BufferSize = 2
  Sizes = {1, 2}
  Timeouts = {0, 2}
  StreamLength = 3
  Earliness = 0
INVARIANTS
  TimeoutHasGoneBy
