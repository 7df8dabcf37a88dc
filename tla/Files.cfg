SPECIFICATION FilesSpec
CONSTANTS
  Kinds = {"system", "memory"}
  BufferSize = 2
  FileSize = 5
  Offsets = {0, 1, 2, 3, 4, 5}
  Sizes = {1, 2, 3, 4}
  Targets = {"created", "stdout"}
  ChunkSize = 2
  NullSize = 1
  MaxPosition = 6
  Lengths = {1, 3}
  MaxCharacters = 3
  Windows = {4}
  Rooms = {6}
  MaxRounds = 2
  MaxSide = 2
  Zooms = {1, 2, 3}
  Paddings = {0, 1}
INVARIANTS
  TypeOK
  BufferIsCoherent
  AlignedReadsAreExact
  WritesAreExact
  SplitIsWhole
  OutcomeIsTold
  FrameIsShown
PROPERTY RequestsEnd
CHECK_DEADLOCK FALSE
