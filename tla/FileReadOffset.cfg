SPECIFICATION Spec
CONSTANTS
  Kinds = {"system"}
  BufferSize = 2
  FileSize = 5
  Offsets = {0, 1, 2, 3, 4, 5}
  Sizes = {1, 2, 3, 4}
INVARIANT ReadsFromTheOffset
