\* Finding: where usize is narrower than a file length, a chunk in the middle of a
\* large file is read as an empty or a short one.
SPECIFICATION NegotiationSpec
CONSTANTS
  UsizeValues = 4
  MaxFiles = 1
  Sizes = {3, 5, 6}
  ChunkSizes = {2}
INVARIANTS
  ChunksTile
CHECK_DEADLOCK FALSE
