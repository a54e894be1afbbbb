\* Manifests of up to three files; with chunk size 1 they have up to 15 chunks,
\* so that the bitmap takes two bytes.
SPECIFICATION NegotiationSpec
CONSTANTS
  UsizeValues = 8
  MaxFiles = 3
  Sizes = {0, 3, 5}
  ChunkSizes = {1, 2}
INVARIANTS
  SkipsExactlyHeld
  LoopCounts
  ChunksTile
CHECK_DEADLOCK FALSE
