\* Finding: three overlapping transfers of one file.
SPECIFICATION Spec
CONSTANTS
  t1 = t1  t2 = t2  t3 = t3  a = a  b = b  id1 = id1
  id2 = id2  id3 = id3  pa = pa  pb = pb  blank = blank
  Transfers = {t1, t2, t3}
  Sources = {a, b}
  FilesOf <- OneFileThrice
  InitSize <- ThriceSizes
  Ids = {id1, id2, id3}
  IdOf <- ThreeIds
  Paths = {pa, pb}
  TempPath <- OwnPaths
  UsizeValues = 16
  ChunkSize = 2
  LargeThreshold = 8
  MaxChunkSize = 8
  NoiseMax = 8
  Blank = blank
  Answers = {"ask"}
  StaleLen = 1
  EditSizes = {}
  MaxEdits = 0
  MaxFaults = 0
INVARIANTS
  DeliveredIntact
CHECK_DEADLOCK FALSE
