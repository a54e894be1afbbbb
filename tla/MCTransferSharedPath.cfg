\* Finding: two files whose names differ only in the extension.
SPECIFICATION Spec
CONSTANTS
  t1 = t1  t2 = t2  t3 = t3  a = a  b = b  id1 = id1
  id2 = id2  id3 = id3  pa = pa  pb = pb  blank = blank
  Transfers = {t1}
  Sources = {a, b}
  FilesOf <- TwoFiles
  InitSize <- ApartSizes
  Ids = {id1}
  IdOf <- OneId
  Paths = {pa, pb}
  TempPath <- SharedPath
  UsizeValues = 16
  ChunkSize = 2
  LargeThreshold = 8
  MaxChunkSize = 8
  NoiseMax = 8
  Blank = blank
  Answers = {"ask"}
  StaleLen = 1
  EditSizes = {}
  MaxEdits = 0
  MaxFaults = 0
INVARIANTS
  DeliveredIntact
CHECK_DEADLOCK FALSE
