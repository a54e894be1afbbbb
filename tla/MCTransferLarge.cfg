\* Finding: a file above the large-file threshold never completes.
SPECIFICATION Spec
CONSTANTS
  t1 = t1  t2 = t2  t3 = t3  a = a  b = b  id1 = id1
  id2 = id2  id3 = id3  pa = pa  pb = pb  blank = blank
  Transfers = {t1}
  Sources = {a, b}
  FilesOf <- OneFile
  InitSize <- RetrySizes
  Ids = {id1}
  IdOf <- OneId
  Paths = {pa, pb}
  TempPath <- OwnPaths
  UsizeValues = 16
  ChunkSize = 2
  LargeThreshold = 2
  MaxChunkSize = 8
  NoiseMax = 8
  Blank = blank
  Answers = {"ask"}
  StaleLen = 1
  EditSizes = {}
  MaxEdits = 0
  MaxFaults = 0
INVARIANTS
  NoIncompleteVerdict
CHECK_DEADLOCK FALSE
