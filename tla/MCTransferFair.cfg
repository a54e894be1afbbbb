\* One transfer of two files, alone on its devices, perhaps with a fault.  The sources
\* may change before, between or after its steps, and then shrink or get larger than
\* a chunk the Noise transport takes.
SPECIFICATION FairSpec
CONSTANTS
  t1 = t1  t2 = t2  t3 = t3  a = a  b = b  id1 = id1
  id2 = id2  id3 = id3  pa = pa  pb = pb  blank = blank
  Transfers = {t1}
  Sources = {a, b}
  FilesOf <- TwoFiles
  InitSize <- FairSizes
  Ids = {id1}
  IdOf <- OneId
  Paths = {pa, pb}
  TempPath <- OwnPaths
  UsizeValues = 16
  ChunkSize = 2
  LargeThreshold = 4
  MaxChunkSize = 8
  NoiseMax = 2
  Blank = blank
  Answers = {"accept", "drop"}
  StaleLen = 1
  EditSizes = {1, 5}
  MaxEdits = 2
  MaxFaults = 1
INVARIANTS
  CompletedAgreement
  ProtocolAgrees
  NoIncompleteVerdict
PROPERTIES
  FollowsStateMachine
  HandlersEnd
  FaultFreeCompletes
CHECK_DEADLOCK FALSE
