\* Two processes, three starts with kills and failures anywhere.
SPECIFICATION DirSpec
CONSTANTS
  Procs = {p1, p2}
  Ids = {i1, i2, i3}
  ConfigFiles <- Files
  NoFile = NoFile
  Torn = Torn
  Nothing = Nothing
  Overlap = FALSE
  MaxStarts = 3
INVARIANTS
  DirTypeOK
  VersionMeansTables
  UpIsReady
  IdentityKept
CHECK_DEADLOCK FALSE
