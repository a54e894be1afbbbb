\* Processes that may look for the identity at once: each makes its own, and one killed
\* while it saves leaves a directory no engine starts on; with -continue TLC shows both.
SPECIFICATION DirSpec
CONSTANTS
  Procs = {p1, p2}
  Ids = {i1, i2, i3}
  ConfigFiles <- Files
  NoFile = NoFile
  Torn = Torn
  Nothing = Nothing
  Overlap = TRUE
  MaxStarts = 3
INVARIANTS
  IdentityKept
  Startable
CHECK_DEADLOCK FALSE
