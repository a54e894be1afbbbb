\* A query of the database that fails lets a blocked device through as Unknown.
SPECIFICATION ESpec
CONSTANTS
  Threads = {h1}
  Devices = {d}
  Sessions = {s1, s2}
  NoPeer = NoPeer
  Nobody = Nobody
  Asks = {}
  QueriesFail = TRUE
  MaxCalls = 2
INVARIANTS
  BlockedIdentifiedHidden
CHECK_DEADLOCK FALSE
