\* Statements about the engine that the code does not keep; with -continue TLC shows
\* a counterexample of each.
SPECIFICATION ESpec
CONSTANTS
  Threads = {h1, h2}
  Devices = {d}
  Sessions = {s1, s2}
  NoPeer = NoPeer
  Nobody = Nobody
  Asks = {}
  QueriesFail = FALSE
  MaxCalls = 2
INVARIANTS
  BlockedHidden
  TrustFromDatabase
  StopCancelsAll
CHECK_DEADLOCK FALSE
