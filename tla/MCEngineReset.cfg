\* Finding: a blocked device is made a favourite in one step.
SPECIFICATION ESpec
CONSTANTS
  Threads = {h1, h2}
  Devices = {d}
  Sessions = {s1, s2}
  NoPeer = NoPeer
  Nobody = Nobody
  Asks = {}
  QueriesFail = FALSE
  MaxCalls = 2
PROPERTIES
  BlockedOnlyReset
CHECK_DEADLOCK FALSE
