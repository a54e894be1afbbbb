\* Finding: a handler that asks the engine on TransferCancelled never gets an answer.
SPECIFICATION EFairSpec
CONSTANTS
  Threads = {h1}
  Devices = {d}
  Sessions = {s1, s2}
  NoPeer = NoPeer
  Nobody = Nobody
  Asks = {"TransferCancelled"}
  QueriesFail = FALSE
  MaxCalls = 3
PROPERTIES
  CallsReturn
CHECK_DEADLOCK FALSE
