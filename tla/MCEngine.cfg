\* Two threads and two calls each, about one device; on events about peers the
\* handler asks the engine back; queries of the database may fail.
SPECIFICATION EFairSpec
CONSTANTS
  Threads = {h1, h2}
  Devices = {d}
  Sessions = {s1, s2}
  NoPeer = NoPeer
  Nobody = Nobody
  Asks <- PeerEvents
  QueriesFail = TRUE
  MaxCalls = 2
INVARIANTS
  EngineTypeOK
  AnnouncedOnce
  BlockedStaysOut
  StoppedOnce
PROPERTIES
  StaysIdentified
  CallsReturn
CHECK_DEADLOCK FALSE
