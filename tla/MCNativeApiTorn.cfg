\* Finding: a crash while the key file is written leaves one that never loads.
SPECIFICATION NSpec
CONSTANTS
  app = app
  share = share
  main = main
  main2 = main2
  other = other
  k1 = k1
  k2 = k2
  k3 = k3
  NoKey = NoKey
  NoEngine = NoEngine
  Nobody = Nobody
  Processes <- OneProcess
  Threads <- Both
  Home <- HostAndOther
  Hosts <- MainOnly
  Keys <- AllKeys
  OldFiles <- NewDevice
  MaxCalls = 2
  MaxKills = 1
INVARIANT
  KeyFileLoads
CHECK_DEADLOCK FALSE
