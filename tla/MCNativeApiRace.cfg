\* Finding: two threads that call init at once announce two engines.
SPECIFICATION NSpec
CONSTANTS
  app = app
  share = share
  main = main
  main2 = main2
  other = other
  k1 = k1
  k2 = k2
  k3 = k3
  NoKey = NoKey
  NoEngine = NoEngine
  Nobody = Nobody
  Processes <- OneProcess
  Threads <- Mains
  Home <- TwoHosts
  Hosts <- Mains
  Keys <- AllKeys
  OldFiles <- NewDevice
  MaxCalls = 1
  MaxKills = 0
INVARIANTS
  OneEngine
CHECK_DEADLOCK FALSE
