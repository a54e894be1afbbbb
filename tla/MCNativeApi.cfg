\* One process, a thread that starts and stops the engine and one that asks it.
SPECIFICATION NSpec
CONSTANTS
  app = app
  share = share
  main = main
  main2 = main2
  other = other
  k1 = k1
  k2 = k2
  k3 = k3
  NoKey = NoKey
  NoEngine = NoEngine
  Nobody = Nobody
  Processes <- OneProcess
  Threads <- Both
  Home <- HostAndOther
  Hosts <- MainOnly
  Keys <- AllKeys
  OldFiles <- OldDevice
  MaxCalls = 3
  MaxKills = 2
INVARIANTS
  NTypeOK
  OneEngine
  OneIdentity
CHECK_DEADLOCK FALSE
