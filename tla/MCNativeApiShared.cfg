\* Finding: two processes with one data directory make two identities.
SPECIFICATION NSpec
CONSTANTS
  app = app
  share = share
  main = main
  main2 = main2
  other = other
  k1 = k1
  k2 = k2
  k3 = k3
  NoKey = NoKey
  NoEngine = NoEngine
  Nobody = Nobody
  Processes <- TwoProcesses
  Threads <- Both
  Home <- TwoHomes
  Hosts <- Both
  Keys <- AllKeys
  OldFiles <- NewDevice
  MaxCalls = 2
  MaxKills = 0
INVARIANT
  OneIdentity
CHECK_DEADLOCK FALSE
