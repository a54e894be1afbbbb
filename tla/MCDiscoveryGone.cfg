\* Finding: a device that has gone offline stays in the map.
SPECIFICATION DSpec
CONSTANTS
  me = me  phone = phone  local = local
  Devices = {me, phone}
  Self = me
  KnowsSelf = TRUE
  Name <- Names
  Plain <- Words
  Id <- OwnIds
  Asked <- Given
  Addrs = {ad1}
  NoAddr = NoAddr
  NoPeer = NoPeer
  Capacity = 2
  MaxChanges = 3
INVARIANTS
  GoneForgotten
CHECK_DEADLOCK FALSE
