\* A send that has picked a peer may reach another device.
SPECIFICATION DSpec
CONSTANTS
  me = me  phone = phone  local = local
  Devices = {me, phone}
  Self = me
  KnowsSelf = TRUE
  Name <- Names
  Plain <- Words
  Id <- OwnIds
  Asked <- Given
  Addrs = {ad1, ad2}
  NoAddr = NoAddr
  NoPeer = NoPeer
  Capacity = 2
  MaxChanges = 3
INVARIANTS
  SendNeverStrays
CHECK_DEADLOCK FALSE
