\* Three devices come, move and go; the channel holds two events.
SPECIFICATION DSpec
CONSTANTS
  me = me  phone = phone  local = local
  Devices = {me, phone, local}
  Self = me
  KnowsSelf = TRUE
  Name <- Names
  Plain <- Words
  Id <- OwnIds
  Asked <- Given
  Addrs = {ad1, ad2}
  NoAddr = NoAddr
  NoPeer = NoPeer
  Capacity = 2
  MaxChanges = 5
INVARIANTS
  DTypeOK
  EventsReplay
  AnnouncedListed
  SendReachesNamed
CHECK_DEADLOCK FALSE
