\* Finding: two different files of one name arrive together.
SPECIFICATION SSpec
CONSTANTS
  w1 = w1  w2 = w2  w3 = w3  c = c  d = d  pa = pa  pa1 = pa1  a = a  a1 = a1  a2 = a2
  b = b  u1 = u1  u2 = u2  u3 = u3  blank = blank  gone = gone
  Writers = {w1, w2}
  Contents = {c, d}
  Content <- OtherContent
  Chunks <- TwoAndOne
  TempNames = {pa}
  FinalNames = {a, a1, u1, u2}
  Temp <- SameTemp
  Tries <- SameTries
  Fallback <- TwoUuids
  Blank = blank
  Gone = gone
  StatFails = FALSE
PROPERTIES
  FrozenOnceDelivered
CHECK_DEADLOCK FALSE
