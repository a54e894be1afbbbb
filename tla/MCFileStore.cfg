\* Two transfers of one a.txt at once and a different a.txt before or after them, over any old files.
SPECIFICATION SSpec
CONSTANTS
  w1 = w1  w2 = w2  w3 = w3  c = c  d = d  pa = pa  pa1 = pa1  a = a  a1 = a1  a2 = a2
  b = b  u1 = u1  u2 = u2  u3 = u3  blank = blank  gone = gone
  Writers = {w1, w2, w3}
  Contents = {c, d}
  Content <- TwoOfOne
  Chunks <- TwoAndOne
  TempNames = {pa}
  FinalNames = {a, a1, u1, u2, u3}
  Temp <- OneTemp
  Tries <- OneName
  Fallback <- ThreeUuids
  Blank = blank
  Gone = gone
  StatFails = FALSE
CONSTRAINT
  OthersInTurn
INVARIANTS
  StoreTypeOK
PROPERTIES
  ImplementsDownloads
CHECK_DEADLOCK FALSE
