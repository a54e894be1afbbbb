\* Finding: a.txt and "a (1).txt" arrive together where an a.txt exists.
SPECIFICATION SSpec
CONSTANTS
  w1 = w1  w2 = w2  w3 = w3  c = c  d = d  pa = pa  pa1 = pa1  a = a  a1 = a1  a2 = a2
  b = b  u1 = u1  u2 = u2  u3 = u3  blank = blank  gone = gone
  Writers = {w1, w2}
  Contents = {c, d}
  Content <- OtherContent
  Chunks <- TwoAndOne
  TempNames = {pa, pa1}
  FinalNames = {a, a1, a2, b, u1, u2}
  Temp <- OtherTemp
  Tries <- OtherTries
  Fallback <- TwoUuids
  Blank = blank
  Gone = gone
  StatFails = FALSE
PROPERTIES
  NeverReplaced
CHECK_DEADLOCK FALSE
