\* The handshake, two messages of the initiator and one of the responder, in
\* pieces of any size; either end may close and the network may fail at any byte.
SPECIFICATION FairCSpec
CONSTANTS
  short = short  long = long  hs1 = hs1  hs2 = hs2  hs3 = hs3
  Header = 2
  Messages = {short, long}
  Hs <- HandshakeMessages
  Size <- Sizes
  MaxFrame = 2
  MaxSends <- Sends
INVARIANTS
  FramesOpen
PROPERTIES
  ImplementsChannel
  RecvReturns
CHECK_DEADLOCK FALSE
