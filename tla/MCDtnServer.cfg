\* Two connections to a server that may have one child only.
SPECIFICATION ServerSpec
CONSTANTS
  Conns = {c1, c2}
  NoConn = NoConn
  QueueLimit = 1
  MaxChildren = 1
  MaxFailures = 1
  Seeds <- TwoSeeds
  Text = Text
  Part = Part
  ShortReads = FALSE
  MaxSends = 2
  MaxQueue = 1
  MaxSlots = 3
CHECK_DEADLOCK FALSE
INVARIANTS
  SpinNeedsFailedAccept
PROPERTIES
  PartsImplemented
  RequestsReadIfAcceptWorks
  EndedIsReleased
  ConnectedIsDecided
