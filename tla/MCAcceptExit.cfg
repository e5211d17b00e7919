\* A server whose socket may have failed to open, checked against the exit its
\* source writes for that case.
SPECIFICATION AcceptSpec
CONSTANTS
  Conns = {c1}
  NoConn = NoConn
  QueueLimit = 1
  MaxChildren = 1
  MaxFailures = 1
PROPERTIES
  FailedAcceptEnds
