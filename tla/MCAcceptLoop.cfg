\* Three connections, two of which can be queued or served at a time, and up
\* to two failures of accept.
SPECIFICATION AcceptSpec
CONSTANTS
  Conns = {c1, c2, c3}
  NoConn = NoConn
  QueueLimit = 2
  MaxChildren = 2
  MaxFailures = 2
INVARIANTS
  AcceptTypeOK
  ZombiesSignalled
  ParentHoldsOnlyClient
  OneOwner
  StaleErrnoNeedsFailure
PROPERTIES
  ZombiesReaped
  QueuedAccepted
  ServiceImplemented
