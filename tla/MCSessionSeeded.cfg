\* Two children on a seeded list, over a link that
\* cuts and merges requests.
SPECIFICATION SessionSpec
CONSTANTS
  Conns = {c1, c2}
  Seeds <- TwoSeeds
  Text = Text
  Part = Part
  ShortReads = TRUE
  MaxSends = 4
  MaxQueue = 1
  MaxSlots = 3
CHECK_DEADLOCK FALSE
INVARIANTS
  SessionTypeOK
  ListSentOnce
  JoinAcknowledgedOnce
PROPERTIES
  FirstRecordKept
  TextNeedsLostStdout
  FirstRequestIsHandled
