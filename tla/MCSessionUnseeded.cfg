\* Two children on a list main failed to seed, over a link that
\* cuts and merges requests.
SPECIFICATION SessionSpec
CONSTANTS
  Conns = {c1, c2}
  Seeds <- NoSeeds
  Text = Text
  Part = Part
  ShortReads = TRUE
  MaxSends = 3
  MaxQueue = 1
  MaxSlots = 2
CHECK_DEADLOCK FALSE
INVARIANTS
  LoneJoinRecorded
PROPERTIES
  RequestsRead
