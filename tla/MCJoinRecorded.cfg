\* One child on a seeded list, checked against what a join reports.
SPECIFICATION SessionSpec
CONSTANTS
  Conns = {c1}
  Seeds <- TwoSeeds
  Text = Text
  Part = Part
  ShortReads = FALSE
  MaxSends = 2
  MaxQueue = 1
  MaxSlots = 4
CHECK_DEADLOCK FALSE
INVARIANTS
  JoinedIsRecorded
