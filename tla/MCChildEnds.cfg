\* One child, checked against the code that follows its loop.
SPECIFICATION SessionSpec
CONSTANTS
  Conns = {c1}
  Seeds <- TwoSeeds
  Text = Text
  Part = Part
  ShortReads = FALSE
  MaxSends = 2
  MaxQueue = 1
  MaxSlots = 4
CHECK_DEADLOCK FALSE
PROPERTIES
  ChildEnds
