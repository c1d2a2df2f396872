CONSTANTS
  Versions = {38}
  Width = 2
  Splits <- MCSplits
  Names = {1, 3}
  Colours = {2}
  Texts = {0, 3}
  NameRoom = 2
  BufRoom = 3
  MaxThrow = 2
  MaxFrag = 0
  MaxNews = 1
  MaxFault = 0
SPECIFICATION Spec
CHECK_DEADLOCK FALSE
INVARIANTS
  Reflected
