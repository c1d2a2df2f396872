CONSTANTS
  Versions = {33}
  Width = 2
  Splits <- MCSplits
  Names = {1, 3}
  Colours = {2}
  Texts = {0, 3}
  NameRoom = 2
  BufRoom = 3
  MaxThrow = 1
  MaxFrag = 0
  MaxNews = 0
  MaxFault = 0
SPECIFICATION FairSpec
CHECK_DEADLOCK FALSE
PROPERTIES
  OldVersionEnds
