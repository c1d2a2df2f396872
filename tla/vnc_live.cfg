CONSTANTS
  Versions = {33, 37, 38, 41}
  Width = 2
  Splits <- MCSplits
  Names = {1, 3}
  Colours = {2}
  Texts = {0, 3}
  NameRoom = 2
  BufRoom = 3
  MaxThrow = 2
  MaxFrag = 1
  MaxNews = 1
  MaxFault = 1
SPECIFICATION FairSpec
CHECK_DEADLOCK FALSE
PROPERTIES
  HandshakeEnds
  CaptureEnds
