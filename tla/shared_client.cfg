SPECIFICATION Spec
CONSTANTS
  Versions = {38}
  Width = 2
  Splits <- MCSplits
  Names = {}
  Colours = {1}
  Texts = {3}
  NameRoom = 2
  BufRoom = 3
  MaxThrow = 2
  MaxFrag = 0
  MaxNews = 1
  MaxFault = 1
  MaxSurprise = 1
INVARIANTS
  TypeOK
  OwnPicture
  BufferAtRest
CHECK_DEADLOCK FALSE
