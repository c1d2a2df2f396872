CONSTANTS
  Versions = {33, 38, 41}
  Width = 2
  Splits <- MCSplits
  Names = {1, 3}
  Colours = {2}
  Texts = {0, 3}
  NameRoom = 2
  BufRoom = 3
  MaxThrow = 3
  MaxFrag = 1
  MaxNews = 2
  MaxFault = 1
SPECIFICATION Spec
CHECK_DEADLOCK FALSE
INVARIANTS
  TypeOK
  AuthSound
  FailureAgreed
  InStep
  DrawsUpdate
  StaleBound
