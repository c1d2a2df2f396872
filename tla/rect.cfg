\* Pixels 0 to 5 against a word of 128 bits: 4 and 5 pixels wrap.
CONSTANTS
  BUF_SIZE = 8
  Word = 128
  MaxPixels = 5
  bits_per_pixel = 32
SPECIFICATION FairSpec
CHECK_DEADLOCK FALSE
INVARIANTS
  TypeOK
  StaysInRectangle
  ExactCover
  EnoughPixels
  WholeIfAligned
PROPERTIES
  LoopEnds
