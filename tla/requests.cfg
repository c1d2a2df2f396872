CONSTANTS
  Token <- MCToken
  Size <- MCSize
  Number <- MCNumber
  Huge <- MCHuge
  Keysym <- MCKeysym
  Path <- MCPath
  Click <- MCClick
  Key <- MCKey
  Login <- MCLogin
SPECIFICATION Spec
CHECK_DEADLOCK FALSE
INVARIANTS
  TypeOK
  SplitExact
  InputArrives
  PageNeverAborts
  
