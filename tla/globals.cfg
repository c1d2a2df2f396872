SPECIFICATION Spec
CONSTANTS
  t1 = t1
  t2 = t2
  long = long
  other = other
  short = short
  Junk = Junk
  None = None
  Thread <- MCThread
  Word = {1, 2}
  Password <- MCPassword
  Short = {short}
INVARIANTS
  TypeOK
  LogKept
  ResponseRight
