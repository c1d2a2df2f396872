CONSTANTS
  t1 = t1
  t2 = t2
  t3 = t3
  c1 = c1
  c2 = c2
  c3 = c3
  Thread <- MCThread
  Client <- MCClient
  NULL = NULL
  Serial = FALSE
SPECIFICATION Spec
INVARIANTS
  NoFault
