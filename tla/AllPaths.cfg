CHECK_DEADLOCK FALSE
CONSTANTS
  n1 = n1
  n2 = n2
  n3 = n3
  n4 = n4
  n5 = n5
  Node = {n1, n2, n3, n4, n5}
  Adj <- Both
  Start = n1
  End = n3
  CheckEvery = 5
SPECIFICATION FairSpec
INVARIANTS TypeOK StackShape Accounted
PROPERTIES Terminates ReportSpec
