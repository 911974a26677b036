SPECIFICATION Spec
CONSTANTS
  i1 = i1
  i2 = i2
  w1 = w1
  r1 = r1
  c1 = c1
  Inserter = {i1, i2}
  Worker = {w1}
  Reader = {r1}
  Closer = {c1}
  Tables = 3
  Capacity = 1
  Calls <- FewCalls
  ClosesIdle = TRUE
INVARIANTS ReadsFresh NothingLost HandedOn
CHECK_DEADLOCK FALSE
