SPECIFICATION Spec
CONSTANTS
  t1 = t1
  t2 = t2
  t3 = t3
  Thread = {t1, t2}
  Key = {1, 2}
  Forgiving = TRUE
  MaxLog = 4
  Programs <- ExtendedPrograms
  MayAbort = {}
  StartTuple <- Loaded
CHECK_DEADLOCK FALSE
INVARIANT Serializable
