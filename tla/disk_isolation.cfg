SPECIFICATION Spec
CONSTANTS
  t1 = t1
  t2 = t2
  t3 = t3
  Thread = {t1, t2, t3}
  Key = {1, 2}
  Forgiving = TRUE
  MaxLog = 4
  Programs <- MixedPrograms
  MayAbort = {t1, t2, t3}
  StartTuple <- LoadedRead
SYMMETRY Threads123
INVARIANTS LockOwnership HistoryComplete SerialInTimestampOrder
PROPERTY TimestampsForward
