SPECIFICATION FairSpec
CONSTANTS
  t1 = t1
  t2 = t2
  t3 = t3
  Thread = {t1, t2, t3}
  Key = {1, 2}
  Policies = {"no_wait", "wait_die", "wound_wait"}
  Programs <- UpgradePrograms
  MayAbort = {t1}
INVARIANTS LocksReleasable EntriesCounted Serializable
PROPERTIES LocksImplement OldestSurvives TransactionEnds
