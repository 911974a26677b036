SPECIFICATION Spec
CONSTANTS
  t1 = t1
  t2 = t2
  Thread = {t1, t2}
  Key = {1, 2}
  Row <- TwoRows
  Col = {1, 2}
  Hash <- MixedHash
  Reclaim = "eager"
  MaxKeys = 2
  Programs <- MixedProgramsTwo
  MayAbort = {t2}
  StartRts <- SecondRts
INVARIANTS RefsCountHolders LockOwnership VersionsInCommitOrder UnlockedReadsSerializable
PROPERTIES TimestampsForward
