SPECIFICATION FairSpec
CONSTANTS
  t1 = t1
  t2 = t2
  Thread = {t1, t2}
  Key = {1, 2, 3, 4}
  Row <- OneRow
  Col = {1, 2}
  Hash <- SharedHash
  Reclaim = "lazy"
  MaxKeys = 3
  Programs <- CrossPrograms
  MayAbort = {}
  StartRts <- NoRts
INVARIANTS LoopsOverPinnedEntries
PROPERTIES TransactionEnds
