SPECIFICATION Spec
CONSTANTS
  t1 = t1
  t2 = t2
  t3 = t3
  NoOne = NoOne
  m1 = m1
  m2 = m2
  CrashAt <- ButCounts
INVARIANTS CacheGetsPages CacheKeepsPages ExtentsCounted OpensComplete LogFindsPrefixes
