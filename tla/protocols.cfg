SPECIFICATION Spec
CONSTANTS
  t1 = t1
  t2 = t2
  t3 = t3
  Protocols = {"sto", "mvcc", "kr_occ"}
INVARIANTS CommitsSerializable HoldingsOwned VersionsPartitionTime SomebodyProceeds
PROPERTIES TimestampsKept
