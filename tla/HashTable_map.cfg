\* Six nodes, two of them with the same hash code, and a resize from two to
\* four to eight buckets; one node migrates per operation.
CONSTANTS
  Node = {1, 2, 3, 4, 5, 6}
  hcode <- Codes
  InitBuckets = 2
  k_max_load_factor = 1
  k_rehashing_work = 1
SPECIFICATION FairSpec
INVARIANTS TypeOK NodesInPlace SizesCount MigrateInBounds LoadBounded
PROPERTIES DictRefined RehashingEnds
