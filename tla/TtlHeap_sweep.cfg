\* Four keys and a running clock: evictions, batches of k_max_works + 1,
\* deadlines that tie and deadlines in the future.
CONSTANTS
  Key = {k1, k2, k3, k4}
  Ttl = {0, 1}
  MaxNow = 2
  k_max_works = 1
  NULL = NULL
SPECIFICATION FairSpec
INVARIANTS NoGhostTimer RootIsEarliest
PROPERTIES SweepIsComplete TimersRefined ExpiredIsEvicted
