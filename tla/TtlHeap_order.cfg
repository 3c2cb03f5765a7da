\* Six keys and a stopped clock: six is the smallest heap in which removing
\* a timer can send the last one upwards.
CONSTANTS
  Key = {k1, k2, k3, k4, k5, k6}
  Ttl = {0, 1, 2}
  MaxNow = 0
  k_max_works = 2
  NULL = NULL
SYMMETRY KeySymmetry
SPECIFICATION Spec
INVARIANTS TypeOK HeapOrder BackRefs
