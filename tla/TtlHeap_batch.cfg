CONSTANTS
  Key = {k1, k2, k3, k4}
  Ttl = {0, 1}
  MaxNow = 2
  k_max_works = 2
  NULL = NULL
SYMMETRY KeySymmetry
SPECIFICATION Spec
INVARIANTS BatchLimit
