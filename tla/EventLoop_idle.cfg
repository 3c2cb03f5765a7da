\* A client that connects and then does nothing.
CONSTANTS
  Key = {}
  Ttl = {}
  MaxNow = 4
  Fd = {4}
  MaxOut = 1
  k_idle_timeout_ms = 2
  k_max_works = 0
  IntBits = 4
  NULL = NULL
SPECIFICATION HSpec
INVARIANTS StaleIsTerminated
