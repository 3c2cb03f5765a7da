\* A TTL whose distance does not fit the signed timeout of poll.
CONSTANTS
  Key = {k1}
  Ttl = {1, 9}
  MaxNow = 2
  Fd = {4}
  MaxOut = 1
  k_idle_timeout_ms = 1
  k_max_works = 0
  IntBits = 4
  NULL = NULL
SPECIFICATION Spec
INVARIANTS SleepsToNextTimer
