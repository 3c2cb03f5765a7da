\* Two connections and two keys: accepting, serving, closing and both kinds of
\* timers interleave.  An idle timeout is shorter than, equal to and longer
\* than a TTL, one key is evicted at a time, and clients may go away for good.
CONSTANTS
  Key = {k1, k2}
  Ttl = {0, 1, 2}
  MaxNow = 2
  Fd = {4, 5}
  MaxOut = 1
  k_idle_timeout_ms = 1
  k_max_works = 0
  IntBits = 3
  NULL = NULL
SPECIFICATION FairSpec
INVARIANTS TypeOK PolledIsLive TableAgrees IdleListByAge SleepsToNextTimer
PROPERTIES ExpiredIsEvicted
