\* Two keys that are strings or sorted sets, with and without deadlines, and
\* sweeps of one eviction.
CONSTANTS
  k_max_args = 6
  k_max_msg = 19
  client_k_max_msg = 10
  Key <- MCKey
  Command <- MCCommand
  Garbage <- MCGarbage
  MaxNow = 3
  k_max_works = 0
SPECIFICATION Spec
INVARIANTS TypeOK ClientReadsReply LifetimeAsPromised
PROPERTIES AcceptsExactlyCommands ErrorsChangeNothing
