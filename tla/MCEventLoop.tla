---------------------------- MODULE MCEventLoop ----------------------------
(***************************************************************************)
(* TLC instances of EventLoop, and the same specification with a history   *)
(* variable: the time at which a client last did something.                *)
(***************************************************************************)
EXTENDS EventLoop

VARIABLE last_io  \* last_io[fd]: when fd was accepted or found ready

HInit == Init /\ last_io = [fd \in Fd |-> 0]

Accepted(fd) == fd2conn[fd] = NULL /\ fd2conn'[fd] # NULL
FoundReady(fd) == pc = "conns" /\ cur' = fd /\ revents[fd] # {}

HNext ==
  /\ Next
  /\ last_io' = [fd \in Fd |-> IF Accepted(fd) \/ FoundReady(fd)
                               THEN now ELSE last_io[fd]]

HSpec == HInit /\ [][HNext]_<<vars, last_io>>

\* README: idle connection management tracks client inactivity,
\* "automatically terminating stale connections".  After the idle half of
\* process_timers no connection is left whose client has done nothing for
\* k_idle_timeout_ms.
StaleIsTerminated ==
  pc = "ttl" => \A fd \in Live : now_ms - last_io[fd] < k_idle_timeout_ms
=============================================================================
