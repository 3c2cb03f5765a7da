\* A client that, like benchmark.cpp, writes all its requests before it reads,
\* and more of them than the socket buffers hold.
CONSTANTS
  MaxReq = 3
  RxCap = 2
  TxCap = 1
  ReadMax = 2
  Manners = {"late"}
  MayVanish = FALSE
SPECIFICATION Spec
INVARIANTS NeverBothWait
CHECK_DEADLOCK FALSE
