\* The client closes its socket while responses are still to be written.
CONSTANTS
  MaxReq = 2
  RxCap = 4
  TxCap = 1
  ReadMax = 4
  Manners = {"early"}
  MayVanish = TRUE
SPECIFICATION Spec
INVARIANTS WriteErrorIsHandled
CHECK_DEADLOCK FALSE
