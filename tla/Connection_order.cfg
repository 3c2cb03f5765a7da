\* Five pipelined requests of every kind; a TxCap that is odd and reads that are
\* shorter than RxCap, so that both end in the middle of a message; the client
\* may vanish.  Four requests are the most that a client which reads late can
\* send (FitsBuffers); with five it can get stuck.
CONSTANTS
  MaxReq = 5
  RxCap = 4
  TxCap = 3
  ReadMax = 3
  Manners = {"early", "late"}
  MayVanish = TRUE
SPECIFICATION FairSpec
INVARIANTS TypeOK ResponsesInOrder RunsInOrder NothingLeftBehind IntentMatchesBuffers AnsweredBeforeClose
PROPERTIES EveryRequestAnswered
CHECK_DEADLOCK FALSE
