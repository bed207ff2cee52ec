\* A get, under fairness.
CONSTANTS
  Keys = {k1}
  NoKey = NoKey
  Seq0 = 1
  MaxPuts = 0
  Modes = {TRUE, FALSE}
  CryptoMayFail = FALSE
  WaitMayFail = FALSE
  ReleaseMayFail = FALSE
SPECIFICATION FairSpec
CHECK_DEADLOCK FALSE
PROPERTY GetsReturn
