\* A put may fail to fetch its completion.
CONSTANTS
  Keys = {k1}
  NoKey = NoKey
  Seq0 = 1
  MaxPuts = 2
  Modes = {TRUE, FALSE}
  CryptoMayFail = FALSE
  WaitMayFail = TRUE
  ReleaseMayFail = FALSE
SPECIFICATION Spec
CHECK_DEADLOCK FALSE
INVARIANT PutArrived
