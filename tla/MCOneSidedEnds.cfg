\* One put, but every release of an object may fail.
CONSTANTS
  Keys = {k1}
  NoKey = NoKey
  Seq0 = 1
  MaxPuts = 1
  Modes = {TRUE, FALSE}
  CryptoMayFail = FALSE
  WaitMayFail = FALSE
  ReleaseMayFail = TRUE
SPECIFICATION FairSpec
CHECK_DEADLOCK FALSE
INVARIANTS
  LiveUnlessHasty
  ReleasedOnce
PROPERTY PutsReturn
