\* Two puts, of one key or of two, by either side or both, encrypted.
CONSTANTS
  Keys = {k1, k2}
  NoKey = NoKey
  Seq0 = 1
  MaxPuts = 2
  Modes = {TRUE}
  CryptoMayFail = TRUE
  WaitMayFail = FALSE
  ReleaseMayFail = FALSE
SPECIFICATION Spec
SYMMETRY Symmetry
CHECK_DEADLOCK FALSE
INVARIANTS
  TypeOK
  GetReturnsOwnPut
  PutArrived
