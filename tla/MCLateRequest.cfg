\* The threshold is smaller than the ring, as in the code (64 and 1024).
CONSTANTS
  SeqMod = 32
  MaxPending = 2
  SeqThreshold = 1
  InitSeqs = {4}
  ClientId = 1
  Ids = {1}
  Keys = {"k"}
  AppOps = {"GET", "PUT", "DELETE"}
  MaxRequests = 3
  MaxDestroyFails = 0
  CryptoMayFail = FALSE
  MaxOvertaken = 9
SPECIFICATION Spec
CHECK_DEADLOCK FALSE
INVARIANT NoRequestStranded
