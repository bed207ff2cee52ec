\* A response does not decrypt, and its uninitialised header frees the slot of
\* another request.
CONSTANTS
  SeqMod = 32
  MaxPending = 2
  SeqThreshold = 2
  InitSeqs = {4}
  ClientId = 1
  Ids = {1}
  Keys = {"k"}
  AppOps = {"GET", "PUT", "DELETE"}
  MaxRequests = 3
  MaxDestroyFails = 0
  CryptoMayFail = TRUE
  MaxOvertaken = 9
SPECIFICATION Spec
CHECK_DEADLOCK FALSE
INVARIANT BuffersNeverReused
