\* The server thread stops while the ring is full.
CONSTANTS
  SeqMod = 32
  MaxPending = 2
  SeqThreshold = 2
  InitSeqs = {4}
  ClientId = 1
  Ids = {1}
  Keys = {"k"}
  AppOps = {"PUT"}
  MaxRequests = 2
  MaxDestroyFails = 0
  CryptoMayFail = FALSE
  MaxOvertaken = 9
SPECIFICATION FairSpec
CHECK_DEADLOCK FALSE
PROPERTY DisconnectReturns
