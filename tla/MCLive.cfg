\* No request is dropped, and progress, with any application and both parities of
\* the sequence number.  The threshold is smaller than the ring, as in the code,
\* and requests overtake each other by half of it.
CONSTANTS
  SeqMod = 36
  MaxPending = 3
  SeqThreshold = 2
  InitSeqs = {4, 5}
  ClientId = 1
  Ids = {1}
  Keys = {"k"}
  AppOps = {"PUT"}
  MaxRequests = 3
  MaxDestroyFails = 0
  CryptoMayFail = FALSE
  MaxOvertaken = 1
SPECIFICATION FairSpec
CHECK_DEADLOCK FALSE
INVARIANT NoRequestStranded
PROPERTIES
  AcceptedIsCalledBack
  CallsReturn
