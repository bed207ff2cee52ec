\* Requests arrive in any order, the threshold is smaller than the ring (so
\* that requests are rejected), and every en- and decryption may fail, on
\* either side.
CONSTANTS
  SeqMod = 32
  MaxPending = 2
  SeqThreshold = 1
  InitSeqs = {4}
  ClientId = 1
  Ids = {1}
  Keys = {"k"}
  AppOps = {"GET", "PUT", "DELETE"}
  MaxRequests = 2
  MaxDestroyFails = 0
  CryptoMayFail = TRUE
  MaxOvertaken = 9
SPECIFICATION Spec
CHECK_DEADLOCK FALSE
INVARIANTS
  BuffersBelongToErpc
  DisconnectAcknowledged
PROPERTY ImplementsKvService
