\* A ring of two slots, sequence numbers that wrap after four requests, both
\* parities of the initial number.
CONSTANTS
  SeqMod = 8
  MaxPending = 2
  SeqThreshold = 2
  InitSeqs = {0, 5}
  ClientId = 1
  Ids = {0, 1}
  IdMod = 2
  Keys = {"k"}
  AppOps = {"GET", "PUT", "DELETE"}
  MaxRequests = 2
  MaxDestroyFails = 0
  CryptoMayFail = TRUE
SPECIFICATION ClientSpec
CHECK_DEADLOCK FALSE
INVARIANTS
  TypeOK
  PendingHasOneSlot
  CallbackExactlyOnce
  WindowBound
  MacrosActOnFields
  MaskedComparison
PROPERTY OwnResponseCompletes
