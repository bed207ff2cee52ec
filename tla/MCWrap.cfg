\* Requests arrive in the order they are sent, the sequence number wraps in the
\* course of the run, and destroy_session may fail once: then the session stays
\* up, eRPC keeps the requests, and the application goes on.
CONSTANTS
  SeqMod = 16
  MaxPending = 2
  SeqThreshold = 1
  InitSeqs = {0, 6, 9, 12, 15}
  ClientId = 1
  Ids = {1}
  Keys = {"k"}
  AppOps = {"GET", "PUT"}
  MaxRequests = 3
  MaxDestroyFails = 1
  CryptoMayFail = FALSE
  MaxOvertaken = 0
SPECIFICATION Spec
CHECK_DEADLOCK FALSE
INVARIANTS
  SystemTypeOK
  NoRequestStranded
  CallbackExactlyOnce
PROPERTY ImplementsKvService
