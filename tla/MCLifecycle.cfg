\* Up to three threads, 0 included, with and without asynchronous and force.
CONSTANTS
  U8 = 4
  NumberThreads = {0, 1, 2, 3}
SPECIFICATION FairSpec
CHECK_DEADLOCK FALSE
INVARIANTS
  NoUseAfterDelete
  HostedThreads
PROPERTY CloseReturns
