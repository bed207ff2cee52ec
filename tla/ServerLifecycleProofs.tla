------------------------ MODULE ServerLifecycleProofs -------------------------
(***************************************************************************)
(* Proofs about starting and stopping the server, for every number of      *)
(* threads.                                                                *)
(***************************************************************************)
EXTENDS ServerLifecycle, TLAPS

\* Types of the state.
LTypeOK ==
  /\ nexus \in BOOLEAN /\ async \in BOOLEAN /\ force \in BOOLEAN
  /\ number \in 0 .. (U8 - 1) /\ count \in 0 .. (U8 - 1) /\ index \in Nat
  /\ object \in [ThreadIds -> {"none", "live", "deleted"}]
  /\ running \in [ThreadIds -> BOOLEAN]
  /\ stay \in [ThreadIds -> BOOLEAN]

\* Which ServerThreads exist while host_server runs and when it has returned.
Objects ==
  /\ host = "idle" => \A i \in ThreadIds : object[i] = "none"
  /\ host = "spawning" =>
       index <= count /\ \A i \in ThreadIds : object[i] = "none" <=> i >= index
  /\ host = "working" =>
       ~async /\ \A i \in ThreadIds : object[i] = "none" <=> i > count
  /\ host = "hosted" /\ async =>
       \A i \in ThreadIds : object[i] = "none" <=> i >= count
  /\ host = "hosted" /\ ~async =>
       \A i \in ThreadIds : object[i] = "none" <=> i > count

\* Which threads may still run: those in the vector that close_connection has
\* not yet joined.
Threads ==
  /\ \A i \in ThreadIds : running[i] => object[i] = "live"
  /\ host = "hosted" => \A i \in ThreadIds : running[i] => i < count
  /\ host \in {"closing", "joining"} =>
       index <= count /\ \A i \in ThreadIds : running[i] => index <= i /\ i < count
  /\ host = "joining" => index < count
  /\ host = "closed" => \A i \in ThreadIds : ~running[i]
  /\ host \notin {"idle", "closed"} => nexus

\* number_threads and the loop's limit.
Limits == host # "idle" => number \in NumberThreads
                           /\ count = SpawnCount(number, async)

IInv == LTypeOK /\ Objects /\ Threads /\ Limits

\* The loop's limit is again a uint8_t.
LEMMA CountRange ==
  ASSUME NEW n \in NumberThreads, NEW a \in BOOLEAN
  PROVE  SpawnCount(n, a) \in 0 .. (U8 - 1)
BY LifecycleAssumption DEF SpawnCount

\* The invariant holds initially.
LEMMA LifecycleInit == Init => IInv
<1> SUFFICES ASSUME Init PROVE IInv
  OBVIOUS
<1>1. nexus \in BOOLEAN /\ async \in BOOLEAN /\ force \in BOOLEAN
  BY Zenon DEF Init
<1>2. LTypeOK
  BY <1>1, LifecycleAssumption DEF Init, LTypeOK
<1>3. Objects /\ Limits
  BY DEF Init, Objects, Limits
<1>4. Threads
  BY DEF Init, Threads
<1> QED BY <1>2, <1>3, <1>4 DEF IInv

\* Every step keeps it: one case per action.
LEMMA LifecycleNext == IInv /\ [Next]_vars => IInv'
<1> SUFFICES ASSUME IInv, [Next]_vars PROVE IInv'
  OBVIOUS
<1> USE LifecycleAssumption DEF IInv, ThreadIds
<1>1. CASE InitServer
  <2>1. nexus' = TRUE /\ host = "idle"
        /\ UNCHANGED <<host, number, async, force, count, index, object,
                       running, stay>>
    BY <1>1 DEF InitServer
  <2>2. nexus' \in BOOLEAN
    BY <2>1, Zenon
  <2> QED BY <2>1, <2>2 DEF LTypeOK, Objects, Threads, Limits
<1>2. ASSUME NEW n \in NumberThreads, NEW a \in BOOLEAN, HostServer(n, a)
      PROVE  IInv'
  <2>1. SpawnCount(n, a) \in 0 .. (U8 - 1) /\ n \in 0 .. (U8 - 1)
    BY CountRange
  <2>2. LTypeOK'
    BY <1>2, <2>1 DEF HostServer, LTypeOK
  <2>3. Objects' /\ Threads'
    BY <1>2, <2>1 DEF HostServer, LTypeOK, Objects, Threads
  <2>4. Limits'
    BY <1>2 DEF HostServer, Limits, SpawnCount
  <2> QED BY <2>2, <2>3, <2>4
<1>3. CASE SpawnThread
  <2>1. index \in ThreadIds /\ index < count /\ host = "spawning"
    BY <1>3 DEF SpawnThread, LTypeOK
  <2>2. LTypeOK'
    BY <1>3, <2>1 DEF SpawnThread, Start, LTypeOK
  <2>3. Objects'
    BY <1>3, <2>1 DEF SpawnThread, Start, LTypeOK, Objects
  <2>4. Threads' /\ Limits'
    BY <1>3, <2>1 DEF SpawnThread, Start, LTypeOK, Threads, Limits, SpawnCount
  <2> QED BY <2>2, <2>3, <2>4
<1>4. CASE WorkSynchronously
  <2>1. LTypeOK'
    BY <1>4 DEF WorkSynchronously, Start, LTypeOK
  <2>2. Objects'
    BY <1>4 DEF WorkSynchronously, Start, LTypeOK, Objects
  <2>3. Threads' /\ Limits'
    BY <1>4 DEF WorkSynchronously, Start, LTypeOK, Threads, Limits, SpawnCount
  <2> QED BY <2>1, <2>2, <2>3
<1>5. CASE ReturnAsynchronously
  <2>1. LTypeOK' /\ Limits'
    BY <1>5 DEF ReturnAsynchronously, LTypeOK, Limits, SpawnCount
  <2>2. Objects'
    <3>1. host' = "hosted" /\ async' /\ index = count
          /\ UNCHANGED <<count, object>>
      BY <1>5 DEF ReturnAsynchronously
    <3>2. \A i \in ThreadIds : object[i] = "none" <=> i >= count
      BY <1>5, <3>1 DEF ReturnAsynchronously, Objects
    <3> QED BY <3>1, <3>2 DEF Objects, LTypeOK
  <2>3. Threads'
    BY <1>5 DEF ReturnAsynchronously, LTypeOK, Objects, Threads
  <2> QED BY <2>1, <2>2, <2>3
<1>6. CASE ReturnSynchronously
  <2>1. LTypeOK'
    BY <1>6 DEF ReturnSynchronously, LTypeOK
  <2>2. Objects'
    <3>1. host = "working" /\ host' = "hosted" /\ UNCHANGED <<async, count>>
          /\ object' = [object EXCEPT ![count] = "deleted"]
      BY <1>6 DEF ReturnSynchronously
    <3>2. ~async /\ \A i \in ThreadIds : object[i] = "none" <=> i > count
      BY <3>1 DEF Objects
    <3>3. \A i \in ThreadIds : object'[i] = "none" <=> i > count
      BY <3>1, <3>2 DEF LTypeOK
    <3>4. ~async'
      BY <3>1, <3>2
    <3> QED BY <3>1, <3>3, <3>4 DEF Objects
  <2>3. \A i \in ThreadIds : running'[i] => i < count
    BY <1>6 DEF ReturnSynchronously, LTypeOK, Objects, Threads
  <2>4. Threads' /\ Limits'
    BY <1>6, <2>3 DEF ReturnSynchronously, LTypeOK, Threads, Limits, SpawnCount
  <2> QED BY <2>1, <2>2, <2>4
<1>7. ASSUME NEW j \in ThreadIds, ClientDisconnects(j) PROVE IInv'
  BY <1>7 DEF ClientDisconnects, LTypeOK, Objects, Threads, Limits, SpawnCount
<1>8. ASSUME NEW j \in ThreadIds, ThreadStops(j) PROVE IInv'
  BY <1>8 DEF ThreadStops, LTypeOK, Objects, Threads, Limits, SpawnCount
<1>9. ASSUME NEW f \in BOOLEAN, CloseConnection(f) PROVE IInv'
  BY <1>9 DEF CloseConnection, LTypeOK, Objects, Threads, Limits, SpawnCount
<1>10. CASE CloseTerminate
  <2>1. stay' \in [ThreadIds -> BOOLEAN]
    BY <1>10 DEF CloseTerminate, StayAfterTerminate, LTypeOK
  <2> QED BY <1>10, <2>1 DEF CloseTerminate, LTypeOK, Objects, Threads, Limits,
                             SpawnCount
<1>11. CASE CloseJoin
  <2>1. index \in ThreadIds /\ ~running[index]
    BY <1>11 DEF CloseJoin, Joined, LTypeOK, Threads
  <2>2. LTypeOK'
    BY <1>11, <2>1 DEF CloseJoin, LTypeOK
  <2>3. Objects' /\ Limits'
    BY <1>11 DEF CloseJoin, Objects, Limits, SpawnCount
  <2>4. Threads'
    BY <1>11, <2>1 DEF CloseJoin, LTypeOK, Threads
  <2> QED BY <2>2, <2>3, <2>4
<1>12. CASE CloseReturn
  BY <1>12 DEF CloseReturn, LTypeOK, Objects, Threads, Limits, SpawnCount
<1>13. CASE TerminateServer
  <2>1. nexus' \in BOOLEAN
    BY <1>13, Zenon DEF TerminateServer
  <2> QED BY <1>13, <2>1 DEF TerminateServer, LTypeOK, Objects, Threads, Limits,
                             SpawnCount
<1>14. CASE UNCHANGED vars
  BY <1>14 DEF vars, LTypeOK, Objects, Threads, Limits, SpawnCount
<1> QED
  BY <1>1, <1>2, <1>3, <1>4, <1>5, <1>6, <1>7, <1>8, <1>9, <1>10, <1>11, <1>12,
     <1>13, <1>14 DEF Next

\* So it always holds.
LEMMA LifecycleInvariance == Spec => []IInv
BY LifecycleInit, LifecycleNext, PTL DEF Spec

\* No thread runs on a deleted ServerThread or Nexus, for every number of
\* threads and both values of asynchronous and force.
THEOREM DeletedOnlyWhenStopped == Spec => []NoUseAfterDelete
<1>1. IInv => NoUseAfterDelete
  <2> SUFFICES ASSUME IInv, NEW i \in ThreadIds, running[i]
               PROVE  object[i] = "live" /\ nexus
    BY DEF NoUseAfterDelete
  <2>1. object[i] = "live"
    BY DEF IInv, Threads
  <2>2. host \notin {"idle", "closed"}
    BY <2>1 DEF IInv, Objects, Threads
  <2> QED BY <2>1, <2>2 DEF IInv, Threads
<1> QED BY <1>1, LifecycleInvariance, PTL

\* host_server sets up exactly the threads 0 .. number_threads - 1, for every
\* number but 0 without asynchronous; then it sets up one for every uint8_t.
THEOREM HostServerThreads == Spec => []HostedThreads
<1>1. IInv => HostedThreads
  <2> SUFFICES ASSUME IInv, host \in {"working", "hosted"}
               PROVE  SetUp = IF number = 0 /\ ~async THEN ThreadIds
                                                      ELSE 0 .. (number - 1)
    BY DEF HostedThreads
  <2>1. /\ number \in 0 .. (U8 - 1) /\ count \in 0 .. (U8 - 1)
        /\ async \in BOOLEAN /\ U8 \in Nat \ {0}
    BY LifecycleAssumption DEF IInv, LTypeOK
  <2>2. CASE async
    <3>1. host = "hosted"
      BY <2>2 DEF IInv, Objects
    <3>2. count = number /\ \A i \in ThreadIds : object[i] # "none" <=> i < count
      BY <2>1, <2>2, <3>1 DEF IInv, Objects, Limits, SpawnCount, ThreadIds
    <3> QED BY <2>1, <2>2, <3>2 DEF SetUp, ThreadIds
  <2>3. CASE ~async
    <3>1. \A i \in ThreadIds : object[i] # "none" <=> i <= count
      BY <2>1, <2>3 DEF IInv, Objects, ThreadIds
    <3>2. CASE number = 0
      <4>1. count = U8 - 1
        BY <2>1, <2>3, <3>2 DEF IInv, Limits, SpawnCount
      <4> QED BY <2>1, <2>3, <3>1, <3>2, <4>1 DEF SetUp, ThreadIds
    <3>3. CASE number # 0
      <4>1. count = number - 1
        BY <2>1, <2>3, <3>3 DEF IInv, Limits, SpawnCount
      <4> QED BY <2>1, <2>3, <3>1, <3>3, <4>1 DEF SetUp, ThreadIds
    <3> QED BY <3>2, <3>3
  <2> QED BY <2>1, <2>2, <2>3
<1> QED BY <1>1, LifecycleInvariance, PTL
===============================================================================
