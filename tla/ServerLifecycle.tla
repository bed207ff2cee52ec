--------------------------- MODULE ServerLifecycle ----------------------------
(***************************************************************************)
(* Starting and stopping the two-sided server (Server.cpp: init,           *)
(* host_server, close_connection, terminate) with its server threads       *)
(* (ServerThread.cpp: the constructor, connect_and_work, join, terminate). *)
(*                                                                         *)
(* The application's thread calls the functions in order; every server     *)
(* thread runs beside it.  What a thread does for its client is the module *)
(* ServerThread; here it only matters when its loop ends.                  *)
(***************************************************************************)
EXTENDS Integers

CONSTANTS
  U8,             \* values of a uint8_t (256 in the code)
  NumberThreads   \* the number_threads the application may pass

ASSUME LifecycleAssumption == U8 \in Nat \ {0} /\ NumberThreads \subseteq 0 .. (U8 - 1)

ThreadIds == 0 .. (U8 - 1)

VARIABLES
  nexus,      \* does the Nexus exist?
  host,       \* where the application stands: host_server, close_connection
  number,     \* parameter number_threads
  async,      \* parameter asynchronous
  force,      \* parameter force of close_connection
  count,      \* number_threads after the decrement: the size of *threads
  index,      \* loop variable of host_server and close_connection
  object,     \* object[i]: the ServerThread with id i
  running,    \* running[i]: is connect_and_work of thread i running?
  stay        \* stay[i]: its stay_connected

vars == <<nexus, host, number, async, force, count, index, object, running, stay>>

-------------------------------------------------------------------------------
\* init; if the handler cannot be registered the Nexus is deleted again.
InitServer ==
  /\ host = "idle"
  /\ ~nexus
  /\ nexus' = TRUE
  /\ UNCHANGED <<host, number, async, force, count, index, object, running, stay>>

\* Seeded fault: the calling thread is not counted as one of the threads.
SpawnCountAll(n, a) == n
\* If the caller's thread serves a client itself, one thread less is spawned.
SpawnCount(n, a) == IF a THEN n ELSE (n - 1) % U8

\* host_server is called with acceptable sizes (otherwise it returns -1 and
\* has changed nothing).
HostServer(n, a) ==
  /\ nexus
  /\ host = "idle"
  /\ host' = "spawning"
  /\ number' = n
  /\ async' = a
  /\ count' = SpawnCount(n, a)
  /\ index' = 0
  /\ UNCHANGED <<nexus, force, object, running, stay>>

\* The constructor of ServerThread sets stay_connected and starts the loop.
Start(i) ==
  /\ object' = [object EXCEPT ![i] = "live"]
  /\ running' = [running EXCEPT ![i] = TRUE]
  /\ stay' = [stay EXCEPT ![i] = TRUE]

SpawnThread ==
  /\ host = "spawning"
  /\ index < count
  /\ Start(index)
  /\ index' = index + 1
  /\ UNCHANGED <<nexus, host, number, async, force, count>>

\* Without asynchronous, the caller serves the last client in host_server.
WorkSynchronously ==
  /\ host = "spawning"
  /\ index = count
  /\ ~async
  /\ Start(count)
  /\ host' = "working"
  /\ UNCHANGED <<nexus, number, async, force, count, index>>

ReturnAsynchronously ==
  /\ host = "spawning"
  /\ index = count
  /\ async
  /\ host' = "hosted"
  /\ UNCHANGED <<nexus, number, async, force, count, index, object, running, stay>>

ReturnSynchronously ==
  /\ host = "working"
  /\ ~running[count]
  /\ object' = [object EXCEPT ![count] = "deleted"]
  /\ host' = "hosted"
  /\ UNCHANGED <<nexus, number, async, force, count, index, running, stay>>

-------------------------------------------------------------------------------
\* The client of thread i has asked to disconnect (req_handler).
ClientDisconnects(i) ==
  /\ running[i]
  /\ stay[i]
  /\ stay' = [stay EXCEPT ![i] = FALSE]
  /\ UNCHANGED <<nexus, host, number, async, force, count, index, object, running>>

\* connect_and_work sees it, drains its event loop and returns.
ThreadStops(i) ==
  /\ running[i]
  /\ ~stay[i]
  /\ running' = [running EXCEPT ![i] = FALSE]
  /\ UNCHANGED <<nexus, host, number, async, force, count, index, object, stay>>

-------------------------------------------------------------------------------
CloseConnection(f) ==
  /\ host = "hosted"
  /\ host' = "closing"
  /\ force' = f
  /\ index' = 0
  /\ UNCHANGED <<nexus, number, async, count, object, running, stay>>

\* Seeded fault: close_connection forgets to force the thread.
StayAfterTerminateForgotten(i) == stay
\* ServerThread::terminate, if force is set.
StayAfterTerminate(i) == IF force THEN [stay EXCEPT ![i] = FALSE] ELSE stay

CloseTerminate ==
  /\ host = "closing"
  /\ index < count
  /\ stay' = StayAfterTerminate(index)
  /\ host' = "joining"
  /\ UNCHANGED <<nexus, number, async, force, count, index, object, running>>

\* Seeded fault: the thread is not joined.
JoinedAlways(i) == TRUE
\* join returns when connect_and_work has.
Joined(i) == ~running[i]

\* join and delete one thread.
CloseJoin ==
  /\ host = "joining"
  /\ Joined(index)
  /\ object' = [object EXCEPT ![index] = "deleted"]
  /\ index' = index + 1
  /\ host' = "closing"
  /\ UNCHANGED <<nexus, number, async, force, count, running, stay>>

CloseReturn ==
  /\ host = "closing"
  /\ index = count
  /\ host' = "closed"
  /\ UNCHANGED <<nexus, number, async, force, count, index, object, running, stay>>

\* The application deletes the Nexus last.
TerminateServer ==
  /\ host = "closed"
  /\ nexus
  /\ nexus' = FALSE
  /\ UNCHANGED <<host, number, async, force, count, index, object, running, stay>>

-------------------------------------------------------------------------------
Init ==
  /\ nexus = FALSE
  /\ host = "idle"
  /\ number = 0
  /\ async = FALSE
  /\ force = FALSE
  /\ count = 0
  /\ index = 0
  /\ object = [i \in ThreadIds |-> "none"]
  /\ running = [i \in ThreadIds |-> FALSE]
  /\ stay = [i \in ThreadIds |-> FALSE]

Next ==
  \/ InitServer
  \/ \E n \in NumberThreads, a \in BOOLEAN : HostServer(n, a)
  \/ SpawnThread
  \/ WorkSynchronously
  \/ ReturnAsynchronously
  \/ ReturnSynchronously
  \/ \E i \in ThreadIds : ClientDisconnects(i)
  \/ \E i \in ThreadIds : ThreadStops(i)
  \/ \E f \in BOOLEAN : CloseConnection(f)
  \/ CloseTerminate
  \/ CloseJoin
  \/ CloseReturn
  \/ TerminateServer

Spec == Init /\ [][Next]_vars

\* Threads that can go on do; nothing is assumed about the clients.
Fairness ==
  /\ WF_vars(CloseTerminate)
  /\ WF_vars(CloseJoin)
  /\ WF_vars(CloseReturn)
  /\ \A i \in ThreadIds : WF_vars(ThreadStops(i))

FairSpec == Spec /\ Fairness

-------------------------------------------------------------------------------
\* A ServerThread is deleted, and the Nexus its rpc object uses, only when its
\* thread has left connect_and_work.
NoUseAfterDelete ==
  \A i \in ThreadIds : running[i] => object[i] = "live" /\ nexus

\* The threads host_server has set up.
SetUp == {i \in ThreadIds : object[i] # "none"}

\* "Number of threads that are spawned at the beginning.  Limits the number of
\* clients": host_server sets up the threads 0 .. number_threads - 1.  The one
\* exception is 0 without asynchronous: the decrement of the uint8_t wraps, and
\* there is one thread for each of its values.
HostedThreads ==
  host \in {"working", "hosted"} =>
    SetUp = IF number = 0 /\ ~async THEN ThreadIds ELSE 0 .. (number - 1)

\* close_connection returns, if it is forced; otherwise it only ever waits for
\* a thread whose client has not asked to disconnect.
CloseReturns ==
  host = "closing" ~> \/ host = "closed"
                      \/ ~force /\ \E i \in ThreadIds : running[i] /\ stay[i]
===============================================================================
