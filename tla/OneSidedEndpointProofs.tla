------------------------ MODULE OneSidedEndpointProofs ------------------------
(***************************************************************************)
(* Proofs about setting up and releasing the two ends of a one-sided       *)
(* connection: whatever fails, RDMA operations find registered memory, and *)
(* what was acquired is released once.                                     *)
(***************************************************************************)
EXTENDS OneSided, TLAPS

\* The objects p holds and has not failed to delete.
Held(p) == handles[p] \ stuck[p]

EndTypeOK ==
  /\ link \in Links
  /\ phase \in [Procs -> ClientPhases \cup ServerPhases]
  /\ phase["client"] \in ClientPhases
  /\ phase["server"] \in ServerPhases
  /\ handles \in [Procs -> SUBSET Handles]
  /\ stuck \in [Procs -> SUBSET Handles]
  /\ orphans \in [Procs -> SUBSET Handles]
  /\ bufMem \in {"null", "allocated", "freed"}
  /\ kvMem \in {"none", "allocated", "freed"}
  /\ hasty \in BOOLEAN

\* What the client holds in each phase, and that a connection it has requested
\* ends when it deletes it.
ClientEnd ==
  /\ phase["client"] \in {"request", "establish", "connected",
                          "free_connection"} =>
       {"peer", "memory_region"} \subseteq handles["client"]
  /\ phase["client"] = "idle" <=> bufMem # "allocated"
  /\ phase["client"] = "idle" => Held("client") \subseteq {"peer"}
  /\ phase["client"] \in {"request", "free_objects"} =>
       Held("client") \subseteq {"peer", "memory_region"}
  /\ phase["client"] = "establish" =>
       Held("client") \subseteq {"peer", "memory_region", "connection"}
  /\ Held("client") \subseteq Handles \ {"endpoint"}
  /\ orphans["client"] \subseteq {"peer"}
  /\ link # "none" =>
       /\ phase["client"] \in {"establish", "connected", "free_connection"}
       /\ "connection" \in handles["client"]

\* The same for the server.
ServerEnd ==
  /\ phase["server"] = "start" =>
       handles["server"] = {} /\ link = "none" /\ kvMem = "none"
  /\ phase["server"] \in {"hosted", "serving", "not_accepted"} =>
       {"peer", "memory_region"} \subseteq handles["server"]
  /\ phase["server"] \in {"start", "ready", "done"} => Held("server") = {}
  /\ phase["server"] \in {"hosted", "free_objects"} =>
       Held("server") \subseteq {"peer", "memory_region", "endpoint"}
  /\ Held("server") \subseteq Handles \ {"shared_remote"}
  /\ orphans["server"] = {}
  /\ phase["server"] # "start" => kvMem # "none"
  /\ phase["server"] \in {"ready", "hosted", "serving", "not_accepted"} =>
       kvMem = "allocated"
  /\ link = "up" =>
       /\ phase["server"] \in {"serving", "not_accepted", "free_connection"}
       /\ ~hasty => kvMem = "allocated"
       /\ {"peer", "memory_region", "connection"} \subseteq handles["server"]

EndInv == EndTypeOK /\ ClientEnd /\ ServerEnd

-------------------------------------------------------------------------------
\* The effect of Store and of Release on side p, q being the other one.
Stored(p, q, hs, kept) ==
  /\ handles' \in [Procs -> SUBSET Handles]
  /\ stuck' \in [Procs -> SUBSET Handles]
  /\ orphans' \in [Procs -> SUBSET Handles]
  /\ handles'[p] = (handles[p] \ hs) \cup kept
  /\ stuck'[p] = stuck[p] \ hs
  /\ orphans'[p] = orphans[p] \cup ((hs \cap handles[p]) \ stuck[p])
  /\ handles'[q] = handles[q]
  /\ stuck'[q] = stuck[q]
  /\ orphans'[q] = orphans[q]

Released(p, q, hs, kept) ==
  /\ handles' \in [Procs -> SUBSET Handles]
  /\ stuck' \in [Procs -> SUBSET Handles]
  /\ handles'[p] = (handles[p] \ hs) \cup kept
  /\ stuck'[p] = (stuck[p] \ hs) \cup kept
  /\ handles'[q] = handles[q]
  /\ stuck'[q] = stuck[q]
  /\ orphans' = orphans

\* Store changes side p only.
LEMMA StoreEffect ==
  ASSUME EndTypeOK, NEW p \in Procs, NEW q \in Procs, p # q,
         NEW hs \in SUBSET Handles, NEW kept \in SUBSET hs, Store(p, hs, kept)
  PROVE  Stored(p, q, hs, kept)
BY DEF Store, EndTypeOK, Stored

\* Release gives up the pointers hs of side p, or some of them get stuck.
LEMMA ReleaseEffect ==
  ASSUME EndTypeOK, NEW p \in Procs, NEW q \in Procs, p # q,
         NEW hs \in SUBSET Handles, Release(p, hs)
  PROVE  \E kept \in SUBSET (hs \cap handles[p]) : Released(p, q, hs, kept)
<1>1. PICK kept \in SUBSET (hs \cap handles[p]) :
        /\ handles' = [handles EXCEPT ![p] = (@ \ hs) \cup kept]
        /\ stuck' = [stuck EXCEPT ![p] = (@ \ hs) \cup kept]
  BY DEF Release
<1>2. Released(p, q, hs, kept)
  BY <1>1 DEF Release, EndTypeOK, Released
<1> QED BY <1>2

-------------------------------------------------------------------------------
\* The invariant holds before anything is set up.
LEMMA EndInit == Init => EndInv
BY DEF Init, EndpointInit, EndInv, EndTypeOK, ClientEnd, ServerEnd, Held, Procs,
       Links, ClientPhases, ServerPhases, Handles

\* The steps of the client.
LEMMA ClientEndStep ==
  ASSUME EndInv, ClientEndpoint \/ FreeConnection("client") \/ FreeClient
  PROVE  EndInv'
<1>0. "client" \in Procs /\ "server" \in Procs
  BY DEF Procs
<1> DEFINE Base == EndTypeOK /\ ClientEnd /\ ServerEnd
<1>b. Base
  BY DEF EndInv
<1>1. CASE ConnectSetup
  <2>1. PICK hs \in {{"peer"}, {"peer", "memory_region"}} :
          /\ Store("client", hs, hs)
          /\ hs = {"peer"} => phase'["client"] = "idle" /\ bufMem' # "allocated"
          /\ hs # {"peer"} => phase'["client"] = "request" /\ bufMem' = "allocated"
    BY <1>0, <1>1, <1>b DEF ConnectSetup, Acquire, Go, EndTypeOK, ClientEnd
  <2>2. hs \in SUBSET Handles /\ hs \in SUBSET hs
    BY DEF Handles
  <2>3. Stored("client", "server", hs, hs)
    BY <1>0, <1>b, <2>1, <2>2, StoreEffect
  <2>4. /\ phase["client"] = "idle"
        /\ phase'["server"] = phase["server"]
        /\ phase' \in [Procs -> ClientPhases \cup ServerPhases]
        /\ phase'["client"] \in ClientPhases
        /\ bufMem' \in {"null", "allocated", "freed"}
        /\ UNCHANGED <<kvMem, hasty, link>>
    BY <1>0, <1>1, <1>b DEF ConnectSetup, Go, EndTypeOK, ClientPhases
  <2>5. EndTypeOK'
    BY <1>b, <2>3, <2>4 DEF EndTypeOK, Stored
  <2>6. ClientEnd'
    BY <1>b, <2>1, <2>3, <2>4 DEF EndTypeOK, ClientEnd, Stored, Held, Handles
  <2>7. ServerEnd'
    BY <1>b, <2>3, <2>4 DEF EndTypeOK, ServerEnd, Stored, Held
  <2> QED BY <2>5, <2>6, <2>7 DEF EndInv
<1>2. CASE ConnectRequest
  <2>1. /\ phase["client"] = "request"
        /\ phase'["client"] \in {"establish", "free_connection"}
        /\ phase'["server"] = phase["server"]
        /\ phase' \in [Procs -> ClientPhases \cup ServerPhases]
        /\ phase'["client"] \in ClientPhases
        /\ UNCHANGED <<bufMem, kvMem, hasty>>
    BY <1>0, <1>2, <1>b DEF ConnectRequest, Go, EndTypeOK, ClientPhases
  <2>2. link = "none"
    BY <1>b, <2>1 DEF EndTypeOK, ClientEnd, Links
  <2>3. CASE phase'["client"] = "establish"
    <3>1. /\ Store("client", {"connection"}, {"connection"})
          /\ link' \in {"none", "requested"}
          /\ link' = "requested" => "endpoint" \in handles["server"]
      BY <1>0, <1>2, <1>b, <2>2, <2>3
      DEF ConnectRequest, Acquire, Go, EndTypeOK
    <3>2. Stored("client", "server", {"connection"}, {"connection"})
      BY <1>0, <1>b, <3>1, StoreEffect DEF Handles
    <3>3. EndTypeOK'
      BY <1>b, <2>1, <3>1, <3>2 DEF EndTypeOK, Stored, Links
    <3>4. ClientEnd'
      BY <1>b, <2>1, <2>3, <3>1, <3>2
      DEF EndTypeOK, ClientEnd, Stored, Held, Handles
    <3>5. ServerEnd'
      BY <1>b, <2>1, <3>1, <3>2 DEF EndTypeOK, ServerEnd, Stored, Held
    <3> QED BY <3>3, <3>4, <3>5 DEF EndInv
  <2>4. CASE phase'["client"] = "free_connection"
    <3>1. UNCHANGED <<handles, stuck, orphans, link>>
      BY <1>0, <1>2, <1>b, <2>4 DEF ConnectRequest, Go, EndTypeOK
    <3> QED BY <1>b, <2>1, <2>2, <2>4, <3>1
            DEF EndInv, EndTypeOK, ClientEnd, ServerEnd, Held, Handles
  <2> QED BY <2>1, <2>3, <2>4
<1>3. CASE ConnectEstablish
  <2>1. /\ phase["client"] = "establish"
        /\ phase'["client"] \in {"connected", "free_connection"}
        /\ phase'["server"] = phase["server"]
        /\ phase' \in [Procs -> ClientPhases \cup ServerPhases]
        /\ phase'["client"] \in ClientPhases
        /\ UNCHANGED <<bufMem, kvMem, hasty, link>>
    BY <1>0, <1>3, <1>b DEF ConnectEstablish, Go, EndTypeOK, ClientPhases
  <2>2. CASE Store("client", {"shared_remote"}, {"shared_remote"})
    <3>1. Stored("client", "server", {"shared_remote"}, {"shared_remote"})
      BY <1>0, <1>b, <2>2, StoreEffect DEF Handles
    <3>2. EndTypeOK'
      BY <1>b, <2>1, <3>1 DEF EndTypeOK, Stored
    <3>3. ClientEnd'
      BY <1>b, <2>1, <3>1 DEF EndTypeOK, ClientEnd, Stored, Held, Handles
    <3>4. ServerEnd'
      BY <1>b, <2>1, <3>1 DEF EndTypeOK, ServerEnd, Stored, Held
    <3> QED BY <3>2, <3>3, <3>4 DEF EndInv
  <2>3. CASE UNCHANGED <<handles, stuck, orphans>>
    BY <1>b, <2>1, <2>3
    DEF EndInv, EndTypeOK, ClientEnd, ServerEnd, Held, Handles
  <2> QED BY <1>3, <2>2, <2>3 DEF ConnectEstablish, Acquire
<1>4. CASE Disconnect
  <2>1. /\ phase["client"] = "connected"
        /\ phase'["client"] = "free_connection"
        /\ phase'["server"] = phase["server"]
        /\ phase' \in [Procs -> ClientPhases \cup ServerPhases]
        /\ phase'["client"] \in ClientPhases
        /\ UNCHANGED <<handles, stuck, orphans, bufMem, kvMem, hasty, link>>
    BY <1>0, <1>4, <1>b DEF Disconnect, Go, EndTypeOK, ClientPhases
  <2> QED BY <1>b, <2>1 DEF EndInv, EndTypeOK, ClientEnd, ServerEnd, Held
<1>5. CASE FreeConnection("client")
  <2>1. /\ phase["client"] = "free_connection"
        /\ phase'["client"] = "free_objects"
        /\ phase'["server"] = phase["server"]
        /\ phase' \in [Procs -> ClientPhases \cup ServerPhases]
        /\ phase'["client"] \in ClientPhases
        /\ link' = IF "connection" \in handles["client"] THEN "none" ELSE link
        /\ UNCHANGED <<bufMem, kvMem, hasty>>
    BY <1>0, <1>5, <1>b DEF FreeConnection, Go, EndTypeOK, ClientPhases
  <2>2. link' = "none"
    BY <1>b, <2>1 DEF ClientEnd
  <2>3. PICK kept \in SUBSET ({"shared_remote", "connection"}
                                \cap handles["client"]) :
          Released("client", "server", {"shared_remote", "connection"}, kept)
    <3>1. {"shared_remote", "connection"} \in SUBSET Handles
      BY DEF Handles
    <3> QED BY <1>0, <1>5, <1>b, <3>1, ReleaseEffect DEF FreeConnection
  <2>4. EndTypeOK'
    BY <1>b, <2>1, <2>2, <2>3 DEF EndTypeOK, Released, Links
  <2>5. ClientEnd'
    BY <1>b, <2>1, <2>2, <2>3
    DEF EndTypeOK, ClientEnd, Released, Held, Handles
  <2>6. ServerEnd'
    BY <1>b, <2>1, <2>2, <2>3 DEF EndTypeOK, ServerEnd, Released, Held
  <2> QED BY <2>4, <2>5, <2>6 DEF EndInv
<1>6. CASE FreeClient
  <2>1. /\ phase["client"] = "free_objects"
        /\ phase'["client"] = "idle"
        /\ phase'["server"] = phase["server"]
        /\ phase' \in [Procs -> ClientPhases \cup ServerPhases]
        /\ phase'["client"] \in ClientPhases
        /\ bufMem' = "freed"
        /\ UNCHANGED <<kvMem, hasty>>
    BY <1>0, <1>6, <1>b DEF FreeClient, FreeObjects, Go, EndTypeOK, ClientPhases
  <2>2. link = "none" /\ link' = "none"
    BY <1>6, <1>b, <2>1 DEF EndTypeOK, ClientEnd, FreeClient, FreeObjects
  <2>3. PICK kept \in SUBSET ({"endpoint", "memory_region", "peer"}
                                \cap handles["client"]) :
          Released("client", "server", {"endpoint", "memory_region", "peer"},
                   kept)
    <3>1. {"endpoint", "memory_region", "peer"} \in SUBSET Handles
      BY DEF Handles
    <3> QED BY <1>0, <1>6, <1>b, <3>1, ReleaseEffect DEF FreeClient, FreeObjects
  <2>4. EndTypeOK'
    BY <1>b, <2>1, <2>2, <2>3 DEF EndTypeOK, Released, Links
  <2>5. ClientEnd'
    BY <1>b, <2>1, <2>2, <2>3
    DEF EndTypeOK, ClientEnd, Released, Held, Handles
  <2>6. ServerEnd'
    BY <1>b, <2>1, <2>2, <2>3 DEF EndTypeOK, ServerEnd, Released, Held
  <2> QED BY <2>4, <2>5, <2>6 DEF EndInv
<1> QED BY <1>1, <1>2, <1>3, <1>4, <1>5, <1>6 DEF ClientEndpoint

\* The steps of the server.
LEMMA ServerEndStep ==
  ASSUME EndInv, ServerEndpoint \/ SetupKvStore
  PROVE  EndInv'
<1>0. "client" \in Procs /\ "server" \in Procs
  BY DEF Procs
<1> DEFINE Base == EndTypeOK /\ ClientEnd /\ ServerEnd
<1>b. Base
  BY DEF EndInv
<1>1. CASE HostServer
  <2>1. /\ phase["server"] = "ready"
        /\ phase'["server"] \in {"hosted", "free_connection"}
        /\ phase'["client"] = phase["client"]
        /\ phase' \in [Procs -> ClientPhases \cup ServerPhases]
        /\ phase'["server"] \in ServerPhases
        /\ UNCHANGED <<bufMem, kvMem, hasty, link>>
    BY <1>0, <1>1, <1>b DEF HostServer, Go, EndTypeOK, ServerPhases
  <2>2. PICK hs \in SUBSET {"peer", "memory_region", "endpoint"},
             kept \in SUBSET {"peer", "memory_region", "endpoint"} :
          /\ kept \in SUBSET hs
          /\ Store("server", hs, kept)
          /\ phase'["server"] = "hosted" =>
               kept = {"peer", "memory_region", "endpoint"}
    BY <1>0, <1>1, <1>b DEF HostServer, Acquire, Go, EndTypeOK
  <2>3. Stored("server", "client", hs, kept)
    BY <1>0, <1>b, <2>2, StoreEffect DEF Handles
  <2>4. EndTypeOK'
    BY <1>b, <2>1, <2>3 DEF EndTypeOK, Stored
  <2>5. ClientEnd'
    BY <1>b, <2>1, <2>3 DEF EndTypeOK, ClientEnd, Stored, Held
  <2>6. ServerEnd'
    BY <1>b, <2>1, <2>2, <2>3 DEF EndTypeOK, ServerEnd, Stored, Held, Handles
  <2> QED BY <2>4, <2>5, <2>6 DEF EndInv
<1>2. CASE AcceptClient
  <2>1. /\ phase["server"] = "hosted"
        /\ phase'["server"] \in {"serving", "not_accepted"}
        /\ phase'["client"] = phase["client"]
        /\ phase' \in [Procs -> ClientPhases \cup ServerPhases]
        /\ phase'["server"] \in ServerPhases
        /\ UNCHANGED <<bufMem, kvMem, hasty>>
    BY <1>0, <1>2, <1>b DEF AcceptClient, Go, EndTypeOK, ServerPhases
  <2>2. CASE /\ link = "requested"
             /\ Store("server", {"connection"}, {"connection"})
             /\ link' \in {"up", "none"}
    <3>1. Stored("server", "client", {"connection"}, {"connection"})
      BY <1>0, <1>b, <2>2, StoreEffect DEF Handles
    <3>2. EndTypeOK'
      BY <1>b, <2>1, <2>2, <3>1 DEF EndTypeOK, Stored, Links
    <3>3. ClientEnd'
      BY <1>b, <2>1, <2>2, <3>1 DEF EndTypeOK, ClientEnd, Stored, Held
    <3>4. ServerEnd'
      BY <1>b, <2>1, <2>2, <3>1 DEF EndTypeOK, ServerEnd, Stored, Held, Handles
    <3> QED BY <3>2, <3>3, <3>4 DEF EndInv
  <2>3. CASE UNCHANGED <<handles, stuck, orphans>> /\ link' \in {link, "none"}
    BY <1>b, <2>1, <2>3
    DEF EndInv, EndTypeOK, ClientEnd, ServerEnd, Held, Handles, Links
  <2> QED BY <1>2, <2>2, <2>3 DEF AcceptClient, Acquire
<1>3. CASE Shutdown
  <2>1. /\ phase["server"] \in {"serving", "not_accepted", "ready"}
        /\ phase'["server"] = "free_connection"
        /\ phase'["client"] = phase["client"]
        /\ phase' \in [Procs -> ClientPhases \cup ServerPhases]
        /\ phase'["server"] \in ServerPhases
        /\ UNCHANGED <<handles, stuck, orphans, bufMem, kvMem, hasty, link>>
    BY <1>0, <1>3, <1>b DEF Shutdown, Go, EndTypeOK, ServerPhases
  <2> QED BY <1>b, <2>1 DEF EndInv, EndTypeOK, ClientEnd, ServerEnd, Held
<1>4. CASE FreeConnection("server")
  <2>1. /\ phase["server"] = "free_connection"
        /\ phase'["server"] = "free_objects"
        /\ phase'["client"] = phase["client"]
        /\ phase' \in [Procs -> ClientPhases \cup ServerPhases]
        /\ phase'["server"] \in ServerPhases
        /\ link' = IF "connection" \in handles["server"] THEN "none" ELSE link
        /\ UNCHANGED <<bufMem, kvMem, hasty>>
    BY <1>0, <1>4, <1>b DEF FreeConnection, Go, EndTypeOK, ServerPhases
  <2>2. link' # "up" /\ link' \in {link, "none"}
    BY <1>b, <2>1 DEF EndTypeOK, ServerEnd
  <2>3. PICK kept \in SUBSET ({"shared_remote", "connection"}
                                \cap handles["server"]) :
          Released("server", "client", {"shared_remote", "connection"}, kept)
    <3>1. {"shared_remote", "connection"} \in SUBSET Handles
      BY DEF Handles
    <3> QED BY <1>0, <1>4, <1>b, <3>1, ReleaseEffect DEF FreeConnection
  <2>4. EndTypeOK'
    BY <1>b, <2>1, <2>2, <2>3 DEF EndTypeOK, Released, Links
  <2>5. ClientEnd'
    BY <1>b, <2>1, <2>2, <2>3 DEF EndTypeOK, ClientEnd, Released, Held
  <2>6. ServerEnd'
    BY <1>b, <2>1, <2>2, <2>3
    DEF EndTypeOK, ServerEnd, Released, Held, Handles
  <2> QED BY <2>4, <2>5, <2>6 DEF EndInv
<1>5. CASE FreeServer
  <2>1. /\ phase["server"] = "free_objects"
        /\ phase'["server"] = IF kvMem = "freed" THEN "done" ELSE "ready"
        /\ phase'["client"] = phase["client"]
        /\ phase' \in [Procs -> ClientPhases \cup ServerPhases]
        /\ phase'["server"] \in ServerPhases
        /\ link' \in {link, "none"}
        /\ UNCHANGED <<bufMem, kvMem, hasty>>
    BY <1>0, <1>5, <1>b DEF FreeServer, FreeObjects, Go, EndTypeOK, ServerPhases
  <2>2. link' # "up"
    BY <1>b, <2>1 DEF EndTypeOK, ServerEnd
  <2>3. PICK kept \in SUBSET ({"endpoint", "memory_region", "peer"}
                                \cap handles["server"]) :
          Released("server", "client", {"endpoint", "memory_region", "peer"},
                   kept)
    <3>1. {"endpoint", "memory_region", "peer"} \in SUBSET Handles
      BY DEF Handles
    <3> QED BY <1>0, <1>5, <1>b, <3>1, ReleaseEffect DEF FreeServer, FreeObjects
  <2>4. EndTypeOK'
    BY <1>b, <2>1, <2>2, <2>3 DEF EndTypeOK, Released, Links
  <2>5. ClientEnd'
    BY <1>b, <2>1, <2>2, <2>3 DEF EndTypeOK, ClientEnd, Released, Held
  <2>6. ServerEnd'
    BY <1>b, <2>1, <2>2, <2>3
    DEF EndTypeOK, ServerEnd, Released, Held, Handles
  <2> QED BY <2>4, <2>5, <2>6 DEF EndInv
<1>6. CASE FreeKvStore
  <2>1. /\ phase["server"] = "ready"
        /\ phase'["server"] = "done"
        /\ phase'["client"] = phase["client"]
        /\ phase' \in [Procs -> ClientPhases \cup ServerPhases]
        /\ phase'["server"] \in ServerPhases
        /\ kvMem' = "freed"
        /\ UNCHANGED <<handles, stuck, orphans, bufMem, hasty, link>>
    BY <1>0, <1>6, <1>b DEF FreeKvStore, Go, EndTypeOK, ServerPhases
  <2> QED BY <1>b, <2>1 DEF EndInv, EndTypeOK, ClientEnd, ServerEnd, Held
<1>7. CASE SetupKvStore
  <2>1. /\ phase["server"] = "start"
        /\ phase'["server"] = "ready"
        /\ phase'["client"] = phase["client"]
        /\ phase' \in [Procs -> ClientPhases \cup ServerPhases]
        /\ phase'["server"] \in ServerPhases
        /\ kvMem' = "allocated"
        /\ UNCHANGED <<handles, stuck, orphans, bufMem, hasty, link>>
    BY <1>0, <1>7, <1>b DEF SetupKvStore, Go, EndTypeOK, ServerPhases
  <2> QED BY <1>b, <2>1 DEF EndInv, EndTypeOK, ClientEnd, ServerEnd, Held
<1>8. CASE Cleanup
  <2>1. /\ phase["server"] \in {"serving", "not_accepted"}
        /\ phase'["server"] = "free_connection"
        /\ phase'["client"] = phase["client"]
        /\ phase' \in [Procs -> ClientPhases \cup ServerPhases]
        /\ phase'["server"] \in ServerPhases
        /\ kvMem' = "freed"
        /\ UNCHANGED <<handles, stuck, orphans, bufMem, link>>
    BY <1>0, <1>8, <1>b DEF Cleanup, TestCleanupEnc, Go, EndTypeOK, ServerPhases
  <2>2. hasty' \in BOOLEAN /\ (link = "up" => hasty')
    BY <1>8, <1>b DEF Cleanup, TestCleanupEnc, DisconnectSeen, EndTypeOK
  <2>3. EndTypeOK'
    BY <1>b, <2>1, <2>2 DEF EndTypeOK
  <2>4. ClientEnd'
    BY <1>b, <2>1 DEF ClientEnd, Held
  <2>5. ServerEnd'
    BY <1>b, <2>1, <2>2 DEF EndTypeOK, ServerEnd, Held
  <2> QED BY <2>3, <2>4, <2>5 DEF EndInv
<1> QED BY <1>1, <1>2, <1>3, <1>4, <1>5, <1>6, <1>7, <1>8 DEF ServerEndpoint

\* Every step keeps the invariant; the calls on the store do not touch the ends.
LEMMA EndStep == EndInv /\ [Next]_vars => EndInv'
<1> SUFFICES ASSUME EndInv, [Next]_vars PROVE EndInv'
  OBVIOUS
<1>1. CASE UNCHANGED <<endpointVars, link>>
  BY <1>1 DEF EndInv, EndTypeOK, ClientEnd, ServerEnd, Held, endpointVars
<1>2. CASE LinkLost
  BY <1>2 DEF LinkLost, EndInv, EndTypeOK, ClientEnd, ServerEnd, Held,
              endpointVars, Links
<1>3. CASE ClientEndpoint \/ FreeConnection("client") \/ FreeClient
  BY <1>3, ClientEndStep
<1>4. CASE ServerEndpoint \/ SetupKvStore
  BY <1>4, ServerEndStep
<1> QED
  BY <1>1, <1>2, <1>3, <1>4
  DEF Next, vars, Put, Get, Completion, NicTransfer, NicComplete, SPut,
      SPutSecond, SGet, SGetSecond, Setup, ClientHangUp, ClientFree,
      EndpointStep, Network, RegionReused, ClientCall, ServerCall, StoreStep

-------------------------------------------------------------------------------
\* For every number of keys and puts, for both server programs and whatever
\* fails: while RDMA operations can take effect, the memory on both sides is
\* registered and allocated, except that a test server whose accept_client or
\* wait_for_disconnect_event has failed may have freed the shared region.
THEOREM LiveMemory == Spec => []LiveUnlessHasty
<1>1. EndInv => LiveUnlessHasty
  BY DEF EndInv, EndTypeOK, ClientEnd, ServerEnd, LiveUnlessHasty, Registered,
         Procs
<1> QED BY <1>1, EndInit, EndStep, PTL DEF Spec

\* free_endpoint_data and free_client, called after any failed or successful
\* set-up, release what was acquired, once.
THEOREM NothingLeftBehind == Spec => []ReleasedOnce
<1>1. EndInv => ReleasedOnce
  BY DEF EndInv, EndTypeOK, ClientEnd, ServerEnd, ReleasedOnce, Held, Procs
<1> QED BY <1>1, EndInit, EndStep, PTL DEF Spec
===============================================================================
