------------------------------- MODULE OneSided -------------------------------
(***************************************************************************)
(* A client and a server of the one-sided KV-store: the store's operations *)
(* run between the setting up and the releasing of the two ends.           *)
(***************************************************************************)
EXTENDS OneSidedStore, OneSidedEndpoint

vars == <<storeVars, endpointVars, link>>

-------------------------------------------------------------------------------
\* Calls of the client's application, which come after a successful connect.
ClientCall(A) ==
  /\ phase["client"] = "connected"
  /\ A
  /\ UNCHANGED <<endpointVars, link>>

\* Calls of the server's application, on a region that is hosted.
ServerCall(A) ==
  /\ phase["server"] \in {"hosted", "serving", "not_accepted"}
  /\ A
  /\ UNCHANGED <<endpointVars, link>>

StoreStep(A) == A /\ UNCHANGED <<endpointVars, link>>

\* A thread that is inside get or put does not set up or release anything.
EndpointStep(p, A) == Idle(p) /\ A /\ UNCHANGED storeVars

Put         == ClientCall(\E k \in Keys : RdmaPut(k))
Get         == ClientCall(\E k \in Keys : RdmaGet(k))
Completion(fetched) == StoreStep(FetchCompletion(fetched))
NicTransfer == StoreStep(Transfer)
NicComplete == StoreStep(Complete)
SPut        == ServerCall(\E k \in Keys : ServerPut(k))
SPutSecond  == StoreStep(ServerWriteSecond)
SGet        == ServerCall(\E k \in Keys : ServerGet(k))
SGetSecond  == StoreStep(ServerReadSecond)

\* setup_kv_store also fills the region, rpma_conn_delete discards the client's
\* queues, and free the content of its buffer.
Setup        == SetupKvStore /\ FillRegion
ClientHangUp == Idle("client") /\ FreeConnection("client") /\ DropQueues
ClientFree   == Idle("client") /\ FreeClient /\ LoseLocalBuf

\* Memory that was freed may be written by anyone; it matters while there is a
\* connection through which the client can access it.
RegionReused ==
  /\ kvMem = "freed" /\ link = "up"
  /\ StoreStep(SpoilRegion)

\* The test server cleans up this way in its tests of the encrypted store.
Cleanup == encrypted /\ TestCleanupEnc

ClientEndpoint ==
  \/ ConnectSetup
  \/ ConnectRequest
  \/ ConnectEstablish
  \/ Disconnect

ServerEndpoint ==
  \/ HostServer
  \/ AcceptClient
  \/ Shutdown
  \/ Cleanup
  \/ FreeConnection("server")
  \/ FreeServer
  \/ FreeKvStore

Network == LinkLost /\ UNCHANGED storeVars

Init == StoreInit /\ EndpointInit

Next ==
  \/ Put
  \/ Get
  \/ \E fetched \in Outcomes(WaitMayFail) : Completion(fetched)
  \/ NicTransfer
  \/ NicComplete
  \/ SPut
  \/ SPutSecond
  \/ SGet
  \/ SGetSecond
  \/ Setup
  \/ ClientHangUp
  \/ ClientFree
  \/ RegionReused
  \/ EndpointStep("client", ClientEndpoint)
  \/ EndpointStep("server", ServerEndpoint)
  \/ Network

Spec == Init /\ [][Next]_vars

(***************************************************************************)
(* Fairness: a connection works off what is posted, with success or with   *)
(* an error, and a thread that waits for a completion gets it once it is   *)
(* there.                                                                  *)
(***************************************************************************)
Fairness ==
  /\ WF_vars(NicTransfer)
  /\ WF_vars(NicComplete)
  /\ WF_vars(Completion(TRUE))

FairSpec == Spec /\ Fairness

-------------------------------------------------------------------------------
(***************************************************************************)
(* Properties                                                              *)
(***************************************************************************)
\* Type invariant.
TypeOK ==
  /\ link \in Links
  /\ encrypted \in BOOLEAN
  /\ mem \in [Keys -> Blocks]
  /\ localBuf \in Blocks
  /\ readBuf \in Entries
  /\ seqNo \in [Procs -> [Keys -> Nat]]
  /\ sendQ \in Seq([op : {"GET", "PUT"}, key : Keys])
  /\ cq \in Seq([op : {"GET", "PUT"}, ok : BOOLEAN])
  /\ moved \subseteq Parts
  /\ call \in [Procs -> Calls]
  /\ log \in Seq([by : Procs, key : Keys])
  /\ lastPut \in [Procs -> [Keys -> Nat]]
  /\ result \in [Procs -> Calls]
  /\ phase \in [Procs -> ClientPhases \cup ServerPhases]
  /\ handles \in [Procs -> SUBSET Handles]
  /\ orphans \in [Procs -> SUBSET Handles]
  /\ stuck \in [Procs -> SUBSET Handles]
  /\ bufMem \in {"null", "allocated", "freed"}
  /\ kvMem \in {"none", "allocated", "freed"}
  /\ hasty \in BOOLEAN

\* p's last call was a get of key k, and has returned v.
Got(p, k, v) == result[p] = [op |-> "GET", key |-> k, val |-> v]

\* Encrypted, a get never mixes up puts: once the client has put a value under
\* a key its gets return the value of its last successful put or fail, however
\* reads, writes and the server's puts overlapped, and whatever failed puts
\* left in the block; before that they return a value the server wrote.  The
\* server's gets return the server's own last value or fail.
GetReturnsOwnPut ==
  encrypted =>
    \A k \in Keys, v \in 0..MaxPuts :
      /\ Got("server", k, v) => v = lastPut["server"][k]
      /\ Got("client", k, v) =>
           IF lastPut["client"][k] # 0 THEN v = lastPut["client"][k]
           ELSE v = 0 \/ log[v] = [by |-> "server", key |-> k]

\* "Check if the value has indeed arrived at the server": when rdma_put has
\* returned 0 for a key the server itself does not put, the whole block holds
\* that value under the client's new sequence number, for as long as the server
\* keeps the region.
PutArrived ==
  LET r == result["client"]
  IN  r.op = "PUT" /\ kvMem # "freed" =>
        \/ \E i \in DOMAIN log : log[i] = [by |-> "server", key |-> r.key]
        \/ mem[r.key] = Whole([key |-> r.key, seq |-> seqNo["client"][r.key],
                               val |-> r.val])

\* Both sides have registered their memory, and the client's is allocated.
Registered ==
  /\ bufMem = "allocated"
  /\ \A p \in Procs : {"peer", "memory_region"} \subseteq handles[p]

\* While RDMA operations can take effect neither side deregisters or frees what
\* they access before its connection is gone, whatever failed before, but for
\* the test server's shared region, which test_cleanup_enc frees first: under
\* a connected client, but only after accept_client or
\* wait_for_disconnect_event has failed.  The region is never freed under the
\* client of the command line server, or of a test server that has seen
\* RPMA_CONN_CLOSED.
LiveUnlessHasty ==
  /\ link = "up" => Registered
  /\ link = "up" /\ ~hasty => kvMem = "allocated"

\* Nothing is released twice or left behind: rdma_disconnect frees local_buf
\* once, although the pointer is not cleared afterwards; a server that is not
\* hosting holds nothing but what could not be deleted; and a client that is
\* not connected holds, and overwrites, at most the peer that the early returns
\* of rdma_client_connect forget.
ReleasedOnce ==
  /\ phase["client"] = "free_objects" => bufMem # "freed"
  /\ phase["client"] = "idle" =>
       /\ bufMem # "allocated"
       /\ handles["client"] \subseteq {"peer"} \cup stuck["client"]
  /\ phase["server"] \in {"ready", "done"} =>
       handles["server"] \subseteq stuck["server"]
  /\ orphans["client"] \subseteq {"peer"}
  /\ orphans["server"] = {}

\* rdma_put always returns.
PutsReturn == call["client"].op = "PUT" ~> Idle("client")

\* "returns a pointer to the buffer on success and NULL otherwise": the read of
\* rdma_get returns.
GetsReturn == call["client"].op = "GET" ~> Idle("client")
===============================================================================
