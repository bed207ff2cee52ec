--------------------------- MODULE OneSidedEndpoint ---------------------------
(***************************************************************************)
(* Setting up and releasing the two ends of a one-sided connection:        *)
(* rdma_client_connect and rdma_disconnect at the client, setup_kv_store,  *)
(* host_server, accept_client and shutdown_rdma_server at the server, in   *)
(* the order in which the repository's two server programs call them: the  *)
(* command line server (cli_test) and the test server (tests).  Every      *)
(* librpma call may fail.  What a side does without the other being able   *)
(* to notice is one step.                                                  *)
(*                                                                         *)
(* handles[p] are the pointers of p's ep_data (and shared_remote) that are *)
(* not NULL; stuck[p] are those whose object could not be deleted.  Any    *)
(* other pointer that is overwritten while it is not NULL leaves an orphan *)
(* behind, an object nobody has tried to release.                          *)
(***************************************************************************)
EXTENDS OneSidedCommon

CONSTANT ReleaseMayFail  \* may the librpma calls that delete objects fail?

ASSUME EndpointAssumption == ReleaseMayFail \in BOOLEAN

VARIABLES
  phase,     \* where each side stands in setting up or releasing
  handles, stuck,
  orphans,   \* the kinds of objects of which one was orphaned
  bufMem,    \* the memory local_buf points to
  kvMem,     \* the memory of the shared region
  hasty      \* history: has the server freed the region without having heard
             \* that its client is gone?

endpointVars == <<phase, handles, stuck, orphans, bufMem, kvMem, hasty>>

Handles == {"peer", "endpoint", "memory_region", "connection", "shared_remote"}

\* free_endpoint_data is in "free_connection", then in "free_objects".
ClientPhases == {"idle", "request", "establish", "connected",
                 "free_connection", "free_objects"}
\* accept_client leads to "serving", or to "not_accepted" if it fails.
ServerPhases == {"start", "ready", "hosted", "serving", "not_accepted",
                 "free_connection", "free_objects", "done"}

Go(p, from, to) ==
  /\ phase[p] = from
  /\ phase' = [phase EXCEPT ![p] = to]

\* New objects are stored in the pointers hs; those not in kept are deleted
\* again at once.
Store(p, hs, kept) ==
  /\ handles' = [handles EXCEPT ![p] = (@ \ hs) \cup kept]
  /\ stuck' = [stuck EXCEPT ![p] = @ \ hs]
  /\ orphans' = [orphans EXCEPT ![p] =
                   @ \cup ((hs \cap handles[p]) \ stuck[p])]

Acquire(p, hs) == Store(p, hs, hs)

\* The pointers hs, as far as they are set, are released one by one; one whose
\* object cannot be deleted keeps its value.
Release(p, hs) ==
  /\ \E kept \in IF ReleaseMayFail THEN SUBSET (hs \cap handles[p]) ELSE {{}} :
       /\ handles' = [handles EXCEPT ![p] = (@ \ hs) \cup kept]
       /\ stuck' = [stuck EXCEPT ![p] = (@ \ hs) \cup kept]
  /\ UNCHANGED orphans

-------------------------------------------------------------------------------
(***************************************************************************)
(* rdma_client_connect                                                     *)
(***************************************************************************)
\* Seeded fault: a failure of the set-up ends in rdma_disconnect as well.
ConnectSetupDisconnects ==
  /\ \/ /\ Go("client", "idle", "request")
        /\ Acquire("client", {"peer", "memory_region"})
        /\ bufMem' = "allocated"
     \/ /\ Go("client", "idle", "free_connection")
        /\ Acquire("client", {"peer"})
        /\ bufMem' \in {bufMem, "null"}
  /\ UNCHANGED <<kvMem, hasty, link>>
\* initialize_peer, setup_encryption and setup_local_buffer.  A failure of the
\* last two returns at once: of setup_encryption without touching local_buf, of
\* the allocation or of rpma_mr_reg with local_buf cleared.
ConnectSetup ==
  /\ \/ /\ Go("client", "idle", "request")
        /\ Acquire("client", {"peer", "memory_region"})
        /\ bufMem' = "allocated"
     \/ /\ Go("client", "idle", "idle")
        /\ Acquire("client", {"peer"})
        /\ bufMem' \in {bufMem, "null"}
  /\ UNCHANGED <<kvMem, hasty, link>>

\* rpma_conn_req_new and rpma_conn_req_connect.  From here on a failure ends in
\* rdma_disconnect.
ConnectRequest ==
  /\ \/ /\ Go("client", "request", "establish")
        /\ Acquire("client", {"connection"})
        /\ link' = IF "endpoint" \in handles["server"] THEN "requested"
                                                       ELSE link
     \/ /\ Go("client", "request", "free_connection")
        /\ UNCHANGED <<handles, stuck, orphans, link>>
  /\ UNCHANGED <<bufMem, kvMem, hasty>>

\* The next event on the connection is RPMA_CONN_ESTABLISHED.
Established == link = "up"

\* establish_connection, followed by the private data, the remote memory region,
\* and its size.
ConnectEstablish ==
  /\ \/ /\ Go("client", "establish", "connected")
        /\ Established
        /\ Acquire("client", {"shared_remote"})
     \/ /\ Go("client", "establish", "free_connection")
        /\ \/ Established /\ Acquire("client", {"shared_remote"})
           \/ UNCHANGED <<handles, stuck, orphans>>
  /\ UNCHANGED <<bufMem, kvMem, hasty, link>>

-------------------------------------------------------------------------------
(***************************************************************************)
(* rdma_disconnect and free_endpoint_data                                  *)
(***************************************************************************)
\* The application calls rdma_disconnect.
Disconnect ==
  /\ Go("client", "connected", "free_connection")
  /\ UNCHANGED <<handles, stuck, orphans, bufMem, kvMem, hasty,
                 link>>

\* The connection is deleted; it is over even if that reports an error.  (The
\* client has deleted shared_remote just before.)
FreeConnection(p) ==
  /\ Go(p, "free_connection", "free_objects")
  /\ Release(p, {"shared_remote", "connection"})
  /\ link' = IF "connection" \in handles[p] THEN "none" ELSE link
  /\ UNCHANGED <<bufMem, kvMem, hasty>>

\* The endpoint, the memory region and the peer.  A request for a connection
\* that was not accepted dies with the endpoint.
FreeObjects(p, next) ==
  /\ Go(p, "free_objects", next)
  /\ Release(p, {"endpoint", "memory_region", "peer"})
  /\ link' = IF link = "requested" /\ "endpoint" \in handles[p]
             THEN "none" ELSE link
  /\ UNCHANGED <<kvMem, hasty>>

\* free_client frees local_buf last, and leaves the pointer as it is.
FreeClient ==
  /\ FreeObjects("client", "idle")
  /\ bufMem' = "freed"

\* A server that has freed its region has nothing left to do.
FreeServer ==
  /\ FreeObjects("server", IF kvMem = "freed" THEN "done" ELSE "ready")
  /\ UNCHANGED bufMem

-------------------------------------------------------------------------------
(***************************************************************************)
(* The server                                                              *)
(***************************************************************************)
\* setup_kv_store allocates the region; if it fails it is freed again.
SetupKvStore ==
  /\ Go("server", "start", "ready")
  /\ kvMem' = "allocated"
  /\ UNCHANGED <<handles, stuck, orphans, bufMem, hasty, link>>

\* host_server: initialize_peer, register_shared_memory_region (a region whose
\* descriptor cannot be obtained is deregistered again), setup_encryption and
\* rpma_ep_listen.  Failures after the first call end in free_endpoint_data.
HostServer ==
  /\ \/ /\ Go("server", "ready", "hosted")
        /\ Acquire("server", {"peer", "memory_region", "endpoint"})
     \/ /\ Go("server", "ready", "free_connection")
        /\ \/ Acquire("server", {"peer"})
           \/ Acquire("server", {"peer", "memory_region"})
           \/ Store("server", {"peer", "memory_region"}, {"peer"})
  /\ UNCHANGED <<bufMem, kvMem, hasty, link>>

\* accept_client.  It fails without a connection, or with one of which the
\* server could not get the RPMA_CONN_ESTABLISHED event.
AcceptClient ==
  /\ \/ /\ \E to \in {"serving", "not_accepted"} : Go("server", "hosted", to)
        /\ link = "requested"
        /\ Acquire("server", {"connection"})
        /\ link' \in {"up", "none"}
     \/ /\ Go("server", "hosted", "not_accepted")
        /\ UNCHANGED <<handles, stuck, orphans>>
        /\ link' \in {link, "none"}
  /\ UNCHANGED <<bufMem, kvMem, hasty>>

\* shutdown_rdma_server, with the region still allocated.  The command line
\* server calls it when its user has finished, also if accept_client or
\* host_server has failed, the test server (test_cleanup_plain) after a failed
\* accept_client, or after wait_for_disconnect_event, however that has ended.
Shutdown ==
  /\ \E from \in {"serving", "not_accepted", "ready"} :
       Go("server", from, "free_connection")
  /\ UNCHANGED <<handles, stuck, orphans, bufMem, kvMem, hasty, link>>

\* Seeded fault: every event is taken for the disconnection.
DisconnectSeenAnyEvent == TRUE
\* wait_for_disconnect_event returns 0: the next event is RPMA_CONN_CLOSED.
DisconnectSeen == link # "up"

\* test_cleanup_enc, which frees or unmaps the region before it calls
\* shutdown_rdma_server.  The test server gets there when
\* wait_for_disconnect_event has seen RPMA_CONN_CLOSED, and just as well when
\* that has failed or has seen another event, or when accept_client has failed.
TestCleanupEnc ==
  /\ \/ /\ Go("server", "serving", "free_connection")
        /\ \/ DisconnectSeen /\ UNCHANGED hasty
           \/ hasty' = TRUE
     \/ /\ Go("server", "not_accepted", "free_connection")
        /\ hasty' = TRUE
  /\ kvMem' = "freed"
  /\ UNCHANGED <<handles, stuck, orphans, bufMem, link>>

\* The command line server frees the region after shutdown_rdma_server, the
\* test server (test_init_enc) after a failed host_server.
FreeKvStore ==
  /\ Go("server", "ready", "done")
  /\ kvMem' = "freed"
  /\ UNCHANGED <<handles, stuck, orphans, bufMem, hasty, link>>

-------------------------------------------------------------------------------
\* The network fails.
LinkLost ==
  /\ link = "up"
  /\ link' = "none"
  /\ UNCHANGED endpointVars

EndpointInit ==
  /\ phase = [p \in Procs |-> IF p = "client" THEN "idle" ELSE "start"]
  /\ handles = [p \in Procs |-> {}]
  /\ orphans = [p \in Procs |-> {}]
  /\ stuck = [p \in Procs |-> {}]
  /\ bufMem = "null"
  /\ kvMem = "none"
  /\ hasty = FALSE
  /\ link = "none"
===============================================================================
