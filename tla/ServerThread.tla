----------------------------- MODULE ServerThread -----------------------------
(***************************************************************************)
(* One server thread of the two-sided server (ServerThread.cpp and the     *)
(* request handling of Server.cpp): the thread that serves one client.     *)
(*                                                                         *)
(* eRPC calls req_handler once for every request that reaches the thread.  *)
(* The handler runs to completion, so it is one action.  The KV-store      *)
(* behind kv_get, kv_put and kv_delete is supplied by the application: a   *)
(* map from keys to values, whose kv_put may fail.                         *)
(***************************************************************************)
EXTENDS ClientServerCommon, Sequences

VARIABLES
  nextSeq,        \* ServerThread::next_seq, 0 until a request has arrived
  stayConnected,  \* ServerThread::stay_connected
  rpcHost,        \* "up", or "deleted" when connect_and_work has returned
  store,          \* the KV-store; NoTag where there is no entry
  execs,          \* history: execs[t] lists the executions of call t
  toClient        \* responses enqueued at eRPC, with the request they answer

serverVars == <<nextSeq, stayConnected, rpcHost, store, execs, toClient>>

-------------------------------------------------------------------------------
(***************************************************************************)
(* Sequence numbers                                                        *)
(***************************************************************************)
\* Seeded fault: the threshold counts sequence numbers, not requests.
WithinThresholdHalved(seq) == AbsDiff(seq, nextSeq) <= SeqThreshold
\* A client uses every second number, hence twice the threshold.
WithinThreshold(seq) == AbsDiff(seq, nextSeq) <= 2 * SeqThreshold

\* is_seq_valid: the first request sets the number, later ones must be near
\* the expected one.  (The handler overwrites next_seq again, so the value
\* is_seq_valid stores in it is never seen.)
IsSeqValid(id, seq) ==
  /\ id = ClientId
  /\ nextSeq = 0 \/ WithinThreshold(seq)

\* Seeded fault: the expected number is not advanced past the response.
SeqAfterResponse(seq) == NextSeq(seq)
\* get_next_seq expects the number after the response's number next.
SeqAfter(seq) == NextSeq(NextSeq(seq))

-------------------------------------------------------------------------------
(***************************************************************************)
(* send_encrypted_response: the response reuses the request's header.  If  *)
(* it is too long, or encryption fails, nothing is sent at all.            *)
(***************************************************************************)
Respond(o, m, op, val) ==
  /\ nextSeq' = SeqAfter(m.seq)
  /\ \E sent \in CryptoOutcomes :
       toClient' = IF sent
                   THEN toClient \cup
                          {[o |-> o, msg |-> [id |-> m.id, op |-> op,
                                              seq |-> NextSeq(m.seq),
                                              val |-> val]]}
                   ELSE toClient

\* The KV-store has executed call t, with outcome ok and value val.
Executed(t, ok, val) ==
  execs' = [execs EXCEPT ![t] = Append(@, [ok |-> ok, val |-> val])]

SendResponseGet(o, m) ==
  LET val == store[m.key]
      ok  == val # NoTag
  IN  /\ m.op = "GET"
      /\ Executed(m.tag, ok, val)
      /\ Respond(o, m, IF ok THEN "GET" ELSE "ERR", val)
      /\ UNCHANGED store

\* Seeded fault: the result of kv_put is ignored.
SendResponsePutUnchecked(o, m) ==
  /\ m.op = "PUT"
  /\ \E ok \in BOOLEAN :
       /\ store' = IF ok THEN [store EXCEPT ![m.key] = m.val] ELSE store
       /\ Executed(m.tag, ok, NoTag)
       /\ Respond(o, m, "PUT", NoTag)
SendResponsePut(o, m) ==
  /\ m.op = "PUT"
  /\ \E ok \in BOOLEAN :
       /\ store' = IF ok THEN [store EXCEPT ![m.key] = m.val] ELSE store
       /\ Executed(m.tag, ok, NoTag)
       /\ Respond(o, m, IF ok THEN "PUT" ELSE "ERR", NoTag)

SendResponseDelete(o, m) ==
  LET ok == store[m.key] # NoTag
  IN  /\ m.op = "DELETE"
      /\ store' = [store EXCEPT ![m.key] = NoTag]
      /\ Executed(m.tag, ok, NoTag)
      /\ Respond(o, m, IF ok THEN "DELETE" ELSE "ERR", NoTag)

\* Seeded fault: req_handler answers a disconnect request without terminate.
SendResponseDisconnectOnly(o, m) ==
  /\ m.op = "ERR"
  /\ Respond(o, m, "ERR", NoTag)
  /\ UNCHANGED <<stayConnected, store, execs>>
\* A disconnect request is answered and ends the event loop; its sequence
\* number is not checked.
SendResponseDisconnect(o, m) ==
  /\ m.op = "ERR"
  /\ Respond(o, m, "ERR", NoTag)
  /\ stayConnected' = FALSE
  /\ UNCHANGED <<store, execs>>

DropRequest == UNCHANGED <<nextSeq, stayConnected, store, execs, toClient>>

\* The requests the KV-store gets to see.
Accepted(m) == m.op # "ERR" /\ IsSeqValid(m.id, m.seq)

(***************************************************************************)
(* req_handler for the message m that eRPC delivers for request o.         *)
(***************************************************************************)
ReqHandler(o, m) ==
  /\ rpcHost = "up"
  /\ \/ CryptoMayFail /\ DropRequest    \* decrypt_message fails
     \/ SendResponseDisconnect(o, m)
     \/ m.op # "ERR" /\ ~Accepted(m) /\ DropRequest
     \/ /\ Accepted(m)
        /\ \/ SendResponseGet(o, m)
           \/ SendResponsePut(o, m)
           \/ SendResponseDelete(o, m)
        /\ UNCHANGED stayConnected
  /\ UNCHANGED rpcHost

\* terminate, called by close_connection(true) from another thread.
Terminate ==
  /\ rpcHost = "up"
  /\ stayConnected
  /\ stayConnected' = FALSE
  /\ UNCHANGED <<nextSeq, rpcHost, store, execs, toClient>>

\* connect_and_work leaves its loop, runs the event loop MAX_PENDING_REQUESTS
\* times more (requests are still handled then) and deletes the rpc object.
StopWork ==
  /\ rpcHost = "up"
  /\ ~stayConnected
  /\ rpcHost' = "deleted"
  /\ UNCHANGED <<nextSeq, stayConnected, store, execs, toClient>>

-------------------------------------------------------------------------------
ServerInit ==
  /\ nextSeq = 0
  /\ stayConnected = TRUE
  /\ rpcHost = "up"
  /\ store = [k \in Keys |-> NoTag]
  /\ execs = [t \in Tags |-> <<>>]
  /\ toClient = {}
===============================================================================
