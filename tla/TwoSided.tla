------------------------------- MODULE TwoSided -------------------------------
(***************************************************************************)
(* One client and the server thread that serves it, joined by eRPC.        *)
(*                                                                         *)
(* eRPC is external.  From how the code uses it: every enqueued request    *)
(* reaches req_handler at most once, and its continuation runs at most     *)
(* once, when the response arrives.  Lost packets are retransmitted by the *)
(* client, so requests and responses overtake each other; a request is     *)
(* lost for good only when the session or the server's rpc object is gone. *)
(***************************************************************************)
EXTENDS Client, ServerThread

CONSTANT MaxOvertaken  \* bound: how far requests overtake each other; 0 if
                       \* they reach the server in the order they are sent

ASSUME OvertakingAssumption == MaxOvertaken \in Nat

VARIABLE toServer  \* requests that may still reach the server

vars == <<clientVars, serverVars, toServer>>

-------------------------------------------------------------------------------
\* The client encrypted this message into the request buffer, and it stays
\* there while the buffer belongs to eRPC.  (A buffer that is reused too early
\* may be retransmitted with its new content: see Faulty.)
WireMessage(o) ==
  [id |-> ClientId, seq |-> o.seq, op |-> o.op, key |-> o.key,
   val |-> IF o.op = "PUT" THEN o.tag ELSE NoTag, tag |-> o.tag]

\* How far request o is behind the client's current sequence number.
Age(o) == (currentSeq - o.seq) % SeqMod

\* Request o may arrive before requests sent up to MaxOvertaken before it.
MayArrive(o) ==
  /\ o \in toServer
  /\ \A p \in toServer : Age(p) <= Age(o) + 2 * MaxOvertaken

\* A step of the client's thread; what it enqueues is on its way.
ClientStep(A) ==
  /\ A
  /\ toServer' = toServer \cup (outstanding' \ outstanding)
  /\ UNCHANGED serverVars

\* Request o arrives and req_handler runs.
Serve(o) ==
  /\ MayArrive(o)
  /\ ReqHandler(o, WireMessage(o))
  /\ toServer' = toServer \ {o}
  /\ UNCHANGED clientVars

\* The response r arrives, and the continuation of its request runs, in which
\* its decryption may fail; after destroy_session it is dropped.
ReceiveResponse(r) ==
  /\ r \in toClient
  /\ toClient' = toClient \ {r}
  /\ \/ DecryptContFunc(r.o, r.msg)
     \/ CryptoMayFail /\ DecryptContFunc(r.o, Undecryptable)
     \/ r.o \notin outstanding /\ UNCHANGED clientVars
  /\ UNCHANGED <<nextSeq, stayConnected, rpcHost, store, execs, toServer>>

ForceTerminate == Terminate /\ UNCHANGED <<clientVars, toServer>>
WorkEnds       == StopWork /\ UNCHANGED <<clientVars, toServer>>

\* Without a session nobody retransmits a request.
LoseRequest(o) ==
  /\ o \in toServer
  /\ session = "destroyed"
  /\ toServer' = toServer \ {o}
  /\ UNCHANGED <<clientVars, serverVars>>

\* Without the server's rpc object nobody retransmits a response.
LoseResponse(r) ==
  /\ r \in toClient
  /\ rpcHost = "deleted"
  /\ toClient' = toClient \ {r}
  /\ UNCHANGED <<clientVars, nextSeq, stayConnected, rpcHost, store, execs,
                 toServer>>

-------------------------------------------------------------------------------
Init == ClientInit /\ ServerInit /\ toServer = {}

Next ==
  \/ ClientStep(Connect)
  \/ \E op \in AppOps, key \in Keys : ClientStep(Call(op, key))
  \/ \E op \in AppOps : ClientStep(CallWithoutKey(op))
  \/ ClientStep(SendRequest)
  \/ ClientStep(PrepareDisconnect)
  \/ ClientStep(PrepareDisconnectLoop)
  \/ ClientStep(PrepareDisconnectSend)
  \/ ClientStep(Disconnect)
  \/ ClientStep(DisconnectSend)
  \/ ClientStep(DestroySession)
  \/ \E o \in toServer : Serve(o)
  \/ \E r \in toClient : ReceiveResponse(r)
  \/ ForceTerminate
  \/ WorkEnds
  \/ \E o \in toServer : LoseRequest(o)
  \/ \E r \in toClient : LoseResponse(r)

Spec == Init /\ [][Next]_vars

(***************************************************************************)
(* Fairness.  A thread inside the client goes on, and runs the event loop  *)
(* as it does; outside of it an application with pending requests goes on  *)
(* running the event loop; the server thread polls its event loop until it *)
(* stops; eRPC retransmits until a request is delivered and answered.      *)
(* Nothing is assumed about which calls the application makes, or about    *)
(* the losses.                                                             *)
(***************************************************************************)
Fairness ==
  /\ WF_vars(ClientStep(SendRequest))
  /\ WF_vars(ClientStep(PrepareDisconnectLoop))
  /\ WF_vars(ClientStep(PrepareDisconnectSend))
  /\ WF_vars(ClientStep(DisconnectSend))
  /\ WF_vars(ClientStep(DestroySession))
  /\ \A i \in Slots : WF_vars(\E o \in toServer : o.slot = i /\ Serve(o))
  /\ \A i \in Slots :
       WF_vars(\E r \in toClient : r.o.slot = i /\ ReceiveResponse(r))
  /\ WF_vars(WorkEnds)

FairSpec == Spec /\ Fairness

-------------------------------------------------------------------------------
(***************************************************************************)
(* Properties                                                              *)
(***************************************************************************)
\* Type invariant.
SystemTypeOK ==
  /\ TypeOK
  /\ nextSeq \in Seqs
  /\ stayConnected \in BOOLEAN
  /\ rpcHost \in {"up", "deleted"}
  /\ store \in [Keys -> Vals]
  /\ toServer \subseteq Enqueued
  /\ \A r \in toClient : r.o \in Enqueued /\ r.msg \in Responses

(***************************************************************************)
(* The two faults the client does not contain: a response has failed to    *)
(* decrypt, whose uninitialised header may have freed any slot, or         *)
(* destroy_session has failed and every slot was freed.  From then on a    *)
(* slot may be reused while eRPC still holds its buffers, so that          *)
(* continuations write to the buffers of others and retransmissions carry  *)
(* other requests; only the bookkeeping of the calls is still promised.    *)
(***************************************************************************)
Faulty == garbled \/ destroyFails > 0

(***************************************************************************)
(* Client and server implement the KV service: every answer is the outcome *)
(* of the one atomic execution of that very request, and a get's buffer is *)
(* written once, with the value read, before its callback, and never again *)
(* after the callback, up to the first fault; the fault itself ends one    *)
(* call with INVALID_RESPONSE or the pending ones with TIMEOUT; and after  *)
(* it every call still returns once and ends once.                         *)
(***************************************************************************)
execBar == [t \in Tags |-> IF execs[t] = <<>>
                           THEN [ok |-> FALSE, val |-> Garbage]
                           ELSE Head(execs[t])]

Abstract == INSTANCE KvService WITH exec <- execBar, returned <- userBuf,
                                    faulty <- Faulty

ImplementsKvService == Abstract!KvSpec

\* "req and resp belong to eRPC on success": while eRPC holds a request, the
\* message tag with its two buffers is in use for that same request, so
\* prepare_new_request cannot hand the buffers to another one.
BuffersNeverReused ==
  \A o \in outstanding : queue[o.slot].valid /\ queue[o.slot].seq = o.seq

\* The same for as long as every response has decrypted and no destroy_session
\* has failed: timeouts, dropped requests and failed encryption free no slot
\* whose buffers eRPC still holds.
BuffersBelongToErpc == ~Faulty => BuffersNeverReused

\* While the server thread is running, every request eRPC holds is still on
\* its way or its response is: req_handler has not dropped it on a sequence
\* number check, which would leave its slot of the client's ring in use for
\* ever.
NoRequestStranded ==
  rpcHost = "up" =>
    \A o \in outstanding : o \in toServer \/ \E r \in toClient : r.o = o

\* prepare_disconnect only stops, before its limit, when the server thread
\* really has left its event loop.  disconnect_callback clears connected
\* whatever the status, so this holds only as long as every response has
\* decrypted and no destroy_session has failed: INVALID_RESPONSE or TIMEOUT for
\* a disconnect message clears connected as well.
DisconnectAcknowledged ==
  ~Faulty => (session = "connected" /\ ~connected => ~stayConnected)

\* Every request the client accepted is called back, unless the server thread
\* is told to stop first.  The application keeps running the event loop, and
\* requests overtake each other by at most half of SEQ_THRESHOLD, so that
\* req_handler drops none; without this bound the callback may never come (run
\* late_request).
AcceptedIsCalledBack ==
  \A t \in Tags :
    status[t] = "pending" ~> (status[t] # "pending" \/ ~stayConnected)

\* A call of get, put, del, prepare_disconnect or disconnect returns, although
\* prepare_new_request may have to wait for a slot, unless the server thread
\* is told to stop first.  Like the callback, this needs the bound on how far
\* requests overtake each other: a dropped request keeps its slot.
CallsReturn == call # "idle" ~> (call = "idle" \/ ~stayConnected)

\* disconnect() comes back, with the session ended.
DisconnectReturns == call = "disc_send" ~> session = "destroyed"
===============================================================================
