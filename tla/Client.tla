-------------------------------- MODULE Client --------------------------------
(***************************************************************************)
(* The two-sided client (Client.cpp, PendingRequestQueue.cpp and           *)
(* sent_message_tag.cpp): get, put, del, prepare_disconnect, disconnect    *)
(* and the continuation decrypt_cont_func, over the ring of                *)
(* MAX_ACCEPTED_RESPONSES message tags indexed by the sequence number.     *)
(*                                                                         *)
(* A client is driven by one thread.  prepare_new_request busy-waits in    *)
(* the eRPC event loop until its slot is free, so a call is two steps: the *)
(* call, and the step that fills the slot and sends; in between, and       *)
(* whenever the application runs the event loop, continuations run.        *)
(*                                                                         *)
(* Next puts no restriction on the answers: every outstanding request may  *)
(* be answered by any message, or by one that does not decrypt, in any     *)
(* order.  TwoSided composes the same actions with the real server.        *)
(***************************************************************************)
EXTENDS ClientServerCommon

VARIABLES
  currentSeq,   \* PendingRequestQueue::current_seq_op
  queue,        \* PendingRequestQueue::queue, the ring of message tags
  session,      \* session_nr, and the state of that session inside eRPC
  connected,    \* the thread-local flag connected
  call,         \* where the application's thread stands inside the client
  loops,        \* i of the loop in prepare_disconnect
  calls,        \* number of get/put/del calls made; the latest one is its tag
  req,          \* req[t]: operation and key of call t
  status,       \* status[t]: what the application knows of call t
  callbacks,    \* callbacks[t]: how often the callback of call t has run
  userBuf,      \* userBuf[t]: content of the value buffer passed to get t
  outstanding,  \* requests enqueued at eRPC whose continuation has not run
  destroyFails, \* history: how often destroy_session has failed
  garbled       \* history: has a response failed to decrypt?

faultVars  == <<destroyFails, garbled>>
clientVars == <<currentSeq, queue, session, connected, call, loops, calls,
                req, status, callbacks, userBuf, outstanding, faultVars>>

-------------------------------------------------------------------------------
RetVals  == {"OP_SUCCESS", "OP_FAILED", "TIMEOUT", "INVALID_RESPONSE"}
Statuses == RetVals \cup {"unissued", "called", "refused", "pending"}
Calls    == {"idle", "request", "prep", "prep_send", "disc_send", "disc_sent"}

NoCall == [op |-> "ERR", key |-> NoKey]

(***************************************************************************)
(* sent_message_tag: header.seq_op, user_tag, value and valid.  buf is the *)
(* call whose buffer value points to, NoTag for nullptr.                   *)
(***************************************************************************)
MsgTags == [valid : BOOLEAN, seq : Seqs, op : Ops, tag : Vals, buf : Vals]

\* What eRPC holds for a request: its buffers (the slot) and their content.
Enqueued == [slot : Slots, seq : Seqs, op : Ops, key : Keys \cup {NoKey},
             tag : Vals]

-------------------------------------------------------------------------------
(***************************************************************************)
(* Sequence numbers and the ring                                           *)
(***************************************************************************)
\* The client uses every second number, so the last bit carries no
\* information and is shifted out.
AcceptedIndex(s) == (s \div 2) % MaxPending

\* Seeded fault: the number reserved for the response is not skipped.
IncSeqSingle(s) == NextSeq(s)
\* inc_seq skips the number the server uses for its response.
IncSeq(s) == NextSeq(NextSeq(s))

CurrentSlot == AcceptedIndex(currentSeq)

\* Seeded fault: prepare_new_request does not wait for its slot.
SlotFreeAlways(i) == TRUE
\* The condition prepare_new_request spins on.
SlotFree(i) == ~queue[i].valid

-------------------------------------------------------------------------------
(***************************************************************************)
(* Ending a request: sent_message_tag::invalidate marks the slot unused    *)
(* and runs the callback.  The callback of a disconnect message is         *)
(* disconnect_callback; the one of a get/put/del tells the application.    *)
(***************************************************************************)
Invalidate(ret, i) ==
  LET s == queue[i] IN
  /\ queue' = [queue EXCEPT ![i].valid = FALSE]
  /\ \/ /\ s.op = "ERR"
        /\ connected' = FALSE
        /\ UNCHANGED <<status, callbacks>>
     \/ /\ s.op # "ERR"
        /\ status' = [status EXCEPT ![s.tag] = ret]
        /\ callbacks' = [callbacks EXCEPT ![s.tag] = @ + 1]
        /\ UNCHANGED connected

NothingArrived == UNCHANGED <<queue, connected, status, callbacks>>

\* Seeded fault: the slot of an arriving response is not looked up through
\* PREV_SEQ.
ArrivedSlotOfResponse(seq) == AcceptedIndex(seq)
\* The slot message_arrived looks up for a response's sequence number.
ArrivedSlot(seq) == AcceptedIndex(PrevSeq(seq))

\* Seeded fault: message_arrived does not test valid.
MessageArrivedUnchecked(ret, i) == Invalidate(ret, i)
\* message_arrived ignores a response to a slot that is not in use.
MessageArrived(ret, i) ==
  IF queue[i].valid THEN Invalidate(ret, i) ELSE NothingArrived

\* invalidate_all_requests: every request still pending ends with TIMEOUT.
InvalidateAll ==
  LET valid    == {i \in Slots : queue[i].valid}
      timedOut == {t \in Tags :
                     \E i \in valid : queue[i].op # "ERR" /\ queue[i].tag = t}
  IN  /\ queue' = [i \in Slots |-> [queue[i] EXCEPT !.valid = FALSE]]
      /\ connected' = (connected /\ \A i \in valid : queue[i].op # "ERR")
      /\ status' = [t \in Tags |->
                      IF t \in timedOut THEN "TIMEOUT" ELSE status[t]]
      /\ callbacks' = [t \in Tags |->
                         callbacks[t] + (IF t \in timedOut THEN 1 ELSE 0)]

-------------------------------------------------------------------------------
(***************************************************************************)
(* The application's calls                                                 *)
(***************************************************************************)
\* connect: on success the session is up and connected is set.
Connect ==
  /\ session = "none"
  /\ call = "idle"
  /\ session' = "connected"
  /\ connected' = TRUE
  /\ UNCHANGED <<currentSeq, queue, call, loops, calls, req, status,
                 callbacks, userBuf, outstanding, faultVars>>

\* get, put or del is called, and reaches prepare_new_request.
Call(op, key) ==
  /\ session = "connected"
  /\ call = "idle"
  /\ calls < MaxRequests
  /\ calls' = calls + 1
  /\ call' = "request"
  /\ req' = [req EXCEPT ![calls + 1] = [op |-> op, key |-> key]]
  /\ status' = [status EXCEPT ![calls + 1] = "called"]
  /\ UNCHANGED <<currentSeq, queue, session, connected, loops, callbacks,
                 userBuf, outstanding, faultVars>>

\* get, put or del without a key (put: or value) returns -1 at once.
CallWithoutKey(op) ==
  /\ session = "connected"
  /\ call = "idle"
  /\ calls < MaxRequests
  /\ calls' = calls + 1
  /\ req' = [req EXCEPT ![calls + 1] = [op |-> op, key |-> NoKey]]
  /\ status' = [status EXCEPT ![calls + 1] = "refused"]
  /\ UNCHANGED <<currentSeq, queue, session, connected, call, loops,
                 callbacks, userBuf, outstanding, faultVars>>

\* What prepare_new_request puts in the slot: the caller's tag and buffer
\* (validate) under the next sequence number.  The slot stays valid only if
\* the encryption that follows succeeds.
PreparedTag(op, tag, buf, encrypted) ==
  [valid |-> encrypted, seq |-> currentSeq, op |-> op, tag |-> tag,
   buf |-> buf]

(***************************************************************************)
(* prepare_new_request has found the slot free: it is filled, the request  *)
(* is encrypted, and only if that works does send_message advance the      *)
(* sequence number and hand the buffers to eRPC.  A failed encryption      *)
(* leaves the slot filled, but not valid.                                  *)
(***************************************************************************)
FillAndSend(op, key, tag, buf, encrypted) ==
  /\ SlotFree(CurrentSlot)
  /\ queue' = [queue EXCEPT ![CurrentSlot] =
                 PreparedTag(op, tag, buf, encrypted)]
  /\ currentSeq' = IF encrypted THEN IncSeq(currentSeq) ELSE currentSeq
  /\ outstanding' = IF encrypted
                    THEN outstanding \cup
                           {[slot |-> CurrentSlot, seq |-> currentSeq,
                             op |-> op, key |-> key, tag |-> tag]}
                    ELSE outstanding

\* The rest of get, put or del: it returns 0, or -1 if encryption fails.
\* Only get leaves a buffer for the response's value in the slot.
SendRequest ==
  /\ call = "request"
  /\ \E encrypted \in CryptoOutcomes :
       /\ FillAndSend(req[calls].op, req[calls].key, calls,
                      IF req[calls].op = "GET" THEN calls ELSE NoTag,
                      encrypted)
       /\ status' = [status EXCEPT ![calls] =
                       IF encrypted THEN "pending" ELSE "refused"]
  /\ call' = "idle"
  /\ UNCHANGED <<session, connected, loops, calls, req, callbacks, userBuf,
                 faultVars>>

\* send_disconnect_message does not touch the value pointer of the slot.
SendDisconnectMessage ==
  \E encrypted \in CryptoOutcomes :
    FillAndSend("ERR", NoKey, NoTag, queue[CurrentSlot].buf, encrypted)

\* prepare_disconnect: up to MAX_ACCEPTED_RESPONSES disconnect messages,
\* until the callback of one of them clears connected.  Bound: the
\* application uses it once (loops = 0).
PrepareDisconnect ==
  /\ session = "connected"
  /\ call = "idle"
  /\ loops = 0
  /\ call' = "prep"
  /\ UNCHANGED <<currentSeq, queue, session, connected, loops, calls, req,
                 status, callbacks, userBuf, outstanding, faultVars>>

PrepareDisconnectLoop ==
  /\ call = "prep"
  /\ call' = IF loops < MaxPending /\ connected THEN "prep_send" ELSE "idle"
  /\ UNCHANGED <<currentSeq, queue, session, connected, loops, calls, req,
                 status, callbacks, userBuf, outstanding, faultVars>>

PrepareDisconnectSend ==
  /\ call = "prep_send"
  /\ SendDisconnectMessage
  /\ call' = "prep"
  /\ loops' = loops + 1
  /\ UNCHANGED <<session, connected, calls, req, status, callbacks, userBuf,
                 faultVars>>

\* disconnect, from the application or from the destructor.
Disconnect ==
  /\ session = "connected"
  /\ call = "idle"
  /\ call' = "disc_send"
  /\ UNCHANGED <<currentSeq, queue, session, connected, loops, calls, req,
                 status, callbacks, userBuf, outstanding, faultVars>>

DisconnectSend ==
  /\ call = "disc_send"
  /\ SendDisconnectMessage
  /\ call' = "disc_sent"
  /\ UNCHANGED <<session, connected, loops, calls, req, status, callbacks,
                 userBuf, faultVars>>

\* After five rounds of the event loop (continuations may run in "disc_sent")
\* the session is destroyed, which drops its continuations.  The result of
\* destroy_session is ignored: if it fails, the session stays up and eRPC goes
\* on holding the requests.  Every request still pending is ended either way.
DestroySession ==
  /\ call = "disc_sent"
  /\ \/ /\ session' = "destroyed"
        /\ outstanding' = {}
        /\ UNCHANGED destroyFails
     \/ /\ destroyFails < MaxDestroyFails
        /\ destroyFails' = destroyFails + 1
        /\ UNCHANGED <<session, outstanding>>
  /\ InvalidateAll
  /\ call' = "idle"
  /\ UNCHANGED <<currentSeq, loops, calls, req, userBuf, garbled>>

-------------------------------------------------------------------------------
(***************************************************************************)
(* decrypt_cont_func: eRPC runs the continuation of request o with the     *)
(* message msg in the response buffer of o's slot.                         *)
(***************************************************************************)
\* decrypt_message writes the value into the buffer of the slot before
\* anything is checked; one that fails may have written part of it.
BuffersAfterDecrypt(s, msg) ==
  IF s.buf = NoTag THEN {userBuf}
  ELSE IF msg = Undecryptable
       THEN {userBuf, [userBuf EXCEPT ![s.buf] = Garbage]}
  ELSE IF msg.val = NoTag THEN {userBuf}
  ELSE {[userBuf EXCEPT ![s.buf] = msg.val]}

\* The response must carry the client's id and the number after the request's.
ResponseMatches(s, msg) ==
  /\ msg.id = ClientId
  /\ msg.seq = NextSeq(s.seq)

DecryptContFunc(o, msg) ==
  LET s == queue[o.slot] IN
  /\ o \in outstanding
  /\ outstanding' = outstanding \ {o}
  /\ userBuf' \in BuffersAfterDecrypt(s, msg)
  /\ \/ \* the header is uninitialised or unauthenticated, yet its number used
        /\ msg = Undecryptable
        /\ \E seq \in Seqs :
             MessageArrived("INVALID_RESPONSE", ArrivedSlot(seq))
     \/ \* "a message that has already been processed", dropped
        /\ msg # Undecryptable
        /\ ~ResponseMatches(s, msg)
        /\ NothingArrived
     \/ /\ msg # Undecryptable
        /\ ResponseMatches(s, msg)
        /\ MessageArrived(IF msg.op = s.op THEN "OP_SUCCESS" ELSE "OP_FAILED",
                          ArrivedSlot(msg.seq))
  /\ garbled' = (garbled \/ msg = Undecryptable)
  /\ UNCHANGED <<currentSeq, session, call, loops, calls, req, destroyFails>>

-------------------------------------------------------------------------------
ClientInit ==
  /\ currentSeq \in InitSeqs
  /\ queue = [i \in Slots |-> [valid |-> FALSE, seq |-> 0, op |-> "ERR",
                               tag |-> NoTag, buf |-> NoTag]]
  /\ session = "none"
  /\ connected = FALSE
  /\ call = "idle"
  /\ loops = 0
  /\ calls = 0
  /\ req = [t \in Tags |-> NoCall]
  /\ status = [t \in Tags |-> "unissued"]
  /\ callbacks = [t \in Tags |-> 0]
  /\ userBuf = [t \in Tags |-> NoTag]
  /\ outstanding = {}
  /\ destroyFails = 0
  /\ garbled = FALSE

Receive == \E o \in outstanding, msg \in Responses \cup {Undecryptable} :
             DecryptContFunc(o, msg)

ClientNext ==
  \/ Connect
  \/ \E op \in AppOps, key \in Keys : Call(op, key)
  \/ \E op \in AppOps : CallWithoutKey(op)
  \/ SendRequest
  \/ PrepareDisconnect
  \/ PrepareDisconnectLoop
  \/ PrepareDisconnectSend
  \/ Disconnect
  \/ DisconnectSend
  \/ DestroySession
  \/ Receive

ClientSpec == ClientInit /\ [][ClientNext]_clientVars

-------------------------------------------------------------------------------
(***************************************************************************)
(* Properties of the client, whatever the other side answers               *)
(***************************************************************************)
\* Type invariant.
TypeOK ==
  /\ currentSeq \in Seqs
  /\ queue \in [Slots -> MsgTags]
  /\ session \in {"none", "connected", "destroyed"}
  /\ connected \in BOOLEAN
  /\ call \in Calls
  /\ loops \in 0 .. MaxPending
  /\ calls \in 0 .. MaxRequests
  /\ req \in [Tags -> [op : Ops, key : Keys \cup {NoKey}]]
  /\ status \in [Tags -> Statuses]
  /\ callbacks \in [Tags -> Nat]
  /\ userBuf \in [Tags -> Vals \cup {Garbage}]
  /\ outstanding \subseteq Enqueued
  /\ destroyFails \in 0 .. MaxDestroyFails
  /\ garbled \in BOOLEAN

\* A request the client has accepted (get/put/del returned 0) and not yet
\* answered is held by exactly one slot of the ring, and every slot in use
\* holds such a request or a disconnect message: no request is overwritten in
\* prepare_new_request, and none is forgotten by message_arrived.
Holds(i, t) == queue[i].valid /\ queue[i].op # "ERR" /\ queue[i].tag = t

PendingHasOneSlot ==
  /\ \A i \in Slots : queue[i].valid /\ queue[i].op # "ERR" =>
       queue[i].tag \in Tags /\ status[queue[i].tag] = "pending"
  /\ \A t \in Tags : status[t] = "pending" => \E i \in Slots : Holds(i, t)
  /\ \A t \in Tags, i, j \in Slots : Holds(i, t) /\ Holds(j, t) => i = j

\* The callback of a request runs exactly once when the request ends, and
\* never for a call that returned -1 or has not been accepted yet.
CallbackExactlyOnce ==
  \A t \in Tags : callbacks[t] = IF status[t] \in RetVals THEN 1 ELSE 0

\* The ring is a window over the sequence numbers: a slot in use carries the
\* number that maps to it, an even distance of 2 .. 2 * MaxPending behind
\* current_seq_op.  So the numbers of two pending requests, and of their
\* responses, differ, also when the 54-bit number has wrapped.
WindowBound ==
  \A i \in Slots : queue[i].valid =>
    /\ AcceptedIndex(queue[i].seq) = i
    /\ \E d \in 1 .. MaxPending :
         queue[i].seq = (currentSeq - 2 * d) % SeqMod

\* A request only succeeds, or fails at the server, through the continuation
\* of its own slot with a response to its own sequence number: the slot that
\* message_arrived derives from the response is the continuation's slot.
OwnResponseCompletes ==
  [][\A t \in Tags :
       /\ status[t] = "pending"
       /\ status'[t] \in {"OP_SUCCESS", "OP_FAILED"}
       => \E o \in outstanding \ outstanding' : Holds(o.slot, t)]_clientVars
===============================================================================
