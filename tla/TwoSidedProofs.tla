---------------------------- MODULE TwoSidedProofs ----------------------------
(***************************************************************************)
(* Proofs about client and server thread together, for every ring size,    *)
(* threshold, sequence number width, number of calls, set of keys,         *)
(* delivery order, and with or without failing en- and decryption and      *)
(* failing destroy_session: the inductive invariant and, from it, the      *)
(* safety invariants and the refinement of KvService.                      *)
(***************************************************************************)
EXTENDS TwoSided, ClientProofs

(***************************************************************************)
(* The inductive invariant                                                 *)
(***************************************************************************)
\* Only a connected client is inside a call or has requests at eRPC.
SessionOrder ==
  /\ call # "idle" => session = "connected"
  /\ session # "connected" => outstanding = {}
  /\ session = "none" => toServer = {} /\ toClient = {}

\* Statuses of a call that has not been accepted (get/put/del returned 0).
NotAccepted == {"unissued", "called", "refused"}

\* A call that waits for its slot has a key.
CallHasKey == call = "request" => req[calls].key \in Keys

\* A request at eRPC is a disconnect message, or carries operation, key and
\* number of the call that sent it.
MatchesCall(o) ==
  IF o.op = "ERR"
  THEN o.key = NoKey /\ o.tag = NoTag
  ELSE /\ o.tag \in Tags
       /\ req[o.tag] = [op |-> o.op, key |-> o.key]
       /\ o.key \in Keys
       /\ status[o.tag] \notin NotAccepted

RequestsMatchCalls ==
  /\ \A o \in outstanding : MatchesCall(o)
  /\ \A o \in toServer : MatchesCall(o)
  /\ \A r \in toClient : MatchesCall(r.o)

\* While eRPC holds a request, its slot is in use for it.  Only the slot of a
\* get has the application's buffer; that of a disconnect message may still
\* point to the buffer of an earlier get.
HeldBySlot(o) ==
  LET s == queue[o.slot] IN
  /\ s.valid /\ s.seq = o.seq /\ s.op = o.op /\ s.tag = o.tag
  /\ o.op = "GET" => s.buf = o.tag
  /\ o.op \in {"PUT", "DELETE"} => s.buf = NoTag

BuffersHeld == \A o \in outstanding : HeldBySlot(o)

\* The value pointer of a slot, in use or not, is null or that of a get.
BuffersOfGets ==
  \A i \in Slots : queue[i].buf # NoTag =>
    /\ queue[i].buf \in Tags
    /\ req[queue[i].buf].op = "GET"
    /\ status[queue[i].buf] # "unissued"

\* A request is on its way, or answered once, or was dropped by the server.
OneAnswer ==
  /\ session = "connected" =>
       toServer \subseteq outstanding /\ \A r \in toClient : r.o \in outstanding
  /\ \A r \in toClient : r.o \notin toServer
  /\ \A r, q \in toClient : r.o = q.o => r = q
  /\ \A o, p \in toServer : o.tag = p.tag /\ o.op # "ERR" => o = p

\* What the KV-store reports of an execution.
Outcomes(op) ==
  {e \in [ok : BOOLEAN, val : Vals] :
     e.val # NoTag <=> e.ok /\ op = "GET"}

\* A call is executed at most once, and only after it was accepted.
ExecutedOnce ==
  /\ execs \in [Tags -> {<<>>} \cup
                        {<<e>> : e \in [ok : BOOLEAN, val : Vals]}]
  /\ \A t \in Tags : execs[t] # <<>> =>
       /\ status[t] \notin NotAccepted
       /\ Head(execs[t]) \in Outcomes(req[t].op)
  /\ \A o \in toServer : o.op # "ERR" =>
       execs[o.tag] = <<>> /\ status[o.tag] \in {"pending", "TIMEOUT"}

\* A response reports the execution of its own request; a disconnect request
\* is only answered by a server thread that leaves its event loop.
Truthful(r) ==
  /\ r.msg.id = ClientId
  /\ r.msg.seq = NextSeq(r.o.seq)
  /\ r.o.op = "ERR" => r.msg.val = NoTag /\ ~stayConnected
  /\ r.o.op # "ERR" =>
       /\ execs[r.o.tag] # <<>>
       /\ r.msg.op = r.o.op <=> Head(execs[r.o.tag]).ok
       /\ r.msg.val = Head(execs[r.o.tag]).val

ResponsesTruthful == \A r \in toClient : Truthful(r)

\* connected is cleared by the answer to a disconnect request.
Acknowledged == session = "connected" /\ ~connected => ~stayConnected

\* What holds up to the first fault.
Clean ==
  /\ BuffersHeld
  /\ OneAnswer
  /\ ExecutedOnce
  /\ ResponsesTruthful
  /\ Acknowledged

SInv ==
  /\ SystemTypeOK
  /\ IInv
  /\ SessionOrder
  /\ CallHasKey
  /\ RequestsMatchCalls
  /\ BuffersOfGets
  /\ ~Faulty => Clean

-------------------------------------------------------------------------------
(***************************************************************************)
(* The steps of the system as steps of the client                          *)
(***************************************************************************)
\* Every step of the system is a step of the client of module Client, or
\* leaves the client alone: ClientProofs applies.
LEMMA SystemStepIsClientStep ==
  ASSUME SystemTypeOK, [Next]_vars
  PROVE  [ClientNext]_clientVars
<1>1. ASSUME NEW r \in toClient, ReceiveResponse(r)
      PROVE  [ClientNext]_clientVars
  <2>1. r.msg \in Responses
    BY DEF SystemTypeOK
  <2>2. CASE DecryptContFunc(r.o, r.msg)
    <3>1. r.o \in outstanding
      BY <2>2 DEF DecryptContFunc
    <3>2. Receive
      BY <2>1, <2>2, <3>1 DEF Receive
    <3> QED BY <3>2 DEF ClientNext
  <2>3. CASE DecryptContFunc(r.o, Undecryptable)
    <3>1. r.o \in outstanding
      BY <2>3 DEF DecryptContFunc
    <3>2. Receive
      BY <2>3, <3>1 DEF Receive
    <3> QED BY <3>2 DEF ClientNext
  <2> QED BY <1>1, <2>2, <2>3 DEF ReceiveResponse
<1>2. ASSUME NEW o \in toServer, Serve(o) PROVE UNCHANGED clientVars
  BY <1>2 DEF Serve
<1>3. CASE ForceTerminate \/ WorkEnds
  BY <1>3 DEF ForceTerminate, WorkEnds
<1>4. ASSUME NEW o \in toServer, LoseRequest(o) PROVE UNCHANGED clientVars
  BY <1>4 DEF LoseRequest
<1>5. ASSUME NEW r \in toClient, LoseResponse(r) PROVE UNCHANGED clientVars
  BY <1>5 DEF LoseResponse
<1>6. CASE UNCHANGED vars
  BY <1>6 DEF vars
<1> QED
  BY <1>1, <1>2, <1>3, <1>4, <1>5, <1>6 DEF Next, ClientStep, ClientNext

\* So the client's invariant holds in the composition as well.
LEMMA ClientInvKept ==
  ASSUME SInv, [Next]_vars
  PROVE  IInv'
BY SystemStepIsClientStep, IInvNext DEF SInv

\* Requests with the same slot are the same request.
LEMMA SlotDeterminesRequest ==
  ASSUME SInv, ~Faulty,
         NEW o \in outstanding, NEW p \in outstanding, o.slot = p.slot
  PROVE  o = p
<1>1. o \in Enqueued /\ p \in Enqueued
  BY DEF SInv, IInv, TypeOK
<1>2. o.seq = p.seq /\ o.op = p.op /\ o.tag = p.tag
  BY DEF SInv, Clean, BuffersHeld, HeldBySlot
<1>3. o.key = p.key
  <2>1. CASE o.op = "ERR"
    BY <1>2, <2>1 DEF SInv, RequestsMatchCalls, MatchesCall
  <2>2. CASE o.op # "ERR"
    <3>1. [op |-> o.op, key |-> o.key] = [op |-> p.op, key |-> p.key]
      BY <1>2, <2>2 DEF SInv, RequestsMatchCalls, MatchesCall
    <3> QED BY <3>1
  <2> QED BY <2>1, <2>2
<1> QED BY <1>1, <1>2, <1>3 DEF Enqueued

\* A sequence of one element.
LEMMA Singleton ==
  ASSUME NEW e
  PROVE  Append(<<>>, e) = <<e>> /\ Head(<<e>>) = e /\ <<e>> # <<>>
OBVIOUS

-------------------------------------------------------------------------------
(***************************************************************************)
(* What no step does, fault or not                                         *)
(***************************************************************************)
\* Calls are made, return and end in this order, and what was asked for stays.
StatusSteps ==
  \A t \in Tags :
    /\ Abstract!Progress(status[t], status'[t])
    /\ status[t] # "unissued" => req'[t] = req[t]

\* Every step of the client keeps to it.
LEMMA StatusStepsNext ==
  ASSUME IInv, [ClientNext]_clientVars
  PROVE  StatusSteps
<1>1. status \in [Tags -> Statuses]
      /\ req \in [Tags -> [op : Ops, key : Keys \cup {NoKey}]]
  BY DEF IInv, TypeOK
<1>2. ASSUME UNCHANGED <<req, status>> PROVE StatusSteps
  BY <1>2 DEF StatusSteps, Abstract!Progress
<1>3. ASSUME NEW op, NEW key, NEW s \in {"called", "refused"},
             calls < MaxRequests,
             req' = [req EXCEPT ![calls + 1] = [op |-> op, key |-> key]],
             status' = [status EXCEPT ![calls + 1] = s]
      PROVE  StatusSteps
  <2>1. calls + 1 \in Tags /\ status[calls + 1] = "unissued"
    BY <1>3, CommonAssumption DEF IInv, TypeOK, CallOrder, Tags
  <2>2. PICK t0 \in Tags : t0 = calls + 1
    BY <2>1
  <2>3. /\ status'[t0] = s /\ status[t0] = "unissued"
        /\ \A t \in Tags : t # t0 => status'[t] = status[t] /\ req'[t] = req[t]
    BY <1>1, <1>3, <2>1, <2>2
  <2> QED BY <2>3 DEF StatusSteps, Abstract!Progress
<1>4. CASE SendRequest
  <2>1. calls \in Tags /\ status[calls] = "called" /\ req' = req
    BY <1>4 DEF IInv, CallOrder, SendRequest
  <2>2. PICK s \in {"pending", "refused"} : status' = [status EXCEPT ![calls] = s]
    BY <1>4 DEF SendRequest
  <2>3. /\ status'[calls] = s
        /\ \A t \in Tags : t # calls => status'[t] = status[t]
    BY <1>1, <2>1, <2>2
  <2> QED BY <2>1, <2>3 DEF StatusSteps, Abstract!Progress
<1>5. ASSUME OnlyPendingChanges, req' = req PROVE StatusSteps
  BY <1>5 DEF OnlyPendingChanges, StatusSteps, Abstract!Progress,
              Abstract!Ended, RetVals
<1>6. BooksTypeOK /\ Books
  BY DEF IInv, TypeOK, BooksTypeOK, Books
<1>7. CASE DestroySession
  BY <1>5, <1>6, <1>7, InvalidateAllKeepsBooks DEF DestroySession
<1>8. ASSUME NEW o \in outstanding, NEW msg \in Responses \cup {Undecryptable},
             DecryptContFunc(o, msg)
      PROVE  StatusSteps
  <2>1. req' = req
    BY <1>8 DEF DecryptContFunc
  <2>2. CASE NothingArrived
    BY <1>2, <2>1, <2>2 DEF NothingArrived
  <2>3. ASSUME NEW ret \in RetVals, NEW seq \in Seqs,
               MessageArrived(ret, ArrivedSlot(seq))
        PROVE  StatusSteps
    <3>1. ArrivedSlot(seq) \in Slots
      BY SeqRange, IndexInSlots DEF ArrivedSlot
    <3> QED BY <1>5, <1>6, <2>1, <2>3, <3>1, MessageArrivedKeepsBooks
  <2>4. msg # Undecryptable => msg.seq \in Seqs
    BY DEF Responses
  <2>5. {"OP_SUCCESS", "OP_FAILED", "INVALID_RESPONSE"} \subseteq RetVals
    BY DEF RetVals
  <2>6. PICK ret : ret = IF msg.op = queue[o.slot].op THEN "OP_SUCCESS"
                                                      ELSE "OP_FAILED"
    OBVIOUS
  <2>7. ret \in RetVals
    BY <2>5, <2>6
  <2> QED BY <1>8, <2>2, <2>3, <2>4, <2>5, <2>6, <2>7 DEF DecryptContFunc
<1>9. CASE \E op \in AppOps, key \in Keys : Call(op, key)
  BY <1>3, <1>9 DEF Call
<1>10. CASE \E op \in AppOps : CallWithoutKey(op)
  BY <1>3, <1>10 DEF CallWithoutKey
<1>11. CASE Receive
  BY <1>8, <1>11 DEF Receive
<1>12. CASE \/ Connect \/ PrepareDisconnect \/ PrepareDisconnectLoop
            \/ PrepareDisconnectSend \/ Disconnect \/ DisconnectSend
            \/ UNCHANGED clientVars
  BY <1>2, <1>12 DEF Connect, PrepareDisconnect, PrepareDisconnectLoop,
     PrepareDisconnectSend, Disconnect, DisconnectSend, clientVars
<1> QED BY <1>4, <1>7, <1>9, <1>10, <1>11, <1>12 DEF ClientNext

\* What an accepted call asked for is fixed, and it stays accepted.
AcceptedStays ==
  \A t \in Tags : status[t] \notin NotAccepted =>
    req'[t] = req[t] /\ status'[t] \notin NotAccepted

\* Accepted calls come after the unissued and the called ones.
LEMMA AcceptedStaysNext ==
  ASSUME StatusSteps
  PROVE  AcceptedStays
BY DEF StatusSteps, AcceptedStays, NotAccepted, Abstract!Progress,
       Abstract!Ended

\* What a request says of its call stays true as long as req does.
LEMMA MatchesStays ==
  ASSUME AcceptedStays, NEW o, MatchesCall(o)
  PROVE  MatchesCall(o)'
BY DEF AcceptedStays, MatchesCall

\* The value pointers stay those of gets.
LEMMA BuffersOfGetsStays ==
  ASSUME BuffersOfGets, StatusSteps,
         \A i \in Slots : queue'[i].buf = queue[i].buf
  PROVE  BuffersOfGets'
BY DEF BuffersOfGets, StatusSteps, Abstract!Progress, Abstract!Ended

-------------------------------------------------------------------------------
(***************************************************************************)
(* One lemma per kind of step                                              *)
(***************************************************************************)
\* Steps that neither fill nor end a slot, nor execute a request.
LEMMA QuietStep ==
  ASSUME SInv, IInv', StatusSteps,
         UNCHANGED <<queue, outstanding, req, status, execs, faultVars>>,
         nextSeq' \in Seqs, stayConnected' \in BOOLEAN,
         rpcHost' \in {"up", "deleted"}, store' = store,
         toServer' \subseteq toServer, toClient' \subseteq toClient,
         stayConnected' => stayConnected,
         session' = "connected" =>
           session = "connected" \/ (toServer' = {} /\ toClient' = {}),
         SessionOrder', CallHasKey', Acknowledged \/ Faulty => Acknowledged' \/ Faulty
  PROVE  SInv'
<1>1. SystemTypeOK'
  BY DEF SInv, SystemTypeOK, IInv
<1>2. RequestsMatchCalls'
  <2>1. \A o : MatchesCall(o)' <=> MatchesCall(o)
    BY DEF MatchesCall
  <2> QED BY <2>1 DEF SInv, RequestsMatchCalls
<1>3. BuffersOfGets'
  BY BuffersOfGetsStays DEF SInv
<1>4. Faulty' = Faulty
  BY DEF Faulty, faultVars
<1>5. ASSUME ~Faulty PROVE Clean'
  <2>1. Clean
    BY <1>5 DEF SInv
  <2>2. BuffersHeld'
    BY <2>1 DEF Clean, BuffersHeld, HeldBySlot
  <2>3. OneAnswer'
    BY <2>1 DEF Clean, OneAnswer
  <2>4. ExecutedOnce'
    BY <2>1 DEF Clean, ExecutedOnce, Outcomes
  <2>5. ResponsesTruthful'
    BY <2>1 DEF Clean, ResponsesTruthful, Truthful
  <2>6. Acknowledged'
    BY <1>5, <2>1 DEF Clean
  <2> QED BY <2>2, <2>3, <2>4, <2>5, <2>6 DEF Clean
<1> QED BY <1>1, <1>2, <1>3, <1>4, <1>5 DEF SInv

\* The session comes up: nothing is on its way yet.
LEMMA ConnectKeeps ==
  ASSUME SInv, IInv', StatusSteps, ClientStep(Connect)
  PROVE  SInv'
<1>1. /\ session = "none" /\ session' = "connected" /\ connected' = TRUE
      /\ call = "idle" /\ call' = call
      /\ UNCHANGED <<queue, outstanding, req, status, faultVars>>
      /\ UNCHANGED serverVars
      /\ toServer' = toServer
  BY DEF ClientStep, Connect
<1>2. UNCHANGED <<execs, nextSeq, stayConnected, rpcHost, store, toClient>>
  BY <1>1 DEF serverVars
<1>3. toServer = {} /\ toClient = {}
  BY <1>1 DEF SInv, SessionOrder
<1>4. SessionOrder' /\ CallHasKey' /\ Acknowledged'
  BY <1>1 DEF SessionOrder, CallHasKey, Acknowledged
<1> QED BY <1>1, <1>2, <1>3, <1>4, QuietStep DEF SInv, SystemTypeOK

\* Steps that only move the application inside the client.
LEMMA ControlKeeps ==
  ASSUME SInv, IInv', StatusSteps,
         ClientStep(\/ PrepareDisconnect \/ PrepareDisconnectLoop
                    \/ Disconnect)
  PROVE  SInv'
<1>1. /\ session = "connected"
      /\ call' # "request"
      /\ UNCHANGED <<session, connected, queue, outstanding, req, status,
                     faultVars>>
      /\ UNCHANGED serverVars
      /\ toServer' = toServer
  BY DEF ClientStep, PrepareDisconnect, PrepareDisconnectLoop, Disconnect,
         SInv, SessionOrder
<1>2. UNCHANGED <<execs, nextSeq, stayConnected, rpcHost, store, toClient>>
  BY <1>1 DEF serverVars
<1>3. SessionOrder' /\ CallHasKey' /\ (Acknowledged => Acknowledged')
  BY <1>1, <1>2 DEF SInv, SessionOrder, CallHasKey, Acknowledged
<1> QED BY <1>1, <1>2, <1>3, QuietStep DEF SInv, SystemTypeOK

\* The client does nothing, and the server executes nothing: the thread stops
\* or is told to, a request is dropped or lost, a response is lost or comes
\* too late.
LEMMA IdleClientKeeps ==
  ASSUME SInv, IInv', StatusSteps,
         UNCHANGED clientVars, UNCHANGED <<execs, store>>,
         nextSeq' \in Seqs, stayConnected' \in BOOLEAN,
         rpcHost' \in {"up", "deleted"},
         stayConnected' => stayConnected,
         toServer' \subseteq toServer, toClient' \subseteq toClient
  PROVE  SInv'
<1>1. UNCHANGED <<session, connected, call, calls, queue, outstanding, req,
                  status, faultVars>>
  BY DEF clientVars
<1>2. SessionOrder' /\ CallHasKey'
  BY <1>1 DEF SInv, SessionOrder, CallHasKey
<1>3. Acknowledged => Acknowledged'
  BY <1>1 DEF Acknowledged
<1> QED BY <1>1, <1>2, <1>3, QuietStep

\* get, put or del is called.
LEMMA CallKeeps ==
  ASSUME SInv, IInv', StatusSteps,
         \/ \E op \in AppOps, key \in Keys : ClientStep(Call(op, key))
         \/ \E op \in AppOps : ClientStep(CallWithoutKey(op))
  PROVE  SInv'
<1> DEFINE t0 == calls + 1
<1>1. PICK op \in AppOps, key \in Keys \cup {NoKey} :
        /\ session = "connected" /\ call = "idle"
        /\ calls < MaxRequests /\ calls' = t0
        /\ call' = "request" => key \in Keys
        /\ req' = [req EXCEPT ![t0] = [op |-> op, key |-> key]]
        /\ \E s \in {"called", "refused"} : status' = [status EXCEPT ![t0] = s]
        /\ UNCHANGED <<queue, session, connected, outstanding, faultVars>>
        /\ toServer' = toServer
        /\ UNCHANGED serverVars
  BY DEF ClientStep, Call, CallWithoutKey
<1>2. UNCHANGED <<execs, nextSeq, stayConnected, rpcHost, store, toClient>>
  BY <1>1 DEF serverVars
<1>3. t0 \in Tags /\ calls \in Nat
  BY <1>1, CommonAssumption DEF SInv, IInv, TypeOK, Tags
<1>4. status[t0] = "unissued"
  BY <1>3 DEF SInv, IInv, CallOrder
<1>5. /\ \A t \in Tags : t # t0 => req'[t] = req[t] /\ status'[t] = status[t]
      /\ req'[t0] = [op |-> op, key |-> key]
      /\ status'[t0] \in {"called", "refused"}
  BY <1>1, <1>3 DEF SInv, IInv, TypeOK
<1>6. AcceptedStays
  BY AcceptedStaysNext
<1>7. SystemTypeOK'
  BY <1>1, <1>2 DEF SInv, SystemTypeOK, IInv
<1>8. SessionOrder' /\ CallHasKey'
  BY <1>1, <1>2, <1>5 DEF SInv, SessionOrder, CallHasKey
<1>9. RequestsMatchCalls' /\ BuffersOfGets'
  BY <1>1, <1>2, <1>6, MatchesStays, BuffersOfGetsStays
     DEF SInv, RequestsMatchCalls
<1>10. SUFFICES ASSUME ~Faulty' PROVE Clean'
  BY <1>7, <1>8, <1>9 DEF SInv
<1>11. Clean
  BY <1>1, <1>10 DEF SInv, Faulty, faultVars
<1>12. BuffersHeld' /\ OneAnswer' /\ ResponsesTruthful' /\ Acknowledged'
  BY <1>1, <1>2, <1>11 DEF Clean, BuffersHeld, HeldBySlot, OneAnswer,
                           ResponsesTruthful, Truthful, Acknowledged
<1>13. ExecutedOnce'
  <2>1. execs[t0] = <<>>
    BY <1>3, <1>4, <1>11 DEF Clean, ExecutedOnce, NotAccepted
  <2>2. ASSUME NEW t \in Tags, execs'[t] # <<>>
        PROVE  /\ status'[t] \notin NotAccepted
               /\ Head(execs'[t]) \in Outcomes(req'[t].op)
    <3>1. t # t0 /\ execs[t] # <<>>
      BY <1>2, <2>1, <2>2
    <3> QED BY <1>2, <1>5, <1>11, <3>1 DEF Clean, ExecutedOnce
  <2>3. ASSUME NEW o \in toServer', o.op # "ERR"
        PROVE  /\ execs'[o.tag] = <<>>
               /\ status'[o.tag] \in {"pending", "TIMEOUT"}
    <3>1. /\ o.tag \in Tags
          /\ execs[o.tag] = <<>> /\ status[o.tag] \in {"pending", "TIMEOUT"}
      BY <1>1, <1>11, <2>3 DEF SInv, Clean, ExecutedOnce,
                                RequestsMatchCalls, MatchesCall
    <3>2. o.tag # t0
      BY <1>4, <3>1
    <3> QED BY <1>2, <1>5, <3>1, <3>2
  <2> QED BY <1>2, <1>11, <2>2, <2>3 DEF Clean, ExecutedOnce, Outcomes
<1> QED BY <1>12, <1>13 DEF Clean

-------------------------------------------------------------------------------
(***************************************************************************)
(* Filling a slot and sending                                              *)
(***************************************************************************)
\* A request goes to eRPC.  Its slot was free, so eRPC holds no other request
\* with these buffers; and no request of the same call is on its way.
LEMMA FillKeeps ==
  ASSUME SInv, IInv', StatusSteps, session = "connected",
         NEW op \in Ops, NEW key \in Keys \cup {NoKey},
         NEW tag \in Vals, NEW buf \in Vals, NEW encrypted \in BOOLEAN,
         FillAndSend(op, key, tag, buf, encrypted),
         toServer' = toServer \cup (outstanding' \ outstanding),
         UNCHANGED serverVars, UNCHANGED <<session, connected, req, faultVars>>,
         call' # "request",
         op = "GET" => buf = tag,
         op \in {"PUT", "DELETE"} => buf = NoTag,
         buf # NoTag => /\ buf \in Tags /\ req[buf].op = "GET"
                        /\ status'[buf] # "unissued",
         op = "ERR" => key = NoKey /\ tag = NoTag,
         op # "ERR" => /\ tag \in Tags /\ key \in Keys
                       /\ req[tag] = [op |-> op, key |-> key]
                       /\ status[tag] \in NotAccepted
                       /\ encrypted => status'[tag] = "pending",
         \A t \in Tags : status'[t] = status[t] \/ (op # "ERR" /\ t = tag)
  PROVE  SInv'
<1> PICK cs : cs = CurrentSlot
  OBVIOUS
<1> PICK new : new = [slot |-> cs, seq |-> currentSeq, op |-> op, key |-> key,
                      tag |-> tag]
  OBVIOUS
<1>1. /\ cs \in Slots
      /\ ~queue[cs].valid
      /\ \A i \in Slots : i # cs => queue'[i] = queue[i]
  BY FillAndSendEffect DEF SInv, IInv
<1>2. /\ queue'[cs] = [valid |-> encrypted, seq |-> currentSeq, op |-> op,
                       tag |-> tag, buf |-> buf]
      /\ outstanding' = IF encrypted THEN outstanding \cup {new}
                                     ELSE outstanding
  BY <1>1 DEF FillAndSend, PreparedTag, SInv, IInv, TypeOK
<1>3. /\ new.slot = cs /\ new.seq = currentSeq
      /\ new.op = op /\ new.key = key /\ new.tag = tag
  OBVIOUS
<1>4. toServer' \subseteq toServer \cup outstanding'
      /\ \A o \in toServer' : o \in toServer \/ (encrypted /\ o = new)
  BY <1>2
<1>5. UNCHANGED <<nextSeq, stayConnected, rpcHost, store, execs, toClient>>
  BY DEF serverVars
<1>6. AcceptedStays
  BY AcceptedStaysNext
<1>7. encrypted => MatchesCall(new)'
  BY <1>3 DEF MatchesCall, NotAccepted
<1>8. SystemTypeOK'
  <2>1. TypeOK' /\ outstanding' \subseteq Enqueued
    BY DEF IInv, TypeOK
  <2>2. toServer' \subseteq Enqueued
    BY <1>4, <2>1 DEF SInv, SystemTypeOK
  <2> QED BY <1>5, <2>1, <2>2 DEF SInv, SystemTypeOK
<1>9. SessionOrder' /\ CallHasKey'
  BY DEF SessionOrder, CallHasKey
<1>10. RequestsMatchCalls'
  BY <1>2, <1>4, <1>5, <1>6, <1>7, MatchesStays DEF SInv, RequestsMatchCalls
<1>11. BuffersOfGets'
  <2>1. queue'[cs].buf = buf
    BY <1>2
  <2>2. ASSUME NEW i \in Slots, i # cs, queue'[i].buf # NoTag
        PROVE  /\ queue'[i].buf \in Tags
               /\ req'[queue'[i].buf].op = "GET"
               /\ status'[queue'[i].buf] # "unissued"
    <3>1. PICK b : b = queue[i].buf
      OBVIOUS
    <3>2. /\ b \in Tags /\ req[b].op = "GET" /\ status[b] # "unissued"
          /\ queue'[i].buf = b
      BY <1>1, <2>2, <3>1 DEF SInv, BuffersOfGets
    <3>3. status'[b] # "unissued"
      BY <3>2 DEF StatusSteps, Abstract!Progress, Abstract!Ended
    <3> QED BY <3>2, <3>3
  <2> QED BY <2>1, <2>2 DEF BuffersOfGets
<1>12. SUFFICES ASSUME ~Faulty' PROVE Clean'
  BY <1>8, <1>9, <1>10, <1>11 DEF SInv
<1>13. ~Faulty /\ Clean
  BY <1>12 DEF SInv, Faulty, faultVars
<1>14. \A o \in outstanding : o.slot \in Slots /\ o.slot # cs
  BY <1>1, <1>13 DEF SInv, IInv, TypeOK, Enqueued, Clean, BuffersHeld,
                     HeldBySlot
<1>15. /\ new \notin outstanding
       /\ toServer' = IF encrypted THEN toServer \cup {new} ELSE toServer
  BY <1>2, <1>3, <1>14
<1>16. BuffersHeld'
  <2>1. encrypted => HeldBySlot(new)'
    BY <1>2, <1>3 DEF HeldBySlot, NotAccepted
  <2>2. \A o \in outstanding : HeldBySlot(o)'
    BY <1>1, <1>13, <1>14 DEF Clean, BuffersHeld, HeldBySlot
  <2> QED BY <1>2, <2>1, <2>2 DEF BuffersHeld
<1>17. OneAnswer'
  <2>1. toServer \subseteq outstanding /\ \A r \in toClient : r.o \in outstanding
    BY <1>13 DEF Clean, OneAnswer
  <2>2. NoTag \notin Tags
    BY DEF Tags, NoTag
  <2>3. \A p \in toServer : op # "ERR" \/ p.op # "ERR" => p.tag # tag
    <3>1. \A p \in toServer :
            /\ p.op # "ERR" => p.tag \in Tags /\ status[p.tag] \notin NotAccepted
            /\ p.op = "ERR" => p.tag = NoTag
      BY DEF SInv, RequestsMatchCalls, MatchesCall
    <3> QED BY <2>2, <3>1
  <2>4. \A o, p \in toServer' : o.tag = p.tag /\ o.op # "ERR" => o = p
    BY <1>3, <1>13, <1>15, <2>3 DEF Clean, OneAnswer
  <2>5. toServer' \subseteq outstanding'
    BY <1>2, <1>15, <2>1
  <2>6. \A r \in toClient : r.o \notin toServer' /\ r.o \in outstanding'
    BY <1>2, <1>13, <1>15, <2>1 DEF Clean, OneAnswer
  <2> QED BY <1>5, <1>13, <2>4, <2>5, <2>6 DEF Clean, OneAnswer
<1>18. ExecutedOnce'
  <2>1. op # "ERR" => execs[tag] = <<>>
    BY <1>13 DEF Clean, ExecutedOnce
  <2>2. ASSUME NEW t \in Tags, execs[t] # <<>>
        PROVE  status'[t] \notin NotAccepted
    BY <1>13, <2>1, <2>2 DEF Clean, ExecutedOnce
  <2>3. ASSUME NEW o \in toServer', o.op # "ERR"
        PROVE  /\ execs[o.tag] = <<>>
               /\ status'[o.tag] \in {"pending", "TIMEOUT"}
    <3>1. CASE o \in toServer
      BY <1>13, <2>3, <3>1 DEF SInv, Clean, ExecutedOnce, RequestsMatchCalls,
                               MatchesCall
    <3>2. CASE o = new /\ encrypted
      BY <1>3, <2>1, <2>3, <3>2
    <3> QED BY <1>4, <3>1, <3>2
  <2> QED BY <1>5, <1>13, <2>2, <2>3 DEF Clean, ExecutedOnce, Outcomes
<1>19. ResponsesTruthful' /\ Acknowledged'
  BY <1>5, <1>13 DEF Clean, ResponsesTruthful, Truthful, Acknowledged
<1> QED BY <1>16, <1>17, <1>18, <1>19 DEF Clean

\* get, put and del send the request of their own call.
LEMMA SendRequestKeeps ==
  ASSUME SInv, IInv', StatusSteps, ClientStep(SendRequest)
  PROVE  SInv'
<1> DEFINE op == req[calls].op
           key == req[calls].key
           buf == IF op = "GET" THEN calls ELSE NoTag
<1>1. PICK encrypted \in BOOLEAN :
        /\ FillAndSend(op, key, calls, buf, encrypted)
        /\ status' = [status EXCEPT ![calls] =
                        IF encrypted THEN "pending" ELSE "refused"]
  BY DEF ClientStep, SendRequest, CryptoOutcomes
<1>2. /\ call = "request" /\ call' = "idle"
      /\ UNCHANGED <<session, connected, calls, req, faultVars>>
      /\ toServer' = toServer \cup (outstanding' \ outstanding)
      /\ UNCHANGED serverVars
  BY DEF ClientStep, SendRequest
<1>3. calls \in Tags /\ op \in Ops /\ op # "ERR" /\ key \in Keys
  BY <1>2 DEF SInv, IInv, CallOrder, TypeOK, CallHasKey
<1>4. calls \in Vals /\ buf \in Vals
  BY <1>3 DEF Vals
<1>5. status[calls] \in NotAccepted
  BY <1>2, <1>3 DEF SInv, IInv, CallOrder, NotAccepted
<1>6. req[calls] = [op |-> op, key |-> key]
  BY <1>3 DEF SInv, IInv, TypeOK
<1>7. /\ status'[calls] = IF encrypted THEN "pending" ELSE "refused"
      /\ \A t \in Tags : t # calls => status'[t] = status[t]
  BY <1>1, <1>3 DEF SInv, IInv, TypeOK
<1>8. /\ op = "GET" => buf = calls
      /\ op \in {"PUT", "DELETE"} => buf = NoTag
      /\ buf # NoTag => op = "GET" /\ buf = calls
  OBVIOUS
<1>9. session = "connected"
  BY <1>2 DEF SInv, SessionOrder
<1>10. key \in Keys \cup {NoKey} /\ call' # "request"
  BY <1>2, <1>3
<1>11. buf # NoTag => /\ buf \in Tags /\ req[buf].op = "GET"
                      /\ status'[buf] # "unissued"
  BY <1>3, <1>7, <1>8
<1> HIDE DEF op, key, buf
<1> QED
  BY <1>1, <1>2, <1>3, <1>4, <1>5, <1>6, <1>7, <1>8, <1>9, <1>10, <1>11,
     FillKeeps

\* prepare_disconnect and disconnect send a disconnect message.
LEMMA SendDisconnectKeeps ==
  ASSUME SInv, IInv', StatusSteps,
         ClientStep(PrepareDisconnectSend) \/ ClientStep(DisconnectSend)
  PROVE  SInv'
<1> DEFINE buf == queue[CurrentSlot].buf
<1>1. /\ session = "connected" /\ call' # "request"
      /\ SendDisconnectMessage
      /\ UNCHANGED <<session, connected, req, status, faultVars>>
      /\ toServer' = toServer \cup (outstanding' \ outstanding)
      /\ UNCHANGED serverVars
  BY DEF ClientStep, PrepareDisconnectSend, DisconnectSend, SInv, SessionOrder
<1>2. PICK encrypted \in BOOLEAN :
        FillAndSend("ERR", NoKey, NoTag, buf, encrypted)
  BY <1>1 DEF SendDisconnectMessage, CryptoOutcomes
<1>3. buf \in Vals /\ NoTag \in Vals /\ "ERR" \in Ops
  BY IndexInSlots DEF SInv, IInv, TypeOK, MsgTags, CurrentSlot, Vals, Ops
<1>4. buf # NoTag => /\ buf \in Tags /\ req[buf].op = "GET"
                     /\ status'[buf] # "unissued"
  <2>1. CurrentSlot \in Slots
    BY IndexInSlots DEF SInv, IInv, TypeOK, CurrentSlot
  <2> QED BY <1>1, <2>1 DEF SInv, BuffersOfGets
<1> HIDE DEF buf
<1> QED BY <1>1, <1>2, <1>3, <1>4, FillKeeps

-------------------------------------------------------------------------------
\* The end of the session: requests on their way may still be executed.
LEMMA DestroySessionKeeps ==
  ASSUME SInv, IInv', StatusSteps, ClientStep(DestroySession)
  PROVE  SInv'
<1>1. /\ call = "disc_sent" /\ call' = "idle"
      /\ \/ session' = "destroyed" /\ outstanding' = {}
         \/ /\ destroyFails' = destroyFails + 1
            /\ session' = session /\ outstanding' = outstanding
      /\ InvalidateAll
      /\ UNCHANGED <<req, garbled>>
      /\ toServer' = toServer \cup (outstanding' \ outstanding)
      /\ UNCHANGED serverVars
  BY DEF ClientStep, DestroySession
<1>2. UNCHANGED <<nextSeq, stayConnected, rpcHost, store, execs, toClient>>
  BY <1>1 DEF serverVars
<1>3. toServer' = toServer /\ session = "connected" /\ session' # "none"
      /\ outstanding' \subseteq outstanding
  BY <1>1 DEF SInv, SessionOrder
<1>4. AcceptedStays
  BY AcceptedStaysNext
<1>5. SystemTypeOK'
  BY <1>2, <1>3 DEF SInv, SystemTypeOK, IInv
<1>6. SessionOrder' /\ CallHasKey'
  BY <1>1, <1>3 DEF SessionOrder, CallHasKey
<1>7. RequestsMatchCalls'
  BY <1>2, <1>3, <1>4, MatchesStays DEF SInv, RequestsMatchCalls
<1>8. BuffersOfGets'
  <2>1. \A i \in Slots : queue'[i].buf = queue[i].buf
    BY <1>1 DEF InvalidateAll, SInv, IInv, TypeOK, MsgTags
  <2> QED BY <2>1, BuffersOfGetsStays DEF SInv
<1>9. SUFFICES ASSUME ~Faulty' PROVE Clean'
  BY <1>5, <1>6, <1>7, <1>8 DEF SInv
<1>10. destroyFails \in Nat /\ destroyFails' \in Nat
  BY CommonAssumption DEF SInv, IInv, TypeOK
<1>11. session' = "destroyed" /\ outstanding' = {}
  BY <1>1, <1>9, <1>10 DEF Faulty
<1>12. Clean
  <2>1. ~garbled' /\ destroyFails' <= 0
    BY <1>9, <1>10 DEF Faulty
  <2>2. destroyFails' = destroyFails
    BY <1>3, <1>11 DEF ClientStep, DestroySession
  <2> QED BY <1>1, <1>10, <2>1, <2>2 DEF SInv, Faulty
<1>13. BuffersHeld' /\ Acknowledged'
  BY <1>11 DEF BuffersHeld, Acknowledged
<1>14. OneAnswer' /\ ResponsesTruthful'
  BY <1>2, <1>3, <1>11, <1>12 DEF Clean, OneAnswer, ResponsesTruthful, Truthful
<1>15. ExecutedOnce'
  <2>1. \A t \in Tags : status[t] = "pending" => status'[t] \in {"pending", "TIMEOUT"}
    BY <1>1 DEF InvalidateAll
  <2>2. \A t \in Tags : status[t] = "TIMEOUT" => status'[t] = "TIMEOUT"
    BY DEF StatusSteps, Abstract!Progress, Abstract!Ended
  <2>3. \A o \in toServer : o.op # "ERR" => o.tag \in Tags
    BY DEF SInv, RequestsMatchCalls, MatchesCall
  <2> QED
    BY <1>1, <1>2, <1>3, <1>4, <1>12, <2>1, <2>2, <2>3
       DEF Clean, ExecutedOnce, Outcomes, AcceptedStays
<1> QED BY <1>13, <1>14, <1>15 DEF Clean

-------------------------------------------------------------------------------
(***************************************************************************)
(* req_handler                                                             *)
(***************************************************************************)
\* The handler of request o executes call o.tag, for the first time, with
\* outcome e and answers accordingly, or acknowledges a disconnect request.
LEMMA RespondKeeps ==
  ASSUME SInv, IInv', StatusSteps, NEW o \in toServer,
         UNCHANGED <<clientVars, rpcHost>>, toServer' = toServer \ {o},
         NEW op \in Ops, NEW val \in Vals, Respond(o, WireMessage(o), op, val),
         stayConnected' \in BOOLEAN, stayConnected' => stayConnected,
         store' \in [Keys -> Vals],
         \/ /\ o.op = "ERR" /\ val = NoTag
            /\ ~stayConnected' /\ execs' = execs
         \/ /\ o.op # "ERR"
            /\ \E e \in Outcomes(o.op) :
                 /\ execs' = [execs EXCEPT ![o.tag] = Append(@, e)]
                 /\ (op = o.op <=> e.ok) /\ val = e.val
  PROVE  SInv'
<1>1. UNCHANGED <<queue, session, connected, call, calls, req, status,
                  outstanding, faultVars>>
  BY DEF clientVars
<1>2. o \in Enqueued /\ MatchesCall(o)
  BY DEF SInv, SystemTypeOK, RequestsMatchCalls
<1>3. PICK m : m = [id |-> ClientId, op |-> op, seq |-> NextSeq(o.seq),
                    val |-> val]
  OBVIOUS
<1>4. m \in Responses
  BY <1>2, <1>3, CommonAssumption, SeqRange DEF Responses, Enqueued
<1>5. PICK new : new = [o |-> o, msg |-> m]
  OBVIOUS
<1>6. new.o = o /\ new.msg = m
  BY <1>5
<1>7. toClient' \in {toClient, toClient \cup {new}}
  <2>1. [o |-> o, msg |-> [id |-> WireMessage(o).id, op |-> op,
                           seq |-> NextSeq(WireMessage(o).seq), val |-> val]]
          = new
    BY <1>3, <1>5 DEF WireMessage
  <2> QED BY <2>1 DEF Respond
<1>8. nextSeq' \in Seqs
  BY <1>2, SeqRange DEF Respond, SeqAfter, WireMessage, Enqueued
<1>9. SystemTypeOK'
  BY <1>2, <1>4, <1>6, <1>7, <1>8 DEF SInv, SystemTypeOK, IInv
<1>10. RequestsMatchCalls'
  <2>1. \A p : MatchesCall(p)' <=> MatchesCall(p)
    BY <1>1 DEF MatchesCall
  <2> QED BY <1>1, <1>2, <1>6, <1>7, <2>1 DEF SInv, RequestsMatchCalls
<1>11. SessionOrder' /\ CallHasKey' /\ BuffersOfGets'
  <2>1. session # "none"
    BY DEF SInv, SessionOrder
  <2> QED BY <1>1, <2>1, BuffersOfGetsStays DEF SInv, SessionOrder, CallHasKey
<1>12. SUFFICES ASSUME ~Faulty' PROVE Clean'
  BY <1>9, <1>10, <1>11 DEF SInv
<1>13. Clean
  BY <1>1, <1>12 DEF SInv, Faulty, faultVars
<1>14. /\ \A q \in toClient : q.o # o
       /\ \A p \in toServer : p.op # "ERR" /\ p # o => p.tag # o.tag
  BY <1>13 DEF Clean, OneAnswer
<1>15. OneAnswer'
  <2>1. session = "connected" => o \in outstanding
    BY <1>13 DEF Clean, OneAnswer
  <2>2. \A r \in toClient' : r \in toClient \/ r = new
    BY <1>7
  <2>3. session' = "connected" =>
          /\ toServer' \subseteq outstanding'
          /\ \A r \in toClient' : r.o \in outstanding'
    BY <1>1, <1>6, <1>13, <2>1, <2>2 DEF Clean, OneAnswer
  <2>4. \A r \in toClient' : r.o \notin toServer'
    BY <1>6, <1>13, <2>2 DEF Clean, OneAnswer
  <2>5. \A r, q \in toClient' : r.o = q.o => r = q
    BY <1>6, <1>13, <1>14, <2>2 DEF Clean, OneAnswer
  <2>6. \A p, q \in toServer' : p.tag = q.tag /\ p.op # "ERR" => p = q
    BY <1>13 DEF Clean, OneAnswer
  <2> QED BY <2>3, <2>4, <2>5, <2>6 DEF OneAnswer
<1>16. BuffersHeld' /\ Acknowledged'
  BY <1>1, <1>13 DEF Clean, BuffersHeld, HeldBySlot, Acknowledged
<1>17. CASE o.op = "ERR"
  <2>1. ExecutedOnce'
    BY <1>1, <1>13, <1>17 DEF Clean, ExecutedOnce, Outcomes
  <2>2. Truthful(new)'
    BY <1>3, <1>6, <1>17 DEF Truthful
  <2>3. \A r \in toClient : Truthful(r)'
    BY <1>13, <1>17 DEF Clean, ResponsesTruthful, Truthful
  <2>4. ResponsesTruthful'
    BY <1>7, <2>2, <2>3 DEF ResponsesTruthful
  <2> QED BY <1>15, <1>16, <2>1, <2>4 DEF Clean
<1>18. CASE o.op # "ERR"
  <2>1. PICK e \in Outcomes(o.op) :
          /\ execs' = [execs EXCEPT ![o.tag] = Append(@, e)]
          /\ (op = o.op <=> e.ok) /\ val = e.val
    BY <1>18
  <2>2. /\ o.tag \in Tags /\ req[o.tag].op = o.op
        /\ status[o.tag] \notin NotAccepted
    BY <1>2, <1>18 DEF MatchesCall
  <2>3. /\ execs \in [Tags -> {<<>>} \cup
                              {<<x>> : x \in [ok : BOOLEAN, val : Vals]}]
        /\ execs[o.tag] = <<>>
    BY <1>13, <1>18 DEF Clean, ExecutedOnce
  <2>4. Append(<<>>, e) = <<e>> /\ Head(<<e>>) = e /\ <<e>> # <<>>
    BY Singleton
  <2>5. /\ execs'[o.tag] = <<e>>
        /\ \A t \in Tags : t # o.tag => execs'[t] = execs[t]
    BY <2>1, <2>2, <2>3, <2>4
  <2>6. e \in [ok : BOOLEAN, val : Vals]
    BY DEF Outcomes
  <2>7. execs' \in [Tags -> {<<>>} \cup
                            {<<x>> : x \in [ok : BOOLEAN, val : Vals]}]
    <3>1. execs' = [execs EXCEPT ![o.tag] = <<e>>]
      BY <2>1, <2>3, <2>4
    <3>2. <<e>> \in {<<x>> : x \in [ok : BOOLEAN, val : Vals]}
      BY <2>6
    <3> QED BY <2>3, <3>1, <3>2
  <2>8. ExecutedOnce'
    <3>1. ASSUME NEW t \in Tags, execs'[t] # <<>>
          PROVE  status[t] \notin NotAccepted
                 /\ Head(execs'[t]) \in Outcomes(req[t].op)
      <4>1. CASE t = o.tag
        BY <2>2, <2>4, <2>5, <4>1
      <4>2. CASE t # o.tag
        BY <1>13, <2>5, <3>1, <4>2 DEF Clean, ExecutedOnce
      <4> QED BY <4>1, <4>2
    <3>2. ASSUME NEW p \in toServer', p.op # "ERR"
          PROVE  execs'[p.tag] = <<>> /\ status[p.tag] \in {"pending", "TIMEOUT"}
      <4>1. p.tag # o.tag
        BY <1>14, <3>2
      <4>2. p.tag \in Tags
        BY <3>2 DEF SInv, RequestsMatchCalls, MatchesCall
      <4> QED BY <1>13, <2>5, <3>2, <4>1, <4>2 DEF Clean, ExecutedOnce
    <3> QED BY <1>1, <2>7, <3>1, <3>2 DEF ExecutedOnce, Outcomes
  <2>9. Truthful(new)'
    BY <1>3, <1>6, <1>18, <2>1, <2>4, <2>5 DEF Truthful
  <2>10. ASSUME NEW r \in toClient PROVE Truthful(r)'
    <3>1. Truthful(r) /\ MatchesCall(r.o)
      BY <1>13 DEF SInv, Clean, ResponsesTruthful, RequestsMatchCalls
    <3>2. CASE r.o.op = "ERR"
      BY <3>1, <3>2 DEF Truthful
    <3>3. CASE r.o.op # "ERR"
      <4>1. r.o.tag \in Tags /\ execs[r.o.tag] # <<>>
        BY <3>1, <3>3 DEF Truthful, MatchesCall
      <4>2. execs'[r.o.tag] = execs[r.o.tag]
        BY <2>3, <2>5, <4>1
      <4> QED BY <3>1, <3>3, <4>2 DEF Truthful
    <3> QED BY <3>2, <3>3
  <2>11. ResponsesTruthful'
    BY <1>7, <2>9, <2>10 DEF ResponsesTruthful
  <2> QED BY <1>15, <1>16, <2>8, <2>11 DEF Clean
<1> QED BY <1>17, <1>18

\* What the KV-store does with an accepted request.
StoreExecutes(o, e) ==
  \/ /\ o.op = "GET"
     /\ e = [ok |-> store[o.key] # NoTag, val |-> store[o.key]]
     /\ store' = store
  \/ /\ o.op = "PUT"
     /\ \E ok \in BOOLEAN :
          /\ e = [ok |-> ok, val |-> NoTag]
          /\ store' = IF ok THEN [store EXCEPT ![o.key] = o.tag] ELSE store
  \/ /\ o.op = "DELETE"
     /\ e = [ok |-> store[o.key] # NoTag, val |-> NoTag]
     /\ store' = [store EXCEPT ![o.key] = NoTag]

\* The three handlers are alike: execute, record, answer.
LEMMA HandlerExecutes ==
  ASSUME NEW o, o.op # "ERR",
         \/ SendResponseGet(o, WireMessage(o))
         \/ SendResponsePut(o, WireMessage(o))
         \/ SendResponseDelete(o, WireMessage(o))
  PROVE  \E e \in [ok : BOOLEAN, val : {store[o.key], NoTag}] :
           /\ StoreExecutes(o, e)
           /\ execs' = [execs EXCEPT ![o.tag] = Append(@, e)]
           /\ Respond(o, WireMessage(o), IF e.ok THEN o.op ELSE "ERR", e.val)
<1> DEFINE m == WireMessage(o)
<1>1. /\ m.op = o.op /\ m.key = o.key /\ m.tag = o.tag
      /\ o.op = "PUT" => m.val = o.tag
  BY DEF WireMessage
<1> HIDE DEF m
<1>2. CASE SendResponseGet(o, m)
  <2> DEFINE e == [ok |-> store[o.key] # NoTag, val |-> store[o.key]]
  <2>1. e \in [ok : BOOLEAN, val : {store[o.key], NoTag}]
    OBVIOUS
  <2>2. /\ o.op = "GET"
        /\ execs' = [execs EXCEPT ![o.tag] = Append(@, e)]
        /\ Respond(o, m, IF e.ok THEN o.op ELSE "ERR", e.val)
        /\ store' = store
    BY <1>1, <1>2 DEF SendResponseGet, Executed
  <2>3. StoreExecutes(o, e)
    BY <2>2 DEF StoreExecutes
  <2> HIDE DEF e
  <2> QED BY <2>1, <2>2, <2>3 DEF m
<1>3. CASE SendResponsePut(o, m)
  <2>1. PICK ok \in BOOLEAN :
          /\ store' = IF ok THEN [store EXCEPT ![m.key] = m.val] ELSE store
          /\ Executed(m.tag, ok, NoTag)
          /\ Respond(o, m, IF ok THEN "PUT" ELSE "ERR", NoTag)
    BY <1>3 DEF SendResponsePut
  <2> DEFINE e == [ok |-> ok, val |-> NoTag]
  <2>2. e \in [ok : BOOLEAN, val : {store[o.key], NoTag}]
        /\ e.ok = ok /\ e.val = NoTag
    OBVIOUS
  <2>3. o.op = "PUT"
    BY <1>1, <1>3 DEF SendResponsePut
  <2>4. /\ execs' = [execs EXCEPT ![o.tag] = Append(@, e)]
        /\ Respond(o, m, IF e.ok THEN o.op ELSE "ERR", e.val)
    BY <1>1, <2>1, <2>3 DEF Executed
  <2>5. StoreExecutes(o, e)
    BY <1>1, <2>1, <2>3 DEF StoreExecutes
  <2> HIDE DEF e
  <2> QED BY <2>2, <2>4, <2>5 DEF m
<1>4. CASE SendResponseDelete(o, m)
  <2> DEFINE e == [ok |-> store[o.key] # NoTag, val |-> NoTag]
  <2>1. e \in [ok : BOOLEAN, val : {store[o.key], NoTag}]
    OBVIOUS
  <2>2. /\ o.op = "DELETE"
        /\ execs' = [execs EXCEPT ![o.tag] = Append(@, e)]
        /\ Respond(o, m, IF e.ok THEN o.op ELSE "ERR", e.val)
        /\ store' = [store EXCEPT ![o.key] = NoTag]
    BY <1>1, <1>4 DEF SendResponseDelete, Executed
  <2>3. StoreExecutes(o, e)
    BY <2>2 DEF StoreExecutes
  <2> HIDE DEF e
  <2> QED BY <2>1, <2>2, <2>3 DEF m
<1> QED BY <1>2, <1>3, <1>4 DEF m

\* An execution keeps the store a map and reports what a response may carry.
LEMMA StoreExecutesType ==
  ASSUME SInv, NEW o \in toServer, o.op # "ERR",
         NEW e \in [ok : BOOLEAN, val : {store[o.key], NoTag}],
         StoreExecutes(o, e)
  PROVE  e \in Outcomes(o.op) /\ store' \in [Keys -> Vals]
<1>1. /\ o.key \in Keys /\ o.tag \in Tags
      /\ store \in [Keys -> Vals] /\ store[o.key] \in Vals
  BY DEF SInv, RequestsMatchCalls, MatchesCall, SystemTypeOK
<1>2. NoTag \in Vals /\ o.tag \in Vals
  BY <1>1 DEF Vals
<1>3. e \in [ok : BOOLEAN, val : Vals]
  BY <1>1, <1>2
<1>4. CASE o.op = "GET"
  <2>1. e = [ok |-> store[o.key] # NoTag, val |-> store[o.key]]
        /\ store' = store
    BY <1>4 DEF StoreExecutes
  <2>2. e.val # NoTag <=> e.ok
    BY <2>1
  <2> QED BY <1>1, <1>3, <1>4, <2>1, <2>2 DEF Outcomes
<1>5. CASE o.op = "PUT"
  <2>1. PICK ok \in BOOLEAN :
          /\ e = [ok |-> ok, val |-> NoTag]
          /\ store' = IF ok THEN [store EXCEPT ![o.key] = o.tag] ELSE store
    BY <1>5 DEF StoreExecutes
  <2>2. e.val = NoTag
    BY <2>1
  <2>3. store' \in [Keys -> Vals]
    BY <1>1, <1>2, <2>1
  <2> QED BY <1>3, <1>5, <2>2, <2>3 DEF Outcomes
<1>6. CASE o.op = "DELETE"
  <2>1. /\ e = [ok |-> store[o.key] # NoTag, val |-> NoTag]
        /\ store' = [store EXCEPT ![o.key] = NoTag]
    BY <1>6 DEF StoreExecutes
  <2>2. e.val = NoTag
    BY <2>1
  <2> QED BY <1>1, <1>2, <1>3, <1>6, <2>1, <2>2 DEF Outcomes
<1> QED BY <1>4, <1>5, <1>6 DEF StoreExecutes

\* A request reaches req_handler.
LEMMA ServeKeeps ==
  ASSUME SInv, IInv', StatusSteps, NEW o \in toServer, Serve(o)
  PROVE  SInv'
<1>1. /\ ReqHandler(o, WireMessage(o))
      /\ toServer' = toServer \ {o}
      /\ UNCHANGED clientVars /\ rpcHost' = rpcHost
  BY DEF Serve, ReqHandler
<1>2. WireMessage(o).op = o.op /\ o.op \in Ops
  BY DEF WireMessage, SInv, SystemTypeOK, Enqueued
<1>3. CASE DropRequest
  <2>1. UNCHANGED <<nextSeq, stayConnected, store, execs, toClient>>
    BY <1>3 DEF DropRequest
  <2> QED BY <1>1, <2>1, IdleClientKeeps DEF SInv, SystemTypeOK
<1>4. CASE SendResponseDisconnect(o, WireMessage(o))
  <2>1. /\ o.op = "ERR"
        /\ Respond(o, WireMessage(o), "ERR", NoTag)
        /\ stayConnected' = FALSE /\ store' = store /\ execs' = execs
    BY <1>2, <1>4 DEF SendResponseDisconnect
  <2>2. "ERR" \in Ops /\ NoTag \in Vals /\ store \in [Keys -> Vals]
    BY DEF Ops, Vals, SInv, SystemTypeOK
  <2> QED BY <1>1, <2>1, <2>2, RespondKeeps
<1>5. CASE /\ Accepted(WireMessage(o))
           /\ \/ SendResponseGet(o, WireMessage(o))
              \/ SendResponsePut(o, WireMessage(o))
              \/ SendResponseDelete(o, WireMessage(o))
           /\ UNCHANGED stayConnected
  <2>1. o.op # "ERR"
    BY <1>2, <1>5 DEF Accepted
  <2>2. PICK e \in [ok : BOOLEAN, val : {store[o.key], NoTag}] :
          /\ StoreExecutes(o, e)
          /\ execs' = [execs EXCEPT ![o.tag] = Append(@, e)]
          /\ Respond(o, WireMessage(o), IF e.ok THEN o.op ELSE "ERR", e.val)
    BY <1>5, <2>1, HandlerExecutes
  <2>3. e \in Outcomes(o.op) /\ store' \in [Keys -> Vals]
    BY <2>1, <2>2, StoreExecutesType
  <2>4. e.ok \in BOOLEAN /\ e.val \in Vals
    BY <2>3 DEF Outcomes
  <2>5. PICK op : op = IF e.ok THEN o.op ELSE "ERR"
    OBVIOUS
  <2>6. op \in Ops /\ (op = o.op <=> e.ok)
    BY <1>2, <2>1, <2>4, <2>5 DEF Ops
  <2>7. Respond(o, WireMessage(o), op, e.val)
    BY <2>2, <2>5
  <2>8. stayConnected' \in BOOLEAN /\ stayConnected' = stayConnected
    BY <1>5 DEF SInv, SystemTypeOK
  <2> QED BY <1>1, <2>1, <2>2, <2>3, <2>4, <2>6, <2>7, <2>8, RespondKeeps
<1> QED BY <1>1, <1>3, <1>4, <1>5 DEF ReqHandler

-------------------------------------------------------------------------------
(***************************************************************************)
(* The continuation                                                        *)
(***************************************************************************)
\* What the application is told by response r.
Reported(r) == IF r.msg.op = r.o.op THEN "OP_SUCCESS" ELSE "OP_FAILED"

\* Up to the first fault, a response of the server that decrypts matches the
\* request whose continuation runs, and ends exactly that request.
LEMMA ContinuationEndsItsRequest ==
  ASSUME SInv, ~Faulty, NEW r \in toClient, DecryptContFunc(r.o, r.msg)
  PROVE  /\ r.o \in outstanding /\ r.o.slot \in Slots
         /\ outstanding' = outstanding \ {r.o}
         /\ HeldBySlot(r.o) /\ MatchesCall(r.o) /\ Truthful(r)
         /\ Invalidate(Reported(r), r.o.slot)
         /\ userBuf' \in BuffersAfterDecrypt(queue[r.o.slot], r.msg)
         /\ r.msg # Undecryptable
         /\ UNCHANGED <<currentSeq, session, call, loops, calls, req>>
         /\ Faulty' = Faulty
<1> PICK o : o = r.o
  OBVIOUS
<1> PICK msg : msg = r.msg
  OBVIOUS
<1> DEFINE s == queue[o.slot]
<1>1. /\ o \in outstanding /\ outstanding' = outstanding \ {o}
      /\ userBuf' \in BuffersAfterDecrypt(s, msg)
      /\ UNCHANGED <<currentSeq, session, call, loops, calls, req>>
  BY DEF DecryptContFunc
<1>2. HeldBySlot(o) /\ MatchesCall(o) /\ Truthful(r) /\ msg \in Responses
      /\ o \in Enqueued /\ o.slot \in Slots /\ o.seq \in Seqs
  BY <1>1 DEF SInv, Clean, BuffersHeld, RequestsMatchCalls, ResponsesTruthful,
              SystemTypeOK, IInv, TypeOK, Enqueued
<1>3. msg # Undecryptable
  <2>1. "id" \in DOMAIN msg
    BY <1>2 DEF Responses
  <2>2. DOMAIN Undecryptable = {"garbled"}
    BY DEF Undecryptable
  <2> QED BY <2>1, <2>2
<1>4. s.seq = o.seq /\ s.op = o.op /\ s.valid
  BY <1>2 DEF HeldBySlot
<1>5. ResponseMatches(s, msg)
  BY <1>2, <1>4 DEF ResponseMatches, Truthful
<1>6. ArrivedSlot(msg.seq) = o.slot
  <2>1. AcceptedIndex(s.seq) = o.slot
    BY <1>1 DEF SInv, IInv, SlotOfOutstanding
  <2> QED BY <1>2, <1>4, <2>1, PrevOfNext DEF ArrivedSlot, Truthful
<1>7. MessageArrived(IF msg.op = s.op THEN "OP_SUCCESS" ELSE "OP_FAILED",
                     ArrivedSlot(msg.seq))
  BY <1>3, <1>5 DEF DecryptContFunc
<1>8. Invalidate(Reported(r), o.slot)
  BY <1>4, <1>6, <1>7 DEF MessageArrived, Reported
<1>9. Faulty' = Faulty
  BY <1>3 DEF DecryptContFunc, Faulty
<1> QED BY <1>1, <1>2, <1>3, <1>8, <1>9

\* Slots, statuses and the flag connected after the continuation.
LEMMA InvalidateEffect ==
  ASSUME SInv, NEW i \in Slots, NEW ret, Invalidate(ret, i)
  PROVE  /\ \A j \in Slots : j # i => queue'[j] = queue[j]
         /\ queue[i].op = "ERR" => connected' = FALSE /\ status' = status
         /\ queue[i].op # "ERR" =>
              /\ connected' = connected
              /\ status' = [status EXCEPT ![queue[i].tag] = ret]
<1>1. queue \in [Slots -> MsgTags]
  BY DEF SInv, IInv, TypeOK
<1> QED BY <1>1 DEF Invalidate

\* The response of a live session arrives, and decrypts or not.
LEMMA ContinuationKeeps ==
  ASSUME SInv, IInv', StatusSteps, NEW r \in toClient, ReceiveResponse(r),
         NEW msg \in {r.msg, Undecryptable}, DecryptContFunc(r.o, msg)
  PROVE  SInv'
<1> PICK o : o = r.o
  OBVIOUS
<1>1. /\ o \in outstanding
      /\ outstanding' = outstanding \ {o}
      /\ UNCHANGED <<session, call, calls, req>>
      /\ garbled' = (garbled \/ msg = Undecryptable)
      /\ UNCHANGED destroyFails
  BY DEF DecryptContFunc
<1>2. /\ toClient' = toClient \ {r}
      /\ UNCHANGED <<nextSeq, stayConnected, rpcHost, store, execs, toServer>>
  BY DEF ReceiveResponse
<1>3. session = "connected" /\ AcceptedStays
  BY <1>1, AcceptedStaysNext DEF SInv, SessionOrder
<1>4. RequestsMatchCalls'
  BY <1>1, <1>2, <1>3, MatchesStays DEF SInv, RequestsMatchCalls
<1>5. BuffersOfGets'
  <2>1. queue \in [Slots -> MsgTags]
    BY DEF SInv, IInv, TypeOK
  <2>2. ASSUME NEW i, NEW ret, MessageArrived(ret, i)
        PROVE  \A j \in Slots : queue'[j].buf = queue[j].buf
    BY <2>1, <2>2 DEF MessageArrived, Invalidate, NothingArrived, MsgTags
  <2>3. \A j \in Slots : queue'[j].buf = queue[j].buf
    BY <2>2 DEF DecryptContFunc, NothingArrived
  <2> QED BY <2>3, BuffersOfGetsStays DEF SInv
<1>6. SystemTypeOK' /\ SessionOrder' /\ CallHasKey'
  BY <1>1, <1>2, <1>3 DEF SInv, SystemTypeOK, IInv, SessionOrder, CallHasKey
<1>7. SUFFICES ASSUME ~Faulty' PROVE Clean'
  BY <1>4, <1>5, <1>6 DEF SInv
<1>8. ~Faulty /\ Clean /\ msg = r.msg
  BY <1>1, <1>7 DEF SInv, Faulty
<1>9. /\ o.slot \in Slots
      /\ HeldBySlot(o) /\ MatchesCall(o) /\ Truthful(r)
      /\ Invalidate(Reported(r), o.slot)
  BY <1>8, ContinuationEndsItsRequest
<1>10. queue[o.slot].op = o.op /\ queue[o.slot].tag = o.tag
  BY <1>9 DEF HeldBySlot
<1>11. /\ \A j \in Slots : j # o.slot => queue'[j] = queue[j]
       /\ o.op # "ERR" => connected' = connected
  <2>1. PICK i \in Slots : i = o.slot
    BY <1>9
  <2>2. PICK ret : ret = Reported(r)
    OBVIOUS
  <2>3. /\ \A j \in Slots : j # i => queue'[j] = queue[j]
        /\ queue[i].op # "ERR" => connected' = connected
    BY <1>9, <2>1, <2>2, InvalidateEffect
  <2> QED BY <1>10, <2>1, <2>3
<1>12. \A p \in outstanding : p # o => p.slot \in Slots /\ p.slot # o.slot
  BY <1>1, <1>8, SlotDeterminesRequest DEF SInv, IInv, TypeOK, Enqueued
<1>13. BuffersHeld'
  BY <1>1, <1>8, <1>11, <1>12 DEF Clean, BuffersHeld, HeldBySlot
<1>14. /\ \A p \in toServer : p \in outstanding'
       /\ \A q \in toClient' : q.o \in outstanding'
  BY <1>1, <1>2, <1>3, <1>8 DEF Clean, OneAnswer
<1>15. OneAnswer'
  BY <1>2, <1>8, <1>14 DEF Clean, OneAnswer
<1>16. ExecutedOnce'
  <2>1. ASSUME NEW p \in toServer, p.op # "ERR"
        PROVE  status'[p.tag] = "pending"
    <3>1. HeldBySlot(p)' /\ p.slot \in Slots
      BY <1>1, <1>12, <1>13, <1>14 DEF BuffersHeld
    <3>2. queue'[p.slot].valid /\ queue'[p.slot].op # "ERR"
          /\ queue'[p.slot].tag = p.tag
      BY <2>1, <3>1 DEF HeldBySlot
    <3> QED BY <3>1, <3>2 DEF IInv, PendingHasOneSlot
  <2> QED BY <1>1, <1>2, <1>3, <1>8, <2>1 DEF Clean, ExecutedOnce, Outcomes,
                                              AcceptedStays
<1>17. ResponsesTruthful'
  BY <1>2, <1>8 DEF Clean, ResponsesTruthful, Truthful
<1>18. Acknowledged'
  <2>1. CASE o.op = "ERR"
    BY <1>2, <1>9, <2>1 DEF Truthful, Acknowledged
  <2>2. CASE o.op # "ERR"
    BY <1>1, <1>2, <1>8, <1>11, <2>2 DEF Clean, Acknowledged
  <2> QED BY <2>1, <2>2
<1> QED BY <1>13, <1>15, <1>16, <1>17, <1>18 DEF Clean

-------------------------------------------------------------------------------
\* The invariant holds initially.
LEMMA SInvInit == Init => SInv
<1> SUFFICES ASSUME Init PROVE SInv
  OBVIOUS
<1>1. IInv
  BY IInvInit DEF Init
<1>2. /\ session = "none" /\ call = "idle" /\ outstanding = {}
      /\ toServer = {} /\ toClient = {}
      /\ nextSeq = 0 /\ stayConnected = TRUE /\ rpcHost = "up"
      /\ store = [k \in Keys |-> NoTag] /\ execs = [t \in Tags |-> <<>>]
  BY DEF Init, ClientInit, ServerInit
<1>3. SystemTypeOK
  <2>1. stayConnected \in BOOLEAN
    BY <1>2, Zenon
  <2>2. nextSeq \in Seqs /\ store \in [Keys -> Vals]
    BY <1>2, CommonAssumption DEF Seqs, Vals
  <2> QED BY <1>1, <1>2, <2>1, <2>2 DEF SystemTypeOK, IInv
<1>4. SessionOrder /\ CallHasKey /\ RequestsMatchCalls /\ BuffersHeld
      /\ OneAnswer /\ ResponsesTruthful /\ Acknowledged
  BY <1>2 DEF SessionOrder, CallHasKey, RequestsMatchCalls, BuffersHeld,
              OneAnswer, ResponsesTruthful, Acknowledged
<1>5. ExecutedOnce
  BY <1>2 DEF ExecutedOnce
<1>6. BuffersOfGets
  BY DEF Init, ClientInit, BuffersOfGets
<1> QED BY <1>1, <1>3, <1>4, <1>5, <1>6 DEF SInv, Clean

\* Every step of the system keeps it: one case per action.
LEMMA SInvNext == SInv /\ [Next]_vars => SInv'
<1> SUFFICES ASSUME SInv, [Next]_vars PROVE SInv'
  OBVIOUS
<1>1. IInv' /\ StatusSteps
  BY ClientInvKept, SystemStepIsClientStep, StatusStepsNext DEF SInv
<1>2. CASE ClientStep(Connect)
  BY <1>1, <1>2, ConnectKeeps
<1>3. CASE \/ \E op \in AppOps, key \in Keys : ClientStep(Call(op, key))
           \/ \E op \in AppOps : ClientStep(CallWithoutKey(op))
  BY <1>1, <1>3, CallKeeps
<1>4. CASE ClientStep(SendRequest)
  BY <1>1, <1>4, SendRequestKeeps
<1>5. CASE \/ ClientStep(PrepareDisconnect) \/ ClientStep(PrepareDisconnectLoop)
           \/ ClientStep(Disconnect)
  BY <1>1, <1>5, ControlKeeps DEF ClientStep
<1>6. CASE ClientStep(PrepareDisconnectSend) \/ ClientStep(DisconnectSend)
  BY <1>1, <1>6, SendDisconnectKeeps
<1>7. CASE ClientStep(DestroySession)
  BY <1>1, <1>7, DestroySessionKeeps
<1>8. ASSUME NEW o \in toServer, Serve(o) PROVE SInv'
  BY <1>1, <1>8, ServeKeeps
<1>9. ASSUME NEW r \in toClient, ReceiveResponse(r) PROVE SInv'
  <2>1. CASE \E msg \in {r.msg, Undecryptable} : DecryptContFunc(r.o, msg)
    BY <1>1, <1>9, <2>1, ContinuationKeeps
  <2>2. CASE UNCHANGED clientVars
    BY <1>1, <1>9, <2>2, IdleClientKeeps DEF ReceiveResponse, SInv, SystemTypeOK
  <2> QED BY <1>9, <2>1, <2>2 DEF ReceiveResponse
<1>10. CASE ForceTerminate \/ WorkEnds
  <2>1. /\ UNCHANGED <<clientVars, toServer, nextSeq, store, execs, toClient>>
        /\ stayConnected' \in BOOLEAN /\ rpcHost' \in {"up", "deleted"}
        /\ stayConnected' => stayConnected
    <3>1. CASE ForceTerminate
      BY <3>1, Zenon DEF ForceTerminate, Terminate, SInv, SystemTypeOK
    <3>2. CASE WorkEnds
      BY <3>2 DEF WorkEnds, StopWork, SInv, SystemTypeOK
    <3> QED BY <1>10, <3>1, <3>2
  <2> QED BY <1>1, <2>1, IdleClientKeeps DEF SInv, SystemTypeOK
<1>11. ASSUME NEW o \in toServer, LoseRequest(o) PROVE SInv'
  <2>1. /\ UNCHANGED <<clientVars, nextSeq, stayConnected, rpcHost, store,
                       execs, toClient>>
        /\ toServer' \subseteq toServer
    BY <1>11 DEF LoseRequest, serverVars
  <2> QED BY <1>1, <2>1, IdleClientKeeps DEF SInv, SystemTypeOK
<1>12. ASSUME NEW r \in toClient, LoseResponse(r) PROVE SInv'
  BY <1>1, <1>12, IdleClientKeeps DEF LoseResponse, SInv, SystemTypeOK
<1>13. CASE UNCHANGED vars
  <2>1. UNCHANGED <<clientVars, nextSeq, stayConnected, rpcHost, store, execs,
                    toClient, toServer>>
    BY <1>13 DEF vars, serverVars
  <2> QED BY <1>1, <2>1, IdleClientKeeps DEF SInv, SystemTypeOK
<1> QED
  BY <1>2, <1>3, <1>4, <1>5, <1>6, <1>7, <1>8, <1>9, <1>10, <1>11, <1>12,
     <1>13 DEF Next

\* The invariant holds in every state client and server can reach.
THEOREM SystemInvariance == Spec => []SInv
BY SInvInit, SInvNext, PTL DEF Spec

\* Type correctness of the two-sided system.
THEOREM SystemTypeCorrect == Spec => []SystemTypeOK
<1>1. SInv => SystemTypeOK
  BY DEF SInv
<1> QED BY <1>1, SystemInvariance, PTL

\* While eRPC holds a request, prepare_new_request cannot take its buffers,
\* as long as every response has decrypted and no destroy_session has failed;
\* failed encryption, dropped requests and TIMEOUT do not break this.
THEOREM BuffersTheorem == Spec => []BuffersBelongToErpc
<1>1. SInv => BuffersBelongToErpc
  BY DEF SInv, Clean, BuffersHeld, HeldBySlot, BuffersBelongToErpc,
         BuffersNeverReused
<1> QED BY <1>1, SystemInvariance, PTL

\* Up to the same two faults connected is only cleared, in a live session, by
\* a server thread that has left its event loop.
THEOREM DisconnectTheorem == Spec => []DisconnectAcknowledged
<1>1. SInv => DisconnectAcknowledged
  BY DEF SInv, Clean, Acknowledged, DisconnectAcknowledged
<1> QED BY <1>1, SystemInvariance, PTL

-------------------------------------------------------------------------------
(***************************************************************************)
(* The refinement mapping                                                  *)
(***************************************************************************)
\* The constants of KvService are those of ClientServerCommon.
LEMMA SameConstants ==
  /\ Abstract!Tags = Tags /\ Abstract!NoTag = NoTag
  /\ Abstract!Garbage = Garbage /\ Abstract!KvOps = KvOps
  /\ Abstract!NoKey = NoKey
  /\ Abstract!NotExecuted = [ok |-> FALSE, val |-> Garbage]
BY DEF Abstract!Tags, Tags, Abstract!NoTag, NoTag, Abstract!Garbage, Garbage,
       Abstract!KvOps, KvOps, Abstract!NoKey, NoKey, Abstract!NotExecuted

\* The mapped history of one call.
LEMMA ExecBarAt ==
  ASSUME NEW t \in Tags
  PROVE  execBar[t] = IF execs[t] = <<>> THEN [ok |-> FALSE, val |-> Garbage]
                                         ELSE Head(execs[t])
BY DEF execBar

\* An execution is told from no execution: the store never returns Garbage.
LEMMA ExecutedIsVisible ==
  ASSUME SInv, ~Faulty, NEW t \in Tags, execs[t] # <<>>
  PROVE  /\ execBar[t] = Head(execs[t])
         /\ execBar[t] \in Outcomes(req[t].op)
         /\ execBar[t] # Abstract!NotExecuted
<1>1. execBar[t] = Head(execs[t]) /\ execBar[t] \in Outcomes(req[t].op)
  BY ExecBarAt DEF SInv, Clean, ExecutedOnce
<1>2. execBar[t].val \in Vals
  BY <1>1 DEF Outcomes
<1>3. [ok |-> FALSE, val |-> Garbage].val = Garbage /\ Garbage \notin Vals
  BY DEF Garbage, Vals, Tags, NoTag
<1> QED BY <1>1, <1>2, <1>3, SameConstants

\* Steps KvService does not see.
LEMMA Stutters ==
  ASSUME UNCHANGED <<req, status, execs, store, userBuf>>, Faulty' = Faulty
  PROVE  UNCHANGED Abstract!kvVars
BY DEF Abstract!kvVars, execBar

\* Without a fault the fault variables are unchanged, and so is Faulty.
LEMMA NoNewFault ==
  ASSUME UNCHANGED faultVars
  PROVE  Faulty' = Faulty
BY DEF faultVars, Faulty

\* A fault is not undone.
LEMMA FaultStays ==
  ASSUME SInv, [Next]_vars, Faulty
  PROVE  Faulty'
<1>1. [ClientNext]_clientVars
  BY SystemStepIsClientStep DEF SInv
<1>2. destroyFails \in Nat /\ garbled \in BOOLEAN
  BY CommonAssumption DEF SInv, IInv, TypeOK
<1>3. CASE UNCHANGED faultVars
  BY <1>3, NoNewFault
<1>4. CASE DestroySession
  BY <1>2, <1>4 DEF DestroySession, Faulty
<1>5. CASE Receive
  BY <1>2, <1>5 DEF Receive, DecryptContFunc, Faulty
<1>6. CASE \/ Connect \/ (\E op \in AppOps, key \in Keys : Call(op, key))
           \/ (\E op \in AppOps : CallWithoutKey(op)) \/ SendRequest
           \/ PrepareDisconnect \/ PrepareDisconnectLoop
           \/ PrepareDisconnectSend \/ Disconnect \/ DisconnectSend
           \/ UNCHANGED clientVars
  <2>1. UNCHANGED faultVars
    BY <1>6 DEF Connect, Call, CallWithoutKey, SendRequest, PrepareDisconnect,
       PrepareDisconnectLoop, PrepareDisconnectSend, Disconnect,
       DisconnectSend, clientVars
  <2> QED BY <1>3, <2>1
<1> QED BY <1>1, <1>4, <1>5, <1>6 DEF ClientNext

\* After a fault every step is one of the promised bookkeeping.
LEMMA FaultyMaps ==
  ASSUME SInv, [Next]_vars, Faulty
  PROVE  Abstract!KvNext
<1>1. StatusSteps
  BY SystemStepIsClientStep, StatusStepsNext DEF SInv
<1>2. Faulty'
  BY FaultStays
<1>3. Abstract!AfterFault
  BY <1>1, <1>2, SameConstants DEF StatusSteps, Abstract!AfterFault
<1> QED BY <1>3 DEF Abstract!KvNext

-------------------------------------------------------------------------------
(***************************************************************************)
(* One lemma per step that KvService sees                                  *)
(***************************************************************************)
\* Initial states map to initial states.
LEMMA InitMaps == Init => Abstract!KvInit
<1> SUFFICES ASSUME Init PROVE Abstract!KvInit
  OBVIOUS
<1>1. /\ req = [t \in Tags |-> [op |-> "ERR", key |-> NoKey]]
      /\ status = [t \in Tags |-> "unissued"]
      /\ userBuf = [t \in Tags |-> NoTag]
      /\ Faulty = FALSE
      /\ store = [k \in Keys |-> NoTag]
      /\ execs = [t \in Tags |-> <<>>]
  BY DEF Init, ClientInit, ServerInit, NoCall, Faulty
<1>2. execBar = [t \in Tags |-> [ok |-> FALSE, val |-> Garbage]]
  BY <1>1 DEF execBar
<1> QED BY <1>1, <1>2, SameConstants DEF Abstract!KvInit

\* get, put or del is called: the call is invoked.
LEMMA CallMaps ==
  ASSUME SInv,
         \/ \E op \in AppOps, key \in Keys : ClientStep(Call(op, key))
         \/ \E op \in AppOps : ClientStep(CallWithoutKey(op))
  PROVE  Abstract!KvNext
<1> DEFINE t0 == calls + 1
<1>1. PICK op \in AppOps, key \in Keys \cup {NoKey} :
        /\ calls < MaxRequests
        /\ req' = [req EXCEPT ![t0] = [op |-> op, key |-> key]]
        /\ status' = [status EXCEPT ![t0] = IF key = NoKey THEN "refused"
                                                           ELSE "called"]
        /\ userBuf' = userBuf
        /\ UNCHANGED serverVars /\ UNCHANGED faultVars
  BY CommonAssumption DEF ClientStep, Call, CallWithoutKey
<1>2. t0 \in Tags /\ op \in KvOps
  BY <1>1, CommonAssumption DEF SInv, IInv, TypeOK, Tags, KvOps
<1>3. status[t0] = "unissued"
  BY <1>1, <1>2 DEF SInv, IInv, CallOrder, TypeOK, Tags
<1>4. execBar' = execBar /\ store' = store
  BY <1>1 DEF execBar, serverVars
<1>5. Abstract!Invoke(t0, op, key)
  BY <1>1, <1>3, <1>4, SameConstants, NoNewFault DEF Abstract!Invoke
<1> QED BY <1>2, <1>5, SameConstants DEF Abstract!KvNext

\* get, put or del returns: the call is accepted or refused.
LEMMA SendRequestMaps ==
  ASSUME SInv, ClientStep(SendRequest)
  PROVE  Abstract!KvNext
<1>1. /\ call = "request"
      /\ UNCHANGED <<req, userBuf, faultVars>> /\ UNCHANGED serverVars
      /\ \E s \in {"pending", "refused"} :
           status' = [status EXCEPT ![calls] = s]
  BY DEF ClientStep, SendRequest
<1>2. calls \in Tags /\ status[calls] = "called"
  BY <1>1 DEF SInv, IInv, CallOrder
<1>3. execBar' = execBar /\ store' = store
  BY <1>1 DEF execBar, serverVars
<1>4. Abstract!Return(calls)
  BY <1>1, <1>2, <1>3, NoNewFault DEF Abstract!Return
<1> QED BY <1>2, <1>4, SameConstants DEF Abstract!KvNext

\* The session ends, or cannot be ended: exactly the pending calls time out.
LEMMA DestroySessionMaps ==
  ASSUME SInv, ClientStep(DestroySession)
  PROVE  Abstract!KvNext
<1> DEFINE timedOut == {t \in Tags : \E i \in {i \in Slots : queue[i].valid} :
                          queue[i].op # "ERR" /\ queue[i].tag = t}
<1>1. /\ UNCHANGED <<req, userBuf>> /\ UNCHANGED serverVars
      /\ status' = [t \in Tags |->
                      IF t \in timedOut THEN "TIMEOUT" ELSE status[t]]
  BY DEF ClientStep, DestroySession, InvalidateAll
<1>2. \A t \in Tags : t \in timedOut <=> status[t] = "pending"
  BY DEF SInv, IInv, PendingHasOneSlot, Holds
<1> HIDE DEF timedOut
<1>3. status' = [t \in Tags |-> IF status[t] = "pending" THEN "TIMEOUT"
                                                         ELSE status[t]]
  BY <1>1, <1>2
<1>4. execBar' = execBar /\ store' = store
  BY <1>1 DEF execBar, serverVars
<1>5. Faulty' = Faulty \/ Faulty' = TRUE
  <2>1. UNCHANGED garbled /\ destroyFails \in Nat
        /\ destroyFails' \in {destroyFails, destroyFails + 1}
    BY CommonAssumption DEF ClientStep, DestroySession, SInv, IInv, TypeOK
  <2> QED BY <2>1 DEF Faulty
<1>6. Faulty' \in {Faulty, TRUE}
  BY <1>5, Zenon
<1>7. Abstract!TimeOut
  BY <1>1, <1>3, <1>4, <1>6, SameConstants DEF Abstract!TimeOut
<1> QED BY <1>7 DEF Abstract!KvNext

\* req_handler executes an accepted request: the call takes effect.
LEMMA ServeMaps ==
  ASSUME SInv, ~Faulty, NEW o \in toServer, Serve(o)
  PROVE  Abstract!KvNext \/ UNCHANGED Abstract!kvVars
<1>1. /\ ReqHandler(o, WireMessage(o)) /\ UNCHANGED <<req, status, userBuf>>
      /\ Faulty' = Faulty
  BY NoNewFault DEF Serve, clientVars
<1>2. CASE DropRequest \/ SendResponseDisconnect(o, WireMessage(o))
  <2>1. UNCHANGED <<store, execs>>
    BY <1>2 DEF DropRequest, SendResponseDisconnect
  <2> QED BY <1>1, <2>1, Stutters
<1>3. CASE /\ Accepted(WireMessage(o))
           /\ \/ SendResponseGet(o, WireMessage(o))
              \/ SendResponsePut(o, WireMessage(o))
              \/ SendResponseDelete(o, WireMessage(o))
  <2>1. o.op # "ERR"
    BY <1>3 DEF Accepted, WireMessage
  <2>2. PICK e \in [ok : BOOLEAN, val : {store[o.key], NoTag}] :
          /\ StoreExecutes(o, e)
          /\ execs' = [execs EXCEPT ![o.tag] = Append(@, e)]
    BY <1>3, <2>1, HandlerExecutes
  <2>3. PICK t : t = o.tag
    OBVIOUS
  <2>4. /\ t \in Tags /\ req[t].op = o.op /\ req[t].key = o.key
        /\ execs[t] = <<>> /\ status[t] \in {"pending", "TIMEOUT"}
    <3>1. t \in Tags /\ req[t] = [op |-> o.op, key |-> o.key]
      BY <2>1, <2>3 DEF SInv, RequestsMatchCalls, MatchesCall
    <3>2. execs[t] = <<>> /\ status[t] \in {"pending", "TIMEOUT"}
      BY <2>1, <2>3 DEF SInv, Clean, ExecutedOnce
    <3>3. req[t].op = o.op /\ req[t].key = o.key
      BY <3>1
    <3> QED BY <3>1, <3>2, <3>3
  <2>5. DOMAIN execs = Tags
    BY DEF SInv, Clean, ExecutedOnce
  <2>6. Append(<<>>, e) = <<e>> /\ Head(<<e>>) = e /\ <<e>> # <<>>
    BY Singleton
  <2>7. execs'[t] = <<e>> /\ \A u \in Tags : u # t => execs'[u] = execs[u]
    BY <2>2, <2>3, <2>4, <2>5, <2>6
  <2>8. execBar' = [execBar EXCEPT ![t] = e]
    BY <2>4, <2>6, <2>7 DEF execBar
  <2>9. execBar[t] = Abstract!NotExecuted
    BY <2>4, ExecBarAt, SameConstants
  <2>10. Abstract!Execute(t)
    <3>1. CASE o.op = "GET"
      <4>1. /\ e = [ok |-> store[o.key] # NoTag, val |-> store[o.key]]
            /\ store' = store
        BY <2>2, <3>1 DEF StoreExecutes
      <4> QED BY <1>1, <2>4, <2>8, <2>9, <3>1, <4>1, SameConstants
                 DEF Abstract!Execute
    <3>2. CASE o.op = "PUT"
      <4>1. PICK ok \in BOOLEAN :
              /\ e = [ok |-> ok, val |-> NoTag]
              /\ store' = IF ok THEN [store EXCEPT ![o.key] = o.tag] ELSE store
        BY <2>2, <3>2 DEF StoreExecutes
      <4>2. \/ /\ e = [ok |-> TRUE, val |-> NoTag]
               /\ store' = [store EXCEPT ![o.key] = t]
            \/ /\ e = [ok |-> FALSE, val |-> NoTag]
               /\ store' = store
        BY <2>3, <4>1
      <4> QED BY <1>1, <2>4, <2>8, <2>9, <3>2, <4>2, SameConstants
                 DEF Abstract!Execute
    <3>3. CASE o.op = "DELETE"
      <4>1. /\ e = [ok |-> store[o.key] # NoTag, val |-> NoTag]
            /\ store' = [store EXCEPT ![o.key] = NoTag]
        BY <2>2, <3>3 DEF StoreExecutes
      <4> QED BY <1>1, <2>4, <2>8, <2>9, <3>3, <4>1, SameConstants
                 DEF Abstract!Execute
    <3> QED BY <2>2, <3>1, <3>2, <3>3 DEF StoreExecutes
  <2> QED BY <2>4, <2>10, SameConstants DEF Abstract!KvNext
<1> QED BY <1>1, <1>2, <1>3 DEF ReqHandler

\* A response that does not decrypt ends some pending call, or none, and may
\* spoil the buffer of a get.
LEMMA GarbledMaps ==
  ASSUME SInv, NEW r \in toClient, ReceiveResponse(r),
         DecryptContFunc(r.o, Undecryptable)
  PROVE  Abstract!KvNext
<1>1. /\ r.o \in outstanding /\ UNCHANGED req /\ garbled' = TRUE
      /\ userBuf' \in BuffersAfterDecrypt(queue[r.o.slot], Undecryptable)
      /\ \E seq \in Seqs : MessageArrived("INVALID_RESPONSE", ArrivedSlot(seq))
  BY DEF DecryptContFunc
<1>2. UNCHANGED <<store, execBar>> /\ Faulty' = TRUE
  BY <1>1 DEF ReceiveResponse, execBar, Faulty
<1>3. r.o.slot \in Slots
  BY <1>1 DEF SInv, IInv, TypeOK, Enqueued
<1>4. \/ userBuf' = userBuf
      \/ \E t \in Tags : /\ req[t].op = "GET"
                         /\ userBuf' = [userBuf EXCEPT ![t] = Garbage]
  BY <1>1, <1>3 DEF BuffersAfterDecrypt, SInv, BuffersOfGets
<1>5. \/ status' = status
      \/ \E t \in Tags : /\ status[t] = "pending"
                         /\ status' = [status EXCEPT ![t] = "INVALID_RESPONSE"]
  <2>1. PICK seq \in Seqs : MessageArrived("INVALID_RESPONSE", ArrivedSlot(seq))
    BY <1>1
  <2>2. PICK i : i = ArrivedSlot(seq)
    OBVIOUS
  <2>3. i \in Slots
    BY <2>2, SeqRange, IndexInSlots DEF ArrivedSlot
  <2>4. queue[i].valid /\ queue[i].op # "ERR" =>
          queue[i].tag \in Tags /\ status[queue[i].tag] = "pending"
    BY <2>3 DEF SInv, IInv, PendingHasOneSlot
  <2> QED BY <2>1, <2>2, <2>4 DEF MessageArrived, Invalidate, NothingArrived
<1>6. Abstract!Garble
  BY <1>1, <1>2, <1>4, <1>5, SameConstants DEF Abstract!Garble
<1> QED BY <1>6 DEF Abstract!KvNext

\* The continuation reports the execution of its own call, whose value is in
\* the buffer of the get.
LEMMA ContinuationMaps ==
  ASSUME SInv, ~Faulty, NEW r \in toClient, ReceiveResponse(r)
  PROVE  Abstract!KvNext \/ UNCHANGED Abstract!kvVars
<1>1. UNCHANGED <<store, execs>>
  BY DEF ReceiveResponse
<1>2. CASE UNCHANGED clientVars
  BY <1>1, <1>2, Stutters, NoNewFault DEF clientVars
<1>3. CASE DecryptContFunc(r.o, r.msg)
  <2> PICK o : o = r.o
    OBVIOUS
  <2> PICK msg : msg = r.msg
    OBVIOUS
  <2> PICK buf : buf = queue[o.slot].buf
    OBVIOUS
  <2>1. /\ o \in outstanding /\ o.slot \in Slots
        /\ HeldBySlot(o) /\ MatchesCall(o) /\ Truthful(r)
        /\ Invalidate(Reported(r), o.slot)
        /\ userBuf' \in BuffersAfterDecrypt(queue[o.slot], msg)
        /\ msg # Undecryptable
        /\ UNCHANGED req /\ Faulty' = Faulty
    BY <1>3, ContinuationEndsItsRequest
  <2>2. userBuf' = IF buf = NoTag \/ msg.val = NoTag
                   THEN userBuf ELSE [userBuf EXCEPT ![buf] = msg.val]
    BY <2>1 DEF BuffersAfterDecrypt
  <2>3. /\ queue[o.slot].op = o.op /\ queue[o.slot].tag = o.tag
        /\ queue[o.slot].valid
        /\ o.op = "GET" => buf = o.tag
        /\ o.op \in {"PUT", "DELETE"} => buf = NoTag
    BY <2>1 DEF HeldBySlot
  <2>4. CASE o.op = "ERR"
    <3>1. status' = status
      BY <2>1, <2>3, <2>4 DEF Invalidate
    <3>2. userBuf' = userBuf
      BY <2>1, <2>2, <2>4 DEF Truthful
    <3> QED BY <1>1, <2>1, <3>1, <3>2, Stutters
  <2>5. CASE o.op # "ERR"
    <3> PICK t : t = o.tag
      OBVIOUS
    <3>1. /\ t \in Tags /\ req[t].op = o.op
          /\ execs[t] # <<>>
          /\ msg.op = o.op <=> Head(execs[t]).ok
          /\ msg.val = Head(execs[t]).val
      BY <2>1, <2>5 DEF MatchesCall, Truthful
    <3>2. /\ execBar[t] = Head(execs[t])
          /\ execBar[t] \in Outcomes(o.op)
          /\ execBar[t] # Abstract!NotExecuted
      BY <3>1, ExecutedIsVisible
    <3>3. status[t] = "pending"
      BY <2>1, <2>3, <2>5 DEF SInv, IInv, PendingHasOneSlot
    <3>4. status' = [status EXCEPT ![t] = IF execBar[t].ok THEN "OP_SUCCESS"
                                                           ELSE "OP_FAILED"]
      BY <2>1, <2>3, <2>5, <3>1, <3>2 DEF Invalidate, Reported
    <3>5. userBuf' = IF execBar[t].ok /\ o.op = "GET"
                     THEN [userBuf EXCEPT ![t] = execBar[t].val]
                     ELSE userBuf
      <4>1. msg.val = execBar[t].val
        BY <3>1, <3>2
      <4>2. execBar[t].val # NoTag <=> execBar[t].ok /\ o.op = "GET"
        BY <3>2 DEF Outcomes
      <4>3. o.op \in Ops /\ NoTag \notin Tags
        BY <2>1 DEF SInv, IInv, TypeOK, Enqueued, Tags, NoTag
      <4>4. CASE o.op = "GET"
        BY <2>2, <2>3, <3>1, <4>1, <4>2, <4>3, <4>4
      <4>5. CASE o.op \in {"PUT", "DELETE"}
        BY <2>2, <2>3, <4>5
      <4> QED BY <2>5, <4>3, <4>4, <4>5 DEF Ops, KvOps
    <3>6. execBar' = execBar
      BY <1>1 DEF execBar
    <3>7. Abstract!Complete(t)
      BY <1>1, <2>1, <3>1, <3>2, <3>3, <3>4, <3>5, <3>6 DEF Abstract!Complete
    <3> QED BY <3>1, <3>7, SameConstants DEF Abstract!KvNext
  <2> QED BY <2>4, <2>5
<1> QED BY <1>2, <1>3, GarbledMaps DEF ReceiveResponse

\* Every step maps to a step of KvService or to none.
LEMMA StepMaps == SInv /\ [Next]_vars => [Abstract!KvNext]_(Abstract!kvVars)
<1> SUFFICES ASSUME SInv, [Next]_vars
             PROVE  Abstract!KvNext \/ UNCHANGED Abstract!kvVars
  OBVIOUS
<1>1. ASSUME \/ ClientStep(Connect) \/ ClientStep(PrepareDisconnect)
             \/ ClientStep(PrepareDisconnectLoop) \/ ClientStep(Disconnect)
             \/ ClientStep(PrepareDisconnectSend) \/ ClientStep(DisconnectSend)
      PROVE  UNCHANGED Abstract!kvVars
  <2>1. UNCHANGED <<req, status, userBuf, faultVars>> /\ UNCHANGED serverVars
    BY <1>1 DEF ClientStep, Connect, PrepareDisconnect, PrepareDisconnectLoop,
                Disconnect, PrepareDisconnectSend, DisconnectSend
  <2> QED BY <2>1, Stutters, NoNewFault DEF serverVars
<1>2. CASE \/ \E op \in AppOps, key \in Keys : ClientStep(Call(op, key))
           \/ \E op \in AppOps : ClientStep(CallWithoutKey(op))
  BY <1>2, CallMaps
<1>3. CASE ClientStep(SendRequest)
  BY <1>3, SendRequestMaps
<1>4. CASE ClientStep(DestroySession)
  BY <1>4, DestroySessionMaps
<1>5. ASSUME ~Faulty, NEW o \in toServer, Serve(o)
      PROVE  Abstract!KvNext \/ UNCHANGED Abstract!kvVars
  BY <1>5, ServeMaps
<1>6. ASSUME ~Faulty, NEW r \in toClient, ReceiveResponse(r)
      PROVE  Abstract!KvNext \/ UNCHANGED Abstract!kvVars
  BY <1>6, ContinuationMaps
<1>7. ASSUME \/ ForceTerminate \/ WorkEnds
             \/ \E o \in toServer : LoseRequest(o)
             \/ \E r \in toClient : LoseResponse(r)
             \/ UNCHANGED vars
      PROVE  UNCHANGED Abstract!kvVars
  <2>1. UNCHANGED clientVars /\ UNCHANGED <<store, execs>>
    BY <1>7 DEF ForceTerminate, Terminate, WorkEnds, StopWork, LoseRequest,
                LoseResponse, vars, serverVars
  <2> QED BY <2>1, Stutters, NoNewFault DEF clientVars
<1>8. CASE Faulty
  BY <1>8, FaultyMaps
<1> QED BY <1>1, <1>2, <1>3, <1>4, <1>5, <1>6, <1>7, <1>8 DEF Next

\* Client and server thread are a linearisable KV service: every answer is the
\* outcome of the one atomic execution of that very request, whatever is lost
\* or overtaken, and a get's buffer is written once, before its callback, up to
\* the first response that does not decrypt or destroy_session that fails;
\* after it every call still returns once and ends once.
THEOREM Refinement == Spec => ImplementsKvService
BY InitMaps, StepMaps, SystemInvariance, PTL
   DEF Spec, ImplementsKvService, Abstract!KvSpec
===============================================================================
