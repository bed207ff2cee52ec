--------------------------- MODULE TwoSidedDelivery ---------------------------
(***************************************************************************)
(* When does req_handler drop no request of its own client?  Its sequence  *)
(* number check compares, without wrapping, the number of a request with   *)
(* the one expected after the last request handled.  Two sufficient        *)
(* conditions, where en- and decryption and destroy_session do not fail:   *)
(*   - requests arrive in the order they are sent, whatever the threshold  *)
(*     and also across the wrap of the sequence number;                    *)
(*   - requests overtake others sent up to MaxOvertaken before them, twice *)
(*     MaxOvertaken is at most SEQ_THRESHOLD, and the sequence number does *)
(*     not wrap, whatever the ring size.                                   *)
(***************************************************************************)
EXTENDS TwoSidedProofs

(***************************************************************************)
(* The numbers d requests back from the client's next one.                 *)
(***************************************************************************)
Back(d) == (currentSeq - 2 * d) % SeqMod

\* The sequence number check passes for every request that may arrive next.
Admitted ==
  session = "connected" =>
    \A o \in toServer : MayArrive(o) /\ o.op # "ERR" =>
      nextSeq = 0 \/ WithinThreshold(o.seq)

\* In order: the requests on their way are the latest n ones, and the oldest
\* of them is the one the server expects.
LatestOnTheWay ==
  session = "connected" =>
    \E n \in 0 .. MaxPending :
      /\ nextSeq = 0 \/ nextSeq = Back(n)
      /\ \A o \in toServer : \E d \in 1 .. n : o.seq = Back(d)
      /\ \A d \in 1 .. n : \E o \in toServer : o.seq = Back(d)

\* With overtaking: the latest e requests are on their way, where e is such that
\* no later request than currentSeq - 2 * (e + 1) has been handled; no request
\* on its way, and no request handled last, is more than MaxOvertaken behind.
OvertakenInBound ==
  session = "connected" =>
    \E e \in Nat :
      /\ \A d \in 1 .. e : \E p \in toServer : p.seq = currentSeq - 2 * d
      /\ \A p \in toServer : currentSeq - 2 * e <= p.seq + 2 * MaxOvertaken + 2
      /\ \/ nextSeq = 0
         \/ /\ nextSeq <= currentSeq - 2 * e
            /\ currentSeq - 2 * e <= nextSeq + 2 * MaxOvertaken

\* Until it wraps, the sequence number counts the messages sent.
Sends ==
  calls + loops + (IF call = "request" THEN -1 ELSE 0)
    + (IF call = "disc_sent" \/ session = "destroyed" THEN 1 ELSE 0)

NumbersGrow ==
  /\ \E s \in InitSeqs : currentSeq <= s + 2 * Sends
  /\ \A o \in outstanding : o.seq + 2 <= currentSeq

BeforeConnect == session = "none" => nextSeq = 0

\* The invariant of the system where there are no faults.
FInv == SInv /\ ~Faulty

-------------------------------------------------------------------------------
(***************************************************************************)
(* Without failing decryption and failing destroy_session there are no     *)
(* faults                                                                  *)
(***************************************************************************)
\* Every step keeps FInv.
LEMMA FInvNext ==
  ASSUME ~CryptoMayFail, MaxDestroyFails = 0, FInv, [Next]_vars
  PROVE  FInv'
<1>1. SInv'
  BY SInvNext DEF FInv
<1>2. destroyFails' = 0 /\ destroyFails = 0
  BY <1>1 DEF FInv, SInv, IInv, TypeOK
<1>3. ~garbled
  BY DEF FInv, Faulty
<1>4. CASE \E r \in toClient : ReceiveResponse(r)
  <2>1. PICK r \in toClient : ReceiveResponse(r)
    BY <1>4
  <2>2. r.msg # Undecryptable
    <3>1. r.msg \in Responses
      BY DEF FInv, SInv, SystemTypeOK
    <3>2. "id" \in DOMAIN r.msg
      BY <3>1 DEF Responses
    <3>3. DOMAIN Undecryptable = {"garbled"}
      BY DEF Undecryptable
    <3> QED BY <3>2, <3>3
  <2>3. ~garbled'
    BY <1>3, <2>1, <2>2 DEF ReceiveResponse, DecryptContFunc, clientVars,
                            faultVars
  <2> QED BY <1>1, <1>2, <2>3 DEF FInv, Faulty
<1>5. CASE ~(\E r \in toClient : ReceiveResponse(r))
  <2>1. UNCHANGED garbled
    BY <1>5 DEF Next, ClientStep, Connect, Call, CallWithoutKey, SendRequest,
       PrepareDisconnect, PrepareDisconnectLoop, PrepareDisconnectSend,
       Disconnect, DisconnectSend, DestroySession, Serve, ForceTerminate,
       WorkEnds, LoseRequest, LoseResponse, vars, clientVars, faultVars
  <2> QED BY <1>1, <1>2, <1>3, <2>1 DEF FInv, Faulty
<1> QED BY <1>4, <1>5

\* So FInv holds in every state.
LEMMA FaultFree ==
  ASSUME ~CryptoMayFail, MaxDestroyFails = 0
  PROVE  Spec => []FInv
<1>1. Init => FInv
  BY SInvInit DEF Init, ClientInit, FInv, Faulty
<1> QED BY <1>1, FInvNext, PTL DEF Spec

-------------------------------------------------------------------------------
(***************************************************************************)
(* If the check passes, no request is stranded                             *)
(***************************************************************************)
\* Only the client's send actions hand requests to eRPC, and they put them on
\* their way; only the continuation takes one back.
LEMMA ClientStepDelivers ==
  ASSUME FInv, NoRequestStranded, rpcHost = "up",
         toServer' = toServer \cup (outstanding' \ outstanding),
         UNCHANGED serverVars
  PROVE  NoRequestStranded'
<1>1. rpcHost' = rpcHost /\ toClient' = toClient
  BY DEF serverVars
<1> QED BY <1>1 DEF NoRequestStranded

\* A request that passes the check is answered.
LEMMA AdmittedIsAnswered ==
  ASSUME FInv, ~CryptoMayFail, Admitted, session = "connected",
         NEW o \in toServer, Serve(o)
  PROVE  /\ \E r \in toClient' : r.o = o
         /\ toClient \subseteq toClient'
         /\ nextSeq' = SeqAfter(o.seq)
<1>1. MayArrive(o) /\ ReqHandler(o, WireMessage(o))
  BY DEF Serve
<1>2. /\ WireMessage(o).op = o.op /\ WireMessage(o).seq = o.seq
      /\ WireMessage(o).id = ClientId
  BY DEF WireMessage
<1>3. o.op # "ERR" => Accepted(WireMessage(o))
  BY <1>1, <1>2 DEF Admitted, Accepted, IsSeqValid
<1>4. PICK op, val : Respond(o, WireMessage(o), op, val)
  BY <1>1, <1>2, <1>3 DEF ReqHandler, SendResponseDisconnect, SendResponseGet,
                          SendResponsePut, SendResponseDelete
<1>5. PICK m : toClient' = toClient \cup {[o |-> o, msg |-> m]}
  BY <1>4 DEF Respond, CryptoOutcomes
<1>6. [o |-> o, msg |-> m].o = o
  OBVIOUS
<1>7. nextSeq' = SeqAfter(o.seq)
  BY <1>2, <1>4 DEF Respond
<1> QED BY <1>5, <1>6, <1>7

\* As long as the check passes for what arrives, every step keeps
\* NoRequestStranded.
LEMMA NotStrandedNext ==
  ASSUME FInv, ~CryptoMayFail, Admitted, NoRequestStranded, [Next]_vars
  PROVE  NoRequestStranded'
<1> SUFFICES ASSUME rpcHost' = "up" PROVE NoRequestStranded'
  BY DEF NoRequestStranded
<1>1. ASSUME NEW o \in toServer, Serve(o) PROVE NoRequestStranded'
  <2>1. /\ rpcHost = "up" /\ outstanding' = outstanding
        /\ toServer' = toServer \ {o}
    BY <1>1 DEF Serve, ReqHandler, clientVars
  <2>2. CASE session = "connected"
    BY <1>1, <2>1, <2>2, AdmittedIsAnswered DEF NoRequestStranded
  <2>3. CASE session # "connected"
    BY <2>1, <2>3 DEF FInv, FInv, SInv, SessionOrder, NoRequestStranded
  <2> QED BY <2>2, <2>3
<1>2. ASSUME NEW r \in toClient, ReceiveResponse(r) PROVE NoRequestStranded'
  <2>1. /\ rpcHost' = rpcHost /\ toServer' = toServer
        /\ toClient' = toClient \ {r}
    BY <1>2 DEF ReceiveResponse
  <2>2. outstanding' = outstanding \ {r.o}
    BY <1>2 DEF ReceiveResponse, DecryptContFunc, clientVars
  <2> QED BY <2>1, <2>2 DEF NoRequestStranded
<1>3. ASSUME NEW o \in toServer, LoseRequest(o) PROVE NoRequestStranded'
  <2>1. session = "destroyed" /\ outstanding' = outstanding
    BY <1>3 DEF LoseRequest, clientVars
  <2> QED BY <2>1 DEF FInv, FInv, SInv, SessionOrder, NoRequestStranded
<1>4. ASSUME NEW r \in toClient, LoseResponse(r) PROVE FALSE
  BY <1>4 DEF LoseResponse
<1>5. CASE ForceTerminate \/ WorkEnds \/ UNCHANGED vars
  <2>1. UNCHANGED <<outstanding, toServer, toClient, rpcHost>>
    BY <1>5 DEF ForceTerminate, Terminate, WorkEnds, StopWork, clientVars, vars,
                serverVars
  <2> QED BY <2>1 DEF NoRequestStranded
<1>6. ASSUME toServer' = toServer \cup (outstanding' \ outstanding),
             UNCHANGED serverVars
      PROVE  NoRequestStranded'
  <2>1. rpcHost = "up"
    BY <1>6 DEF serverVars
  <2> QED BY <1>6, <2>1, ClientStepDelivers
<1> QED BY <1>1, <1>2, <1>3, <1>4, <1>5, <1>6 DEF Next, ClientStep

-------------------------------------------------------------------------------
(***************************************************************************)
(* Facts for both orders                                                   *)
(***************************************************************************)
\* Before the client connects the server has seen nothing.
LEMMA BeforeConnectNext ==
  ASSUME FInv, BeforeConnect, [Next]_vars
  PROVE  BeforeConnect'
<1> SUFFICES ASSUME session' = "none" PROVE nextSeq' = 0
  BY DEF BeforeConnect
<1>1. session = "none" /\ toServer = {} /\ toClient = {} /\ nextSeq = 0
  <2>1. session = "none"
    BY SystemStepIsClientStep
       DEF FInv, SInv, ClientNext, clientVars, Connect, Call, CallWithoutKey,
           SendRequest, PrepareDisconnect, PrepareDisconnectLoop,
           PrepareDisconnectSend, Disconnect, DisconnectSend, DestroySession,
           Receive, DecryptContFunc
  <2> QED BY <2>1 DEF FInv, FInv, SInv, SessionOrder, BeforeConnect
<1>2. UNCHANGED nextSeq
  BY <1>1 DEF Next, ClientStep, ForceTerminate, Terminate, WorkEnds, StopWork,
              vars, serverVars
<1> QED BY <1>1, <1>2

\* The step that connects finds no request on its way and a server that has
\* seen none.
LEMMA ConnectsToIdleServer ==
  ASSUME FInv, BeforeConnect, [Next]_vars,
         session = "none", session' = "connected"
  PROVE  toServer' = {} /\ nextSeq' = 0
<1>1. toServer = {} /\ toClient = {} /\ nextSeq = 0 /\ outstanding = {}
  BY DEF FInv, FInv, SInv, SessionOrder, BeforeConnect
<1>2. ClientStep(Connect)
  BY <1>1 DEF Next, ClientStep, Call, CallWithoutKey, SendRequest,
     PrepareDisconnect, PrepareDisconnectLoop, PrepareDisconnectSend,
     Disconnect, DisconnectSend, DestroySession, ForceTerminate, WorkEnds,
     vars, clientVars
<1> QED BY <1>1, <1>2 DEF ClientStep, Connect, serverVars

\* A request eRPC holds occupies the slot of its number.
LEMMA HeldInOwnSlot ==
  ASSUME FInv, NEW o \in outstanding
  PROVE  /\ o.slot \in Slots /\ o.seq \in Seqs
         /\ AcceptedIndex(o.seq) = o.slot /\ queue[o.slot].valid
         /\ queue[o.slot].seq = o.seq
<1>1. o.slot \in Slots /\ o.seq \in Seqs
  BY DEF FInv, SInv, IInv, TypeOK, Enqueued
<1>2. queue[o.slot].valid /\ queue[o.slot].seq = o.seq
  BY DEF FInv, SInv, Clean, BuffersHeld, HeldBySlot
<1> QED BY <1>1, <1>2 DEF FInv, SInv, IInv, SlotOfSeq

\* So its number identifies it.
LEMMA NumberDeterminesRequest ==
  ASSUME FInv, NEW o \in outstanding, NEW p \in outstanding, o.seq = p.seq
  PROVE  o = p
BY HeldInOwnSlot, SlotDeterminesRequest DEF FInv

\* As long as the request a whole ring back is at eRPC, nothing can be sent.
LEMMA RingFull ==
  ASSUME FInv, NEW o \in outstanding, o.seq = Back(MaxPending)
  PROVE  ~SlotFree(CurrentSlot)
<1>1. currentSeq \in Seqs
  BY DEF FInv, SInv, IInv, TypeOK
<1>2. AcceptedIndex(o.seq) = CurrentSlot
  BY <1>1, IndexPeriod DEF Back, CurrentSlot
<1>3. AcceptedIndex(o.seq) = o.slot /\ queue[o.slot].valid
  BY HeldInOwnSlot
<1> QED BY <1>2, <1>3 DEF SlotFree

\* The steps that matter for the order: a message is sent, a request arrives;
\* every other step leaves numbers and requests alone or ends the session.
SendsOne(new) ==
  /\ session = "connected"
  /\ SlotFree(CurrentSlot)
  /\ new.seq = currentSeq
  /\ currentSeq' = IncSeq(currentSeq)
  /\ toServer' = toServer \cup {new}
  /\ outstanding' = outstanding \cup {new}
  /\ UNCHANGED <<nextSeq, session>>

OrderUntouched ==
  UNCHANGED <<currentSeq, toServer, nextSeq, session>>

\* Filling the slot sends one message, or none if encryption fails.
LEMMA FillSendsOne ==
  ASSUME FInv, session = "connected",
         NEW op, NEW key, NEW tag, NEW buf, NEW encrypted \in BOOLEAN,
         FillAndSend(op, key, tag, buf, encrypted),
         toServer' = toServer \cup (outstanding' \ outstanding),
         UNCHANGED serverVars, UNCHANGED session
  PROVE  OrderUntouched \/ \E new : SendsOne(new)
<1>1. nextSeq' = nextSeq
  BY DEF serverVars
<1>2. CASE ~encrypted
  BY <1>1, <1>2 DEF FillAndSend, OrderUntouched
<1>3. CASE encrypted
  <2>1. PICK new : new = [slot |-> CurrentSlot, seq |-> currentSeq, op |-> op,
                          key |-> key, tag |-> tag]
    OBVIOUS
  <2>2. new.slot = CurrentSlot /\ new.seq = currentSeq
    BY <2>1
  <2>3. /\ SlotFree(CurrentSlot)
        /\ currentSeq' = IncSeq(currentSeq)
        /\ outstanding' = outstanding \cup {new}
    BY <1>3, <2>1 DEF FillAndSend
  <2>4. new \notin outstanding
    BY <2>2, <2>3, HeldInOwnSlot DEF SlotFree
  <2>5. toServer' = toServer \cup {new}
    BY <2>3, <2>4
  <2> QED BY <1>1, <2>2, <2>3, <2>5 DEF SendsOne
<1> QED BY <1>2, <1>3

\* These are all the steps.
LEMMA OrderSteps ==
  ASSUME FInv, [Next]_vars
  PROVE  \/ OrderUntouched
         \/ session' # "connected"
         \/ session = "none"
         \/ \E o \in toServer : Serve(o)
         \/ \E new : SendsOne(new)
<1>1. CASE ClientStep(SendRequest)
  <2>1. \E encrypted \in BOOLEAN :
          FillAndSend(req[calls].op, req[calls].key, calls,
                      IF req[calls].op = "GET" THEN calls ELSE NoTag, encrypted)
    BY <1>1 DEF ClientStep, SendRequest, CryptoOutcomes
  <2>2. /\ call = "request" /\ UNCHANGED session
        /\ toServer' = toServer \cup (outstanding' \ outstanding)
        /\ UNCHANGED serverVars
    BY <1>1 DEF ClientStep, SendRequest
  <2>3. session = "connected"
    BY <2>2 DEF FInv, FInv, SInv, SessionOrder
  <2> QED BY <2>1, <2>2, <2>3, FillSendsOne
<1>2. CASE ClientStep(PrepareDisconnectSend) \/ ClientStep(DisconnectSend)
  <2>1. /\ session = "connected" /\ UNCHANGED session
        /\ SendDisconnectMessage
        /\ toServer' = toServer \cup (outstanding' \ outstanding)
        /\ UNCHANGED serverVars
    BY <1>2 DEF ClientStep, PrepareDisconnectSend, DisconnectSend, FInv, SInv, SessionOrder
  <2>2. \E encrypted \in BOOLEAN :
          FillAndSend("ERR", NoKey, NoTag, queue[CurrentSlot].buf, encrypted)
    BY <2>1 DEF SendDisconnectMessage, CryptoOutcomes
  <2> QED BY <2>1, <2>2, FillSendsOne
<1>3. CASE \/ ClientStep(Connect)
           \/ \E o \in toServer : LoseRequest(o)
  BY <1>3 DEF ClientStep, Connect, LoseRequest, clientVars
<1>4. CASE \/ \E op \in AppOps, key \in Keys : ClientStep(Call(op, key))
           \/ \E op \in AppOps : ClientStep(CallWithoutKey(op))
           \/ ClientStep(PrepareDisconnect)
           \/ ClientStep(PrepareDisconnectLoop)
           \/ ClientStep(Disconnect)
  <2>1. /\ UNCHANGED <<currentSeq, session, outstanding>>
        /\ toServer' = toServer \cup (outstanding' \ outstanding)
        /\ UNCHANGED serverVars
    BY <1>4 DEF ClientStep, Call, CallWithoutKey, PrepareDisconnect,
                PrepareDisconnectLoop, Disconnect
  <2> QED BY <2>1 DEF OrderUntouched, serverVars
<1>5. CASE \/ \E r \in toClient : ReceiveResponse(r)
           \/ \E r \in toClient : LoseResponse(r)
           \/ ForceTerminate \/ WorkEnds \/ UNCHANGED vars
  BY <1>5 DEF ReceiveResponse, DecryptContFunc, LoseResponse, ForceTerminate,
              Terminate, WorkEnds, StopWork, clientVars, serverVars, vars,
              OrderUntouched
<1>6. CASE ClientStep(DestroySession)
  BY <1>6 DEF ClientStep, DestroySession, OrderUntouched, serverVars
<1> QED BY <1>1, <1>2, <1>3, <1>4, <1>5, <1>6 DEF Next

-------------------------------------------------------------------------------
(***************************************************************************)
(* Requests arrive in the order they are sent                              *)
(***************************************************************************)
\* The distance behind currentSeq, as MayArrive computes it.
LEMMA AgeOfBack ==
  ASSUME 2 * MaxPending < SeqMod, currentSeq \in Seqs,
         NEW d \in 0 .. MaxPending
  PROVE  (currentSeq - Back(d)) % SeqMod = 2 * d
<1>1. /\ SeqMod \in Nat \ {0} /\ MaxPending \in Nat /\ d \in Nat
      /\ currentSeq \in Int /\ 0 <= currentSeq /\ currentSeq < SeqMod
      /\ 2 * d < SeqMod
  BY CommonAssumption DEF Seqs
<1>2. CASE currentSeq >= 2 * d
  <2>1. Back(d) = currentSeq - 2 * d
    BY <1>1, <1>2 DEF Back
  <2> QED BY <1>1, <2>1
<1>3. CASE currentSeq < 2 * d
  <2>1. Back(d) = currentSeq - 2 * d + SeqMod
    BY <1>1, <1>3 DEF Back
  <2>2. currentSeq - Back(d) = 2 * d - SeqMod
    BY <1>1, <2>1
  <2>3. (2 * d - SeqMod) % SeqMod = 2 * d
    BY <1>1
  <2> QED BY <2>2, <2>3
<1> QED BY <1>1, <1>2, <1>3

\* The number expected after the one n back is n - 1 back.
LEMMA AfterBack ==
  ASSUME currentSeq \in Seqs, NEW n \in Int
  PROVE  SeqAfter(Back(n)) = Back(n - 1)
<1>1. SeqMod \in Nat \ {0} /\ currentSeq \in Int
  BY CommonAssumption DEF Seqs
<1>2. currentSeq - 2 * n \in Int
  BY <1>1
<1>3. Back(n) \in Seqs
  BY <1>1, <1>2, DivMod DEF Back, Seqs
<1> DEFINE a == currentSeq - 2 * n
           b == (a % SeqMod) + 1
<1>4. SeqAfter(Back(n)) = ((b % SeqMod) + 1) % SeqMod
  BY DEF SeqAfter, NextSeq, Back
<1>5. a \in Int /\ b \in Int
  BY <1>1, <1>2, <1>3 DEF Back, Seqs
<1>6. PICK one \in Int, two \in Int : one = 1 /\ two = 2
  OBVIOUS
<1>7. b + one = (a % SeqMod) + two /\ a + two = currentSeq - 2 * (n - 1)
  BY <1>1, <1>3, <1>6 DEF Back, Seqs
<1> HIDE DEF a, b
<1>8. ((b % SeqMod) + one) % SeqMod = (b + one) % SeqMod
  BY <1>1, <1>5, ModPlus
<1>9. ((a % SeqMod) + two) % SeqMod = (a + two) % SeqMod
  BY <1>1, <1>5, ModPlus
<1> QED BY <1>4, <1>6, <1>7, <1>8, <1>9 DEF Back

\* The request that may arrive next is the oldest one, n back.
LEMMA OldestFirst ==
  ASSUME MaxOvertaken = 0, 2 * MaxPending < SeqMod, currentSeq \in Seqs,
         NEW n \in 0 .. MaxPending,
         \A p \in toServer : \E d \in 1 .. n : p.seq = Back(d),
         \A d \in 1 .. n : \E p \in toServer : p.seq = Back(d),
         NEW o \in toServer, MayArrive(o)
  PROVE  n >= 1 /\ o.seq = Back(n)
<1>1. PICK d \in 1 .. n : o.seq = Back(d)
  OBVIOUS
<1>2. /\ n \in Int /\ d \in Int /\ 1 <= d /\ d <= n
      /\ d \in 0 .. MaxPending /\ n \in 1 .. n
  BY CommonAssumption
<1>3. PICK p \in toServer : p.seq = Back(n)
  BY <1>2
<1>4. Age(p) <= Age(o) + 2 * 0
  BY DEF MayArrive
<1>5. Age(o) = 2 * d /\ Age(p) = 2 * n
  BY <1>1, <1>2, <1>3, AgeOfBack DEF Age
<1>6. n = d
  BY <1>2, <1>4, <1>5
<1> QED BY <1>1, <1>2, <1>6

\* The request that arrives next is the very one the server expects.
LEMMA LatestAdmitted ==
  ASSUME FInv, MaxOvertaken = 0, 2 * MaxPending < SeqMod, LatestOnTheWay
  PROVE  Admitted
<1> SUFFICES ASSUME session = "connected", NEW o \in toServer, MayArrive(o),
                    nextSeq # 0
             PROVE  WithinThreshold(o.seq)
  BY DEF Admitted
<1>1. currentSeq \in Seqs /\ nextSeq \in Seqs
  BY DEF FInv, SInv, SystemTypeOK, IInv, TypeOK
<1>2. PICK n \in 0 .. MaxPending :
        /\ nextSeq = Back(n)
        /\ \A p \in toServer : \E d \in 1 .. n : p.seq = Back(d)
        /\ \A d \in 1 .. n : \E p \in toServer : p.seq = Back(d)
  BY DEF LatestOnTheWay
<1>3. o.seq = nextSeq
  BY <1>1, <1>2, OldestFirst
<1> QED BY <1>1, <1>3, CommonAssumption DEF WithinThreshold, AbsDiff, Seqs

\* Sending adds the latest request; the ring has room for it.
LEMMA LatestAfterSend ==
  ASSUME FInv, LatestOnTheWay, NEW new, SendsOne(new)
  PROVE  LatestOnTheWay'
<1>1. currentSeq \in Seqs /\ MaxPending \in Nat \ {0}
  BY CommonAssumption DEF FInv, SInv, IInv, TypeOK
<1>2. PICK n \in 0 .. MaxPending :
        /\ nextSeq = 0 \/ nextSeq = Back(n)
        /\ \A o \in toServer : \E d \in 1 .. n : o.seq = Back(d)
        /\ \A d \in 1 .. n : \E o \in toServer : o.seq = Back(d)
  BY DEF LatestOnTheWay, SendsOne
<1>3. \A d \in Int : Back(d + 1)' = Back(d)
  BY <1>1, OneFurtherBack DEF Back, SendsOne
<1>4. n # MaxPending
  <2>1. SUFFICES ASSUME n = MaxPending PROVE FALSE
    OBVIOUS
  <2>2. n \in 1 .. n
    BY <1>1, <2>1
  <2>3. PICK o \in toServer : o.seq = Back(MaxPending)
    BY <1>2, <2>1, <2>2
  <2>4. o \in outstanding
    BY DEF FInv, SInv, Clean, OneAnswer, SendsOne
  <2> QED BY <2>3, <2>4, RingFull DEF SendsOne
<1>5. n \in Nat /\ n + 1 \in 0 .. MaxPending /\ n \in Int
  BY <1>1, <1>4
<1>6. nextSeq' = 0 \/ nextSeq' = Back(n + 1)'
  BY <1>2, <1>3, <1>5 DEF SendsOne
<1>7. new.seq = Back(1)'
  <2>1. Back(0) = currentSeq
    BY <1>1, CommonAssumption DEF Back, Seqs
  <2>2. PICK z \in Int : z = 0
    OBVIOUS
  <2>3. Back(z + 1)' = Back(z)
    BY <1>3
  <2>4. Back(1)' = Back(0)
    BY <2>2, <2>3
  <2> QED BY <2>1, <2>4 DEF SendsOne
<1>8. \A o \in toServer' : \E d \in 1 .. (n + 1) : o.seq = Back(d)'
  <2>1. ASSUME NEW o \in toServer PROVE \E d \in 1 .. (n + 1) : o.seq = Back(d)'
    <3>1. PICK d \in 1 .. n : o.seq = Back(d)
      BY <1>2
    <3>2. d \in Int /\ d + 1 \in 1 .. (n + 1)
      BY <1>5
    <3> QED BY <1>3, <3>1, <3>2
  <2>2. 1 \in 1 .. (n + 1)
    BY <1>5
  <2> QED BY <1>7, <2>1, <2>2 DEF SendsOne
<1>9. \A d \in 1 .. (n + 1) : \E o \in toServer' : o.seq = Back(d)'
  <2> SUFFICES ASSUME NEW d \in 1 .. (n + 1)
               PROVE  \E o \in toServer' : o.seq = Back(d)'
    OBVIOUS
  <2>1. CASE d = 1
    BY <1>7, <2>1 DEF SendsOne
  <2>2. CASE d # 1
    <3>1. PICK c \in 1 .. n : d = c + 1
      <4>1. d - 1 \in 1 .. n /\ d = (d - 1) + 1
        BY <1>5, <2>2
      <4> QED BY <4>1
    <3>2. PICK o \in toServer : o.seq = Back(c)
      BY <1>2
    <3>3. c \in Int
      BY <1>5
    <3>4. o.seq = Back(d)'
      BY <1>3, <3>1, <3>2, <3>3
    <3> QED BY <3>4 DEF SendsOne
  <2> QED BY <2>1, <2>2
<1> QED BY <1>5, <1>6, <1>8, <1>9 DEF LatestOnTheWay

\* The oldest request is handled; the server then expects the next one.
LEMMA LatestAfterServe ==
  ASSUME FInv, MaxOvertaken = 0, ~CryptoMayFail, 2 * MaxPending < SeqMod,
         LatestOnTheWay, NEW o \in toServer, Serve(o)
  PROVE  LatestOnTheWay'
<1> SUFFICES ASSUME session = "connected" PROVE LatestOnTheWay'
  BY DEF LatestOnTheWay, Serve, clientVars
<1>1. /\ currentSeq \in Seqs /\ toServer' = toServer \ {o} /\ MayArrive(o)
      /\ currentSeq' = currentSeq
  BY DEF FInv, SInv, IInv, TypeOK, Serve, clientVars
<1>2. PICK n \in 0 .. MaxPending :
        /\ nextSeq = 0 \/ nextSeq = Back(n)
        /\ \A p \in toServer : \E d \in 1 .. n : p.seq = Back(d)
        /\ \A d \in 1 .. n : \E p \in toServer : p.seq = Back(d)
  BY DEF LatestOnTheWay
<1>3. n >= 1 /\ o.seq = Back(n)
  BY <1>1, <1>2, OldestFirst
<1>4. n \in Int /\ n - 1 \in 0 .. MaxPending
  BY <1>3, CommonAssumption
<1>5. nextSeq' = Back(n - 1)
  <2>1. nextSeq' = SeqAfter(o.seq)
    BY LatestAdmitted, AdmittedIsAnswered
  <2> QED BY <1>1, <1>3, <1>4, <2>1, AfterBack
<1>6. \A d : Back(d)' = Back(d)
  BY <1>1 DEF Back
<1>7. \A d \in 1 .. n : Back(d) = Back(n) => d = n
  <2> SUFFICES ASSUME NEW d \in 1 .. n, Back(d) = Back(n) PROVE d = n
    OBVIOUS
  <2>1. d \in 0 .. MaxPending /\ d \in Int
    BY <1>4, CommonAssumption
  <2>2. 2 * d = 2 * n
    BY <1>1, <2>1, AgeOfBack
  <2> QED BY <1>4, <2>1, <2>2
<1>8. ASSUME NEW p \in toServer'
      PROVE  \E d \in 1 .. (n - 1) : p.seq = Back(d)
  <2>1. p \in toServer /\ p # o
    BY <1>1
  <2>2. PICK d \in 1 .. n : p.seq = Back(d)
    BY <1>2, <2>1
  <2>3. p \in outstanding /\ o \in outstanding
    BY <2>1 DEF FInv, SInv, Clean, OneAnswer
  <2>4. d # n
    BY <1>3, <2>1, <2>2, <2>3, NumberDeterminesRequest
  <2>5. d \in 1 .. (n - 1)
    BY <1>4, <2>4
  <2> QED BY <2>2, <2>5
<1>9. ASSUME NEW d \in 1 .. (n - 1)
      PROVE  \E p \in toServer' : p.seq = Back(d)
  <2>1. d \in 1 .. n /\ d # n
    BY <1>4
  <2>2. PICK p \in toServer : p.seq = Back(d)
    BY <1>2, <2>1
  <2>3. p # o
    BY <1>3, <1>7, <2>1, <2>2
  <2> QED BY <1>1, <2>2, <2>3
<1> QED BY <1>4, <1>5, <1>6, <1>8, <1>9 DEF LatestOnTheWay

\* Every step keeps LatestOnTheWay.
LEMMA LatestNext ==
  ASSUME FInv, MaxOvertaken = 0, ~CryptoMayFail, 2 * MaxPending < SeqMod,
         BeforeConnect, LatestOnTheWay, [Next]_vars
  PROVE  LatestOnTheWay'
<1>1. CASE OrderUntouched
  <2>1. UNCHANGED <<currentSeq, toServer, nextSeq, session>>
    BY <1>1 DEF OrderUntouched
  <2>2. \A d : Back(d)' = Back(d)
    BY <2>1 DEF Back
  <2> QED BY <2>1, <2>2 DEF LatestOnTheWay
<1>2. CASE session' # "connected"
  BY <1>2 DEF LatestOnTheWay
<1>3. CASE session = "none" /\ session' = "connected"
  <2>1. toServer' = {} /\ nextSeq' = 0
    BY <1>3, ConnectsToIdleServer
  <2>2. 0 \in 0 .. MaxPending
    BY CommonAssumption
  <2> QED BY <2>1, <2>2 DEF LatestOnTheWay
<1>4. ASSUME NEW o \in toServer, Serve(o) PROVE LatestOnTheWay'
  BY <1>4, LatestAfterServe
<1>5. ASSUME NEW new, SendsOne(new) PROVE LatestOnTheWay'
  BY <1>5, LatestAfterSend
<1> QED BY <1>1, <1>2, <1>3, <1>4, <1>5, OrderSteps

\* With requests delivered in the order they are sent, req_handler never drops
\* one on its sequence number, for every initial number and across the wrap.
THEOREM InOrderDelivery ==
  ASSUME MaxOvertaken = 0, ~CryptoMayFail, MaxDestroyFails = 0,
         2 * MaxPending < SeqMod
  PROVE  Spec => []NoRequestStranded
<1> DEFINE DInv == BeforeConnect /\ LatestOnTheWay /\ NoRequestStranded
<1>1. Init => DInv
  BY DEF Init, ClientInit, ServerInit, BeforeConnect, LatestOnTheWay,
         NoRequestStranded
<1>2. FInv /\ DInv /\ [Next]_vars => DInv'
  BY BeforeConnectNext, LatestNext, LatestAdmitted, NotStrandedNext
<1>3. DInv => NoRequestStranded
  OBVIOUS
<1> HIDE DEF DInv
<1> QED BY <1>1, <1>2, <1>3, FaultFree, PTL DEF Spec

-------------------------------------------------------------------------------
(***************************************************************************)
(* Requests overtake each other                                            *)
(***************************************************************************)
\* For as long as the client runs, its sequence number does not wrap.
NoWrap ==
  \A s \in InitSeqs : s + 2 * (MaxRequests + MaxPending + 1) < SeqMod

\* A step of the client sends at most one message, and with it advances the
\* number; prepare_disconnect's limit and the calls bound the messages.
LEMMA SendsCountMessages ==
  ASSUME FInv, MaxDestroyFails = 0, [Next]_vars
  PROVE  /\ Sends \in Int /\ Sends' \in Int
         /\ Sends' <= MaxRequests + MaxPending + 1
         /\ \/ /\ currentSeq' = currentSeq
               /\ Sends <= Sends'
               /\ outstanding' \subseteq outstanding
            \/ /\ currentSeq' = IncSeq(currentSeq)
               /\ Sends' = Sends + 1
               /\ \A o \in outstanding' :
                    o \in outstanding \/ o.seq = currentSeq
<1> DEFINE Quiet == /\ currentSeq' = currentSeq
                    /\ Sends <= Sends'
                    /\ outstanding' \subseteq outstanding
           Sent  == /\ currentSeq' = IncSeq(currentSeq)
                    /\ \A o \in outstanding' :
                         o \in outstanding \/ o.seq = currentSeq
<1>1. MaxRequests \in Nat /\ MaxPending \in Nat
  BY CommonAssumption
<1>2. calls \in 0 .. MaxRequests /\ loops \in 0 .. MaxPending
  BY DEF FInv, SInv, IInv, TypeOK
<1>3. calls' \in 0 .. MaxRequests /\ loops' \in 0 .. MaxPending
  BY SInvNext DEF FInv, SInv, IInv, TypeOK
<1>4. Sends \in Int
  BY <1>1, <1>2 DEF Sends
<1>5. Sends' \in Int /\ Sends' <= MaxRequests + MaxPending + 1
  <2>1. PICK a, b : /\ a = (IF call' = "request" THEN -1 ELSE 0)
                    /\ b = (IF call' = "disc_sent" \/ session' = "destroyed"
                           THEN 1 ELSE 0)
    OBVIOUS
  <2>2. /\ a \in Int /\ -1 <= a /\ a <= 0
        /\ b \in Int /\ 0 <= b /\ b <= 1
    BY <2>1
  <2>3. Sends' = calls' + loops' + a + b
    BY <2>1 DEF Sends
  <2>4. PICK c \in 0 .. MaxRequests, l \in 0 .. MaxPending :
          c = calls' /\ l = loops'
    BY <1>3
  <2>5. c + l + a + b \in Int /\ c + l + a + b <= MaxRequests + MaxPending + 1
    BY <1>1, <2>2
  <2> QED BY <2>3, <2>4, <2>5
<1>6. [ClientNext]_clientVars
  BY SystemStepIsClientStep DEF FInv, SInv
<1>7. ASSUME NEW op, NEW key, NEW tag, NEW buf, NEW encrypted \in BOOLEAN,
             FillAndSend(op, key, tag, buf, encrypted)
      PROVE  \/ currentSeq' = currentSeq /\ outstanding' = outstanding
             \/ Sent
  <2>1. CASE encrypted
    <3>1. PICK new : new = [slot |-> CurrentSlot, seq |-> currentSeq, op |-> op,
                            key |-> key, tag |-> tag]
      OBVIOUS
    <3>2. /\ new.seq = currentSeq /\ currentSeq' = IncSeq(currentSeq)
          /\ outstanding' = outstanding \cup {new}
      BY <1>7, <2>1, <3>1 DEF FillAndSend
    <3> QED BY <3>2
  <2>2. CASE ~encrypted
    BY <1>7, <2>2 DEF FillAndSend
  <2> QED BY <2>1, <2>2
<1>8. CASE SendRequest
  <2>1. \E encrypted \in BOOLEAN :
          FillAndSend(req[calls].op, req[calls].key, calls,
                      IF req[calls].op = "GET" THEN calls ELSE NoTag, encrypted)
    BY <1>8 DEF SendRequest, CryptoOutcomes
  <2>2. (currentSeq' = currentSeq /\ outstanding' = outstanding) \/ Sent
    BY <1>7, <2>1
  <2>3. Sends' = Sends + 1
    BY <1>1, <1>2, <1>8 DEF SendRequest, Sends
  <2> QED BY <1>4, <1>5, <2>2, <2>3
<1>9. CASE PrepareDisconnectSend \/ DisconnectSend
  <2>1. \E encrypted \in BOOLEAN :
          FillAndSend("ERR", NoKey, NoTag, queue[CurrentSlot].buf, encrypted)
    BY <1>9 DEF PrepareDisconnectSend, DisconnectSend, SendDisconnectMessage,
                CryptoOutcomes
  <2>2. (currentSeq' = currentSeq /\ outstanding' = outstanding) \/ Sent
    BY <1>7, <2>1
  <2>3. session = "connected"
    BY <1>9 DEF PrepareDisconnectSend, DisconnectSend, FInv, SInv, SessionOrder
  <2>4. Sends' = Sends + 1
    BY <1>1, <1>2, <1>9, <2>3 DEF PrepareDisconnectSend, DisconnectSend, Sends
  <2> QED BY <1>4, <1>5, <2>2, <2>4
<1>10. CASE Receive \/ UNCHANGED clientVars
  <2>1. /\ UNCHANGED <<currentSeq, call, session, calls, loops>>
        /\ outstanding' \subseteq outstanding
    BY <1>10 DEF Receive, DecryptContFunc, clientVars
  <2>2. Sends' = Sends
    BY <2>1 DEF Sends
  <2> QED BY <1>4, <1>5, <2>1, <2>2
<1>11. CASE DestroySession
  <2>1. /\ currentSeq' = currentSeq /\ outstanding' = {}
        /\ call = "disc_sent" /\ session' = "destroyed" /\ call' = "idle"
        /\ calls' = calls /\ loops' = loops
    BY <1>11 DEF DestroySession, FInv, SInv, IInv, TypeOK
  <2>2. Sends' = Sends
    BY <2>1 DEF Sends
  <2> QED BY <1>4, <1>5, <2>1, <2>2
<1>12. ASSUME \/ Connect
              \/ \E op \in AppOps, key \in Keys : Call(op, key)
              \/ \E op \in AppOps : CallWithoutKey(op)
              \/ PrepareDisconnect \/ PrepareDisconnectLoop \/ Disconnect
       PROVE  Quiet
  <2>1. currentSeq' = currentSeq /\ outstanding' = outstanding
    BY <1>12 DEF Connect, Call, CallWithoutKey, PrepareDisconnect,
                 PrepareDisconnectLoop, Disconnect
  <2>2. CASE \E op \in AppOps, key \in Keys : Call(op, key)
    BY <1>1, <1>2, <2>1, <2>2 DEF Call, Sends
  <2>3. CASE \E op \in AppOps : CallWithoutKey(op)
    BY <1>1, <1>2, <2>1, <2>3 DEF CallWithoutKey, Sends
  <2>4. CASE Connect \/ PrepareDisconnect \/ PrepareDisconnectLoop \/ Disconnect
    <3>1. Sends' = Sends
      BY <1>1, <1>2, <2>4 DEF Connect, PrepareDisconnect,
         PrepareDisconnectLoop, Disconnect, Sends
    <3> QED BY <1>4, <2>1, <3>1
  <2> QED BY <1>12, <2>2, <2>3, <2>4
<1> QED
  BY <1>4, <1>5, <1>6, <1>8, <1>9, <1>10, <1>11, <1>12 DEF ClientNext

\* Every step keeps NumbersGrow.
LEMMA NumbersNext ==
  ASSUME FInv, MaxDestroyFails = 0, NoWrap, NumbersGrow, [Next]_vars
  PROVE  NumbersGrow'
<1>1. PICK s \in InitSeqs : currentSeq <= s + 2 * Sends
  BY DEF NumbersGrow
<1>2. /\ s \in Int /\ currentSeq \in Int /\ currentSeq >= 0
      /\ s + 2 * (MaxRequests + MaxPending + 1) < SeqMod
      /\ MaxRequests \in Nat /\ MaxPending \in Nat /\ SeqMod \in Nat
  BY CommonAssumption DEF NoWrap, FInv, SInv, IInv, TypeOK, Seqs
<1>3. Sends \in Int /\ Sends' \in Int
  BY SendsCountMessages
<1>4. \A o \in outstanding : o.seq \in Int
  BY HeldInOwnSlot DEF Seqs
<1>5. CASE currentSeq' = currentSeq /\ Sends <= Sends'
           /\ outstanding' \subseteq outstanding
  <2>1. currentSeq' <= s + 2 * Sends'
    <3>1. PICK a \in Int, b \in Int : a = Sends /\ b = Sends'
      BY <1>3
    <3>2. currentSeq <= s + 2 * a /\ a <= b
      BY <1>1, <1>5, <3>1
    <3>3. currentSeq <= s + 2 * b
      BY <1>2, <3>2
    <3> QED BY <1>5, <3>1, <3>3
  <2>2. \A o \in outstanding' : o.seq + 2 <= currentSeq'
    BY <1>5 DEF NumbersGrow
  <2> QED BY <2>1, <2>2 DEF NumbersGrow
<1>6. CASE /\ currentSeq' = IncSeq(currentSeq) /\ Sends' = Sends + 1
           /\ \A o \in outstanding' : o \in outstanding \/ o.seq = currentSeq
  <2>1. Sends' <= MaxRequests + MaxPending + 1
    BY SendsCountMessages
  <2>2. currentSeq + 2 <= s + 2 * Sends' /\ currentSeq + 2 < SeqMod
    BY <1>1, <1>2, <1>3, <1>6, <2>1
  <2>3. currentSeq' = currentSeq + 2
    BY <1>2, <1>6, <2>2 DEF IncSeq, NextSeq
  <2>4. ASSUME NEW o \in outstanding' PROVE o.seq + 2 <= currentSeq'
    <3>1. CASE o \in outstanding
      <4>1. o.seq + 2 <= currentSeq /\ o.seq \in Int
        BY <1>4, <3>1 DEF NumbersGrow
      <4> QED BY <1>2, <2>3, <4>1
    <3>2. CASE o.seq = currentSeq
      BY <1>2, <2>3, <3>2
    <3> QED BY <1>6, <3>1, <3>2
  <2> QED BY <2>2, <2>3, <2>4 DEF NumbersGrow
<1> QED BY <1>5, <1>6, SendsCountMessages

\* Before the wrap, a request on its way is in the window without a modulus.
LEMMA InTheWindow ==
  ASSUME FInv, NoWrap, NumbersGrow, WindowBound, NEW o \in outstanding
  PROVE  /\ o.seq \in Int /\ 0 <= o.seq /\ currentSeq < SeqMod
         /\ o.seq + 2 <= currentSeq
         /\ \E d \in 1 .. MaxPending : o.seq = currentSeq - 2 * d
<1>1. /\ o.slot \in Slots /\ o.seq \in Seqs /\ queue[o.slot].valid
      /\ queue[o.slot].seq = o.seq
  BY HeldInOwnSlot
<1>2. PICK d \in 1 .. MaxPending : o.seq = (currentSeq - 2 * d) % SeqMod
  BY <1>1 DEF WindowBound
<1>3. PICK s \in InitSeqs : s + 2 * (MaxRequests + MaxPending + 1) < SeqMod
  BY DEF NumbersGrow, NoWrap
<1>4. /\ s \in Int /\ s >= 0 /\ MaxRequests \in Nat /\ MaxPending \in Nat
      /\ SeqMod \in Nat \ {0} /\ d \in Int /\ 1 <= d /\ d <= MaxPending
      /\ currentSeq \in Int /\ 0 <= currentSeq /\ currentSeq < SeqMod
      /\ o.seq \in Int /\ 0 <= o.seq
  BY <1>1, CommonAssumption DEF FInv, SInv, IInv, TypeOK, Seqs
<1>5. o.seq + 2 <= currentSeq
  BY DEF NumbersGrow
<1>6. 2 * d < SeqMod
  BY <1>3, <1>4
<1>7. CASE currentSeq >= 2 * d
  <2>1. o.seq = currentSeq - 2 * d
    BY <1>2, <1>4, <1>7
  <2> QED BY <1>4, <1>5, <2>1
<1>8. CASE currentSeq < 2 * d
  <2>1. (currentSeq - 2 * d) % SeqMod = currentSeq - 2 * d + SeqMod
    BY <1>4, <1>6, <1>8
  <2> QED BY <1>2, <1>4, <1>5, <1>6, <2>1
<1> QED BY <1>4, <1>7, <1>8

\* Before the wrap, the age of a request is a difference.
LEMMA AgeInTheWindow ==
  ASSUME FInv, NoWrap, NumbersGrow, WindowBound, NEW o \in outstanding
  PROVE  Age(o) = currentSeq - o.seq
<1>1. /\ o.seq \in Int /\ 0 <= o.seq /\ currentSeq < SeqMod
      /\ o.seq + 2 <= currentSeq
  BY InTheWindow
<1>2. currentSeq \in Int /\ SeqMod \in Nat \ {0}
  BY CommonAssumption DEF FInv, SInv, IInv, TypeOK, Seqs
<1> QED BY <1>1, <1>2 DEF Age

\* The request that arrives is at most MaxOvertaken ahead of every other one.
LEMMA ArrivesInBound ==
  ASSUME FInv, NoWrap, NumbersGrow, WindowBound, session = "connected",
         NEW o \in toServer, MayArrive(o), NEW p \in toServer
  PROVE  o.seq <= p.seq + 2 * MaxOvertaken
<1>1. o \in outstanding /\ p \in outstanding
  BY DEF FInv, SInv, Clean, OneAnswer
<1>2. Age(o) = currentSeq - o.seq /\ Age(p) = currentSeq - p.seq
  BY <1>1, AgeInTheWindow
<1>3. /\ o.seq \in Int /\ p.seq \in Int /\ currentSeq \in Int
      /\ MaxOvertaken \in Nat
  BY <1>1, InTheWindow, OvertakingAssumption
     DEF FInv, SInv, IInv, TypeOK, Seqs
<1>4. Age(p) <= Age(o) + 2 * MaxOvertaken
  BY DEF MayArrive
<1> QED BY <1>2, <1>3, <1>4

\* The server's expected number is at most MaxOvertaken + 1 requests ahead of
\* the one that arrives, and at most twice MaxOvertaken behind it.
LEMMA OvertakenAdmitted ==
  ASSUME FInv, NoWrap, 2 * MaxOvertaken <= SeqThreshold,
         NumbersGrow, WindowBound, OvertakenInBound
  PROVE  Admitted
<1> SUFFICES ASSUME session = "connected", NEW o \in toServer, MayArrive(o),
                    nextSeq # 0
             PROVE  WithinThreshold(o.seq)
  BY DEF Admitted
<1>1. o \in outstanding
  BY DEF FInv, SInv, Clean, OneAnswer
<1>2. /\ o.seq \in Int /\ 0 <= o.seq /\ o.seq + 2 <= currentSeq
  BY <1>1, InTheWindow
<1>3. PICK e \in Nat :
        /\ \A d \in 1 .. e : \E p \in toServer : p.seq = currentSeq - 2 * d
        /\ currentSeq - 2 * e <= o.seq + 2 * MaxOvertaken + 2
        /\ nextSeq <= currentSeq - 2 * e
        /\ currentSeq - 2 * e <= nextSeq + 2 * MaxOvertaken
  BY DEF OvertakenInBound
<1>4. /\ MaxOvertaken \in Nat /\ SeqThreshold \in Nat \ {0}
      /\ currentSeq \in Int /\ nextSeq \in Int
  BY CommonAssumption, OvertakingAssumption
     DEF FInv, SInv, SystemTypeOK, IInv, TypeOK, Seqs
<1>5. o.seq <= currentSeq - 2 * e + 2 * MaxOvertaken
  <2>1. CASE e = 0
    BY <1>2, <1>4, <2>1
  <2>2. CASE e # 0
    <3>1. e \in 1 .. e
      BY <2>2
    <3>2. PICK p \in toServer : p.seq = currentSeq - 2 * e
      BY <1>3, <3>1
    <3>3. o.seq <= p.seq + 2 * MaxOvertaken
      BY ArrivesInBound
    <3> QED BY <3>2, <3>3
  <2> QED BY <2>1, <2>2
<1>6. o.seq - nextSeq <= 2 * SeqThreshold
  BY <1>2, <1>3, <1>4, <1>5
<1>7. nextSeq - o.seq <= 2 * SeqThreshold
  BY <1>2, <1>3, <1>4
<1> QED BY <1>2, <1>4, <1>6, <1>7 DEF WithinThreshold, AbsDiff

\* Sending: one more of the latest requests is on its way.
LEMMA OvertakenAfterSend ==
  ASSUME FInv, NoWrap, NumbersGrow, WindowBound, OvertakenInBound,
         NEW new, SendsOne(new), currentSeq' = currentSeq + 2
  PROVE  OvertakenInBound'
<1>1. currentSeq \in Int /\ nextSeq \in Int /\ MaxOvertaken \in Nat
  BY CommonAssumption, OvertakingAssumption
     DEF FInv, SInv, SystemTypeOK, IInv, TypeOK, Seqs
<1>2. PICK e \in Nat :
        /\ \A d \in 1 .. e : \E p \in toServer : p.seq = currentSeq - 2 * d
        /\ \A p \in toServer :
             currentSeq - 2 * e <= p.seq + 2 * MaxOvertaken + 2
        /\ \/ nextSeq = 0
           \/ /\ nextSeq <= currentSeq - 2 * e
              /\ currentSeq - 2 * e <= nextSeq + 2 * MaxOvertaken
  BY DEF OvertakenInBound, SendsOne
<1>3. e + 1 \in Nat /\ currentSeq' - 2 * (e + 1) = currentSeq - 2 * e
  BY <1>1
<1>4. ASSUME NEW d \in 1 .. (e + 1)
      PROVE  \E p \in toServer' : p.seq = currentSeq' - 2 * d
  <2>1. CASE d = 1
    <3>1. new.seq = currentSeq' - 2 * d /\ new \in toServer'
      BY <1>1, <2>1 DEF SendsOne
    <3> QED BY <3>1
  <2>2. CASE d # 1
    <3>1. d - 1 \in 1 .. e /\ d \in Int
      BY <2>2
    <3>2. PICK p \in toServer : p.seq = currentSeq - 2 * (d - 1)
      BY <1>2, <3>1
    <3>3. p.seq = currentSeq' - 2 * d
      BY <1>1, <3>1, <3>2
    <3> QED BY <3>3 DEF SendsOne
  <2> QED BY <2>1, <2>2
<1>5. currentSeq - 2 * e <= new.seq + 2 * MaxOvertaken + 2
  BY <1>1 DEF SendsOne
<1>6. \A p \in toServer' :
        currentSeq' - 2 * (e + 1) <= p.seq + 2 * MaxOvertaken + 2
  BY <1>2, <1>3, <1>5 DEF SendsOne
<1>7. \/ nextSeq' = 0
      \/ /\ nextSeq' <= currentSeq' - 2 * (e + 1)
         /\ currentSeq' - 2 * (e + 1) <= nextSeq' + 2 * MaxOvertaken
  BY <1>2, <1>3 DEF SendsOne
<1> QED BY <1>3, <1>4, <1>6, <1>7 DEF OvertakenInBound

\* Handling a request: if it is later than all handled before it, those sent
\* before it and still on their way are overtaken by it.
LEMMA OvertakenAfterServe ==
  ASSUME FInv, NoWrap, ~CryptoMayFail, 2 * MaxOvertaken <= SeqThreshold,
         NumbersGrow, WindowBound, OvertakenInBound,
         NEW o \in toServer, Serve(o)
  PROVE  OvertakenInBound'
<1> SUFFICES ASSUME session = "connected" PROVE OvertakenInBound'
  BY DEF OvertakenInBound, Serve, clientVars
<1>1. /\ currentSeq' = currentSeq /\ toServer' = toServer \ {o} /\ MayArrive(o)
  BY DEF Serve, clientVars
<1>2. o \in outstanding
  BY DEF FInv, SInv, Clean, OneAnswer
<1>3. /\ o.seq \in Int /\ 0 <= o.seq /\ currentSeq < SeqMod
      /\ o.seq + 2 <= currentSeq
  BY <1>2, InTheWindow
<1>4. PICK c \in 1 .. MaxPending : o.seq = currentSeq - 2 * c
  BY <1>2, InTheWindow
<1>5. /\ currentSeq \in Int /\ MaxPending \in Nat /\ SeqMod \in Nat \ {0}
      /\ MaxOvertaken \in Nat /\ c \in Nat /\ 1 <= c
  BY CommonAssumption, OvertakingAssumption DEF FInv, SInv, IInv, TypeOK, Seqs
<1>6. nextSeq' = o.seq + 2
  <2>1. nextSeq' = SeqAfter(o.seq)
    BY OvertakenAdmitted, AdmittedIsAnswered
  <2> QED BY <1>3, <1>5, <2>1 DEF SeqAfter, NextSeq
<1>7. \A p \in toServer : p.seq \in Int /\ o.seq <= p.seq + 2 * MaxOvertaken
  BY <1>1, ArrivesInBound, InTheWindow DEF FInv, SInv, Clean, OneAnswer
<1>8. PICK e \in Nat :
        /\ \A d \in 1 .. e : \E p \in toServer : p.seq = currentSeq - 2 * d
        /\ \A p \in toServer :
             currentSeq - 2 * e <= p.seq + 2 * MaxOvertaken + 2
  BY DEF OvertakenInBound
<1>9. ASSUME NEW n \in Nat, n <= e, n < c
      PROVE  \A d \in 1 .. n : \E p \in toServer' : p.seq = currentSeq' - 2 * d
  <2> SUFFICES ASSUME NEW d \in 1 .. n
               PROVE  \E p \in toServer' : p.seq = currentSeq - 2 * d
    BY <1>1
  <2>1. d \in 1 .. e /\ d \in Int /\ d < c
    BY <1>5, <1>9
  <2>2. PICK p \in toServer : p.seq = currentSeq - 2 * d
    BY <1>8, <2>1
  <2>3. p # o
    BY <1>4, <1>5, <2>1, <2>2
  <2> QED BY <1>1, <2>2, <2>3
<1>10. CASE c <= e
  <2>1. c - 1 \in Nat /\ c - 1 <= e /\ c - 1 < c
    BY <1>5, <1>10
  <2>2. currentSeq' - 2 * (c - 1) = o.seq + 2
    BY <1>1, <1>4, <1>5
  <2>3. \A p \in toServer' :
          currentSeq' - 2 * (c - 1) <= p.seq + 2 * MaxOvertaken + 2
    <3> SUFFICES ASSUME NEW p \in toServer
                 PROVE  currentSeq' - 2 * (c - 1) <= p.seq + 2 * MaxOvertaken + 2
      BY <1>1
    <3>1. p.seq \in Int /\ o.seq <= p.seq + 2 * MaxOvertaken
      BY <1>7
    <3> QED BY <1>3, <1>5, <2>2, <3>1
  <2>4. /\ nextSeq' <= currentSeq' - 2 * (c - 1)
        /\ currentSeq' - 2 * (c - 1) <= nextSeq' + 2 * MaxOvertaken
    BY <1>3, <1>5, <1>6, <2>2
  <2>5. \A d \in 1 .. (c - 1) :
          \E p \in toServer' : p.seq = currentSeq' - 2 * d
    BY <1>9, <2>1
  <2> QED BY <2>1, <2>3, <2>4, <2>5 DEF OvertakenInBound
<1>11. CASE e < c
  <2>1. /\ nextSeq' <= currentSeq' - 2 * e
        /\ currentSeq' - 2 * e <= nextSeq' + 2 * MaxOvertaken
    <3>1. currentSeq - 2 * e <= o.seq + 2 * MaxOvertaken + 2
      BY <1>8
    <3> QED BY <1>1, <1>3, <1>4, <1>5, <1>6, <1>11, <3>1
  <2>2. \A p \in toServer' :
          currentSeq' - 2 * e <= p.seq + 2 * MaxOvertaken + 2
    BY <1>1, <1>8
  <2>3. \A d \in 1 .. e : \E p \in toServer' : p.seq = currentSeq' - 2 * d
    BY <1>9, <1>11
  <2> QED BY <2>1, <2>2, <2>3 DEF OvertakenInBound
<1> QED BY <1>5, <1>10, <1>11

\* Every step keeps OvertakenInBound.
LEMMA OvertakenNext ==
  ASSUME FInv, NoWrap, ~CryptoMayFail, MaxDestroyFails = 0,
         2 * MaxOvertaken <= SeqThreshold,
         BeforeConnect, NumbersGrow, WindowBound, OvertakenInBound, [Next]_vars
  PROVE  OvertakenInBound'
<1>1. CASE OrderUntouched
  BY <1>1 DEF OrderUntouched, OvertakenInBound
<1>2. CASE session' # "connected"
  BY <1>2 DEF OvertakenInBound
<1>3. CASE session = "none" /\ session' = "connected"
  <2>1. nextSeq' = 0 /\ toServer' = {}
    BY <1>3, ConnectsToIdleServer
  <2>2. \A d \in 1 .. 0 : FALSE
    OBVIOUS
  <2>3. 0 \in Nat
    OBVIOUS
  <2> QED BY <2>1, <2>2, <2>3 DEF OvertakenInBound
<1>4. ASSUME NEW o \in toServer, Serve(o) PROVE OvertakenInBound'
  BY <1>4, OvertakenAfterServe
<1>5. ASSUME NEW new, SendsOne(new) PROVE OvertakenInBound'
  <2>1. NumbersGrow' /\ currentSeq' \in Seqs
    BY NumbersNext, SInvNext DEF FInv, SInv, IInv, TypeOK
  <2>2. /\ currentSeq \in Seqs /\ SeqMod \in Nat \ {0}
    BY CommonAssumption DEF FInv, SInv, IInv, TypeOK
  <2>3. currentSeq' = currentSeq + 2
    <3>1. new \in outstanding' /\ new.seq = currentSeq
      BY <1>5 DEF SendsOne
    <3>2. currentSeq + 2 <= currentSeq'
      BY <2>1, <3>1 DEF NumbersGrow
    <3>3. currentSeq' = (((currentSeq + 1) % SeqMod) + 1) % SeqMod
      BY <1>5 DEF SendsOne, IncSeq, NextSeq
    <3>4. /\ currentSeq \in Int /\ 0 <= currentSeq /\ currentSeq < SeqMod
          /\ currentSeq' \in Int /\ currentSeq' < SeqMod
      BY <2>1, <2>2 DEF Seqs
    <3>5. currentSeq + 2 < SeqMod
      BY <2>2, <3>2, <3>4
    <3> QED BY <2>2, <3>3, <3>4, <3>5
  <2> QED BY <1>5, <2>3, OvertakenAfterSend
<1> QED BY <1>1, <1>2, <1>3, <1>4, <1>5, OrderSteps

\* Where requests overtake others sent up to MaxOvertaken before them,
\* req_handler drops none on its sequence number if twice MaxOvertaken is at
\* most SEQ_THRESHOLD, whatever the ring size: the code's threshold of 64
\* tolerates overtaking by 32 requests in its ring of 1024.  Beyond that bound
\* (run late_request), and by any overtaking around the wrap of the number, a
\* request is dropped.
THEOREM BoundedOvertaking ==
  ASSUME ~CryptoMayFail, MaxDestroyFails = 0,
         2 * MaxOvertaken <= SeqThreshold, NoWrap
  PROVE  Spec => []NoRequestStranded
<1> DEFINE DInv == /\ BeforeConnect /\ WindowBound /\ NumbersGrow
                   /\ OvertakenInBound /\ NoRequestStranded
<1>1. Init => DInv
  <2> SUFFICES ASSUME Init PROVE DInv
    OBVIOUS
  <2>1. BeforeConnect /\ OvertakenInBound /\ NoRequestStranded
    BY DEF Init, ClientInit, ServerInit, BeforeConnect, OvertakenInBound,
           NoRequestStranded
  <2>2. WindowBound
    BY DEF Init, ClientInit, WindowBound
  <2>3. NumbersGrow
    <3>1. currentSeq \in InitSeqs /\ Sends = 0 /\ outstanding = {}
      BY DEF Init, ClientInit, Sends
    <3>2. currentSeq \in Int
      BY <3>1, CommonAssumption
    <3> QED BY <3>1, <3>2 DEF NumbersGrow
  <2> QED BY <2>1, <2>2, <2>3
<1>2. FInv /\ DInv /\ [Next]_vars => DInv'
  <2> SUFFICES ASSUME FInv, DInv, [Next]_vars PROVE DInv'
    OBVIOUS
  <2>1. BeforeConnect' /\ NumbersGrow' /\ OvertakenInBound'
    BY BeforeConnectNext, NumbersNext, OvertakenNext
  <2>2. WindowBound'
    BY SystemStepIsClientStep, WindowNext DEF FInv, SInv
  <2>3. NoRequestStranded'
    BY OvertakenAdmitted, NotStrandedNext
  <2> QED BY <2>1, <2>2, <2>3
<1>3. DInv => NoRequestStranded
  OBVIOUS
<1> HIDE DEF DInv
<1> QED BY <1>1, <1>2, <1>3, FaultFree, PTL DEF Spec
===============================================================================
