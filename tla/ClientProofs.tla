----------------------------- MODULE ClientProofs -----------------------------
(***************************************************************************)
(* Proofs about the client in an environment that answers anything, for    *)
(* every ring size, sequence number width, number of calls and so on.      *)
(***************************************************************************)
EXTENDS Client, TLAPS

(***************************************************************************)
(* The calls made so far are 1 .. calls, and only the latest one can still *)
(* be waiting for its slot; prepare_disconnect sends within its limit.     *)
(***************************************************************************)
CallOrder ==
  /\ \A t \in Tags : status[t] = "unissued" <=> t > calls
  /\ \A t \in Tags : status[t] = "called" <=> t = calls /\ call = "request"
  /\ call = "request" => calls \in Tags /\ req[calls].op # "ERR"
  /\ call = "prep_send" => loops < MaxPending

\* A slot in use carries a sequence number that maps to it.
SlotOfSeq ==
  \A i \in Slots : queue[i].valid => AcceptedIndex(queue[i].seq) = i

\* So does a slot whose buffers eRPC still holds, even if it is not in use.
SlotOfOutstanding ==
  \A o \in outstanding : AcceptedIndex(queue[o.slot].seq) = o.slot

\* The inductive invariant.
IInv ==
  /\ TypeOK
  /\ CallOrder
  /\ SlotOfSeq
  /\ SlotOfOutstanding
  /\ PendingHasOneSlot
  /\ CallbackExactlyOnce

-------------------------------------------------------------------------------
\* NEXT_SEQ and PREV_SEQ stay within the 54 bits.
LEMMA SeqRange ==
  ASSUME NEW s \in Seqs
  PROVE  NextSeq(s) \in Seqs /\ PrevSeq(s) \in Seqs /\ IncSeq(s) \in Seqs
BY CommonAssumption DEF Seqs, NextSeq, PrevSeq, IncSeq

\* PREV_SEQ undoes NEXT_SEQ, also where the sequence number wraps.
LEMMA PrevOfNext ==
  ASSUME NEW s \in Seqs
  PROVE  PrevSeq(NextSeq(s)) = s
<1>1. CASE s = SeqMod - 1
  BY <1>1, CommonAssumption DEF Seqs, NextSeq, PrevSeq
<1>2. CASE s # SeqMod - 1
  BY <1>2, CommonAssumption DEF Seqs, NextSeq, PrevSeq
<1> QED BY <1>1, <1>2

\* ACCEPTED_INDEX is an index of the ring.
LEMMA IndexInSlots ==
  ASSUME NEW s \in Seqs
  PROVE  AcceptedIndex(s) \in Slots
<1>1. s \div 2 \in Nat
  BY CommonAssumption DEF Seqs
<1> QED BY <1>1, CommonAssumption DEF AcceptedIndex, Slots

-------------------------------------------------------------------------------
(***************************************************************************)
(* The parts of the invariant that message_arrived and invalidate_all can  *)
(* disturb.                                                                *)
(***************************************************************************)
Books == SlotOfSeq /\ PendingHasOneSlot /\ CallbackExactlyOnce

BooksTypeOK ==
  /\ queue \in [Slots -> MsgTags]
  /\ connected \in BOOLEAN
  /\ status \in [Tags -> Statuses]
  /\ callbacks \in [Tags -> Nat]

\* Statuses that CallOrder speaks of, and the sequence numbers of the slots,
\* are left alone.
OnlyPendingChanges ==
  /\ \A t \in Tags : status'[t] # status[t] =>
       status[t] = "pending" /\ status'[t] \in RetVals
  /\ \A i \in Slots : queue'[i].seq = queue[i].seq

\* The end of one request (sent_message_tag::invalidate) keeps the books.
LEMMA InvalidateKeepsBooks ==
  ASSUME BooksTypeOK, Books,
         NEW i \in Slots, queue[i].valid,
         NEW ret \in RetVals,
         Invalidate(ret, i)
  PROVE  BooksTypeOK' /\ Books' /\ OnlyPendingChanges
<1> DEFINE t0 == queue[i].tag
<1>1. queue' = [queue EXCEPT ![i].valid = FALSE]
  BY DEF Invalidate
<1>2. queue' \in [Slots -> MsgTags]
  BY <1>1 DEF BooksTypeOK, MsgTags
<1>3. /\ ~queue'[i].valid
      /\ queue'[i].seq = queue[i].seq
      /\ \A j \in Slots : j # i => queue'[j] = queue[j]
  BY <1>1 DEF BooksTypeOK, MsgTags
<1>4. SlotOfSeq'
  BY <1>3 DEF Books, SlotOfSeq, AcceptedIndex
<1>5. CASE queue[i].op = "ERR"
  <2>1. connected' = FALSE /\ status' = status /\ callbacks' = callbacks
    BY <1>5 DEF Invalidate
  <2>2. \A j \in Slots, t \in Tags : Holds(j, t)' <=> Holds(j, t)
    BY <1>3, <1>5 DEF Holds
  <2>3. PendingHasOneSlot'
    BY <1>3, <2>1, <2>2 DEF Books, PendingHasOneSlot
  <2> QED
    BY <1>2, <1>3, <1>4, <2>1, <2>3 DEF BooksTypeOK, Books, CallbackExactlyOnce,
                                  OnlyPendingChanges
<1>6. CASE queue[i].op # "ERR"
  <2>1. /\ connected' = connected
        /\ status' = [status EXCEPT ![t0] = ret]
        /\ callbacks' = [callbacks EXCEPT ![t0] = @ + 1]
    BY <1>6 DEF Invalidate
  <2>2. t0 \in Tags /\ status[t0] = "pending" /\ Holds(i, t0)
    BY <1>6 DEF Books, PendingHasOneSlot, Holds
  <2>3. /\ status' \in [Tags -> Statuses]
        /\ callbacks' \in [Tags -> Nat]
    BY <2>1, <2>2 DEF BooksTypeOK, Statuses
  <2>4. \A j \in Slots, t \in Tags : Holds(j, t)' <=> Holds(j, t) /\ j # i
    BY <1>3 DEF Holds
  <2>5. \A j \in Slots : Holds(j, t0) => j = i
    BY <2>2 DEF Books, PendingHasOneSlot
  <2>6. status'[t0] = ret /\ \A t \in Tags : t # t0 => status'[t] = status[t]
    BY <2>1, <2>2 DEF BooksTypeOK
  <2>7. ret # "pending"
    BY DEF RetVals
  <2>8. PendingHasOneSlot'
    <3>1. ASSUME NEW j \in Slots, queue'[j].valid, queue'[j].op # "ERR"
          PROVE  queue'[j].tag \in Tags /\ status'[queue'[j].tag] = "pending"
      <4>1. j # i /\ queue'[j] = queue[j]
        BY <1>3, <3>1
      <4>2. queue[j].tag \in Tags /\ status[queue[j].tag] = "pending"
        BY <3>1, <4>1 DEF Books, PendingHasOneSlot
      <4>3. queue[j].tag # t0
        BY <2>5, <3>1, <4>1, <4>2 DEF Holds
      <4> QED BY <2>6, <4>1, <4>2, <4>3
    <3>2. ASSUME NEW t \in Tags, status'[t] = "pending"
          PROVE  \E j \in Slots : Holds(j, t)'
      <4>1. t # t0 /\ status[t] = "pending"
        BY <2>6, <2>7, <3>2
      <4>2. PICK j \in Slots : Holds(j, t)
        BY <4>1 DEF Books, PendingHasOneSlot
      <4>3. j # i
        BY <4>1, <4>2 DEF Holds
      <4> QED BY <2>4, <4>2, <4>3
    <3>3. \A t \in Tags, j, k \in Slots : Holds(j, t)' /\ Holds(k, t)' => j = k
      BY <2>4 DEF Books, PendingHasOneSlot
    <3> QED BY <3>1, <3>2, <3>3 DEF PendingHasOneSlot
  <2>9. CallbackExactlyOnce'
    <3>1. callbacks[t0] = 0
      BY <2>2 DEF Books, CallbackExactlyOnce, RetVals
    <3>2. /\ callbacks'[t0] = 1
          /\ \A t \in Tags : t # t0 => callbacks'[t] = callbacks[t]
      BY <2>1, <2>2, <3>1 DEF BooksTypeOK
    <3> QED BY <2>6, <3>2 DEF Books, CallbackExactlyOnce
  <2>10. OnlyPendingChanges
    BY <1>3, <2>2, <2>6 DEF OnlyPendingChanges
  <2> QED
    BY <1>2, <1>4, <2>1, <2>3, <2>8, <2>9, <2>10 DEF BooksTypeOK, Books
<1> QED BY <1>5, <1>6

\* message_arrived keeps the books: it ends a request in use, or does nothing.
LEMMA MessageArrivedKeepsBooks ==
  ASSUME BooksTypeOK, Books,
         NEW i \in Slots,
         NEW ret \in RetVals,
         MessageArrived(ret, i)
  PROVE  BooksTypeOK' /\ Books' /\ OnlyPendingChanges
<1>1. CASE queue[i].valid
  BY <1>1, InvalidateKeepsBooks DEF MessageArrived
<1>2. CASE ~queue[i].valid
  <2>1. UNCHANGED <<queue, connected, status, callbacks>>
    BY <1>2 DEF MessageArrived, NothingArrived
  <2> QED
    BY <2>1 DEF BooksTypeOK, Books, SlotOfSeq, PendingHasOneSlot, Holds,
                CallbackExactlyOnce, OnlyPendingChanges, AcceptedIndex
<1> QED BY <1>1, <1>2

\* invalidate_all_requests keeps the books: all pending requests end at once.
LEMMA InvalidateAllKeepsBooks ==
  ASSUME BooksTypeOK, Books, InvalidateAll
  PROVE  BooksTypeOK' /\ Books' /\ OnlyPendingChanges
<1> DEFINE timedOut == {t \in Tags : \E i \in {i \in Slots : queue[i].valid} :
                          queue[i].op # "ERR" /\ queue[i].tag = t}
<1>1. /\ queue' = [i \in Slots |-> [queue[i] EXCEPT !.valid = FALSE]]
      /\ connected' \in BOOLEAN
      /\ status' = [t \in Tags |->
                      IF t \in timedOut THEN "TIMEOUT" ELSE status[t]]
      /\ callbacks' = [t \in Tags |->
                         callbacks[t] + (IF t \in timedOut THEN 1 ELSE 0)]
  BY DEF InvalidateAll
<1>2. \A t \in Tags : t \in timedOut <=> status[t] = "pending"
  BY DEF Books, PendingHasOneSlot, Holds
<1>3. /\ queue' \in [Slots -> MsgTags]
      /\ \A i \in Slots : ~queue'[i].valid /\ queue'[i].seq = queue[i].seq
  BY <1>1 DEF BooksTypeOK, MsgTags
<1>4. \A t \in Tags :
        /\ status'[t] = IF status[t] = "pending" THEN "TIMEOUT" ELSE status[t]
        /\ callbacks'[t] = callbacks[t] +
                             (IF status[t] = "pending" THEN 1 ELSE 0)
  BY <1>1, <1>2
<1>5. status' \in [Tags -> Statuses] /\ callbacks' \in [Tags -> Nat]
  BY <1>1 DEF BooksTypeOK, Statuses, RetVals
<1>6. SlotOfSeq' /\ PendingHasOneSlot'
  BY <1>3, <1>4 DEF SlotOfSeq, PendingHasOneSlot, Holds
<1>7. CallbackExactlyOnce'
  BY <1>4 DEF Books, BooksTypeOK, CallbackExactlyOnce, RetVals
<1>8. OnlyPendingChanges
  BY <1>3, <1>4 DEF OnlyPendingChanges, RetVals
<1> QED BY <1>1, <1>3, <1>5, <1>6, <1>7, <1>8 DEF BooksTypeOK, Books

-------------------------------------------------------------------------------
(***************************************************************************)
(* Filling a slot                                                          *)
(***************************************************************************)
\* What FillAndSend leaves behind, for any request: the slot was free, and
\* after it only this slot differs.
LEMMA FillAndSendEffect ==
  ASSUME TypeOK, SlotOfSeq, SlotOfOutstanding,
         NEW op \in Ops, NEW key \in Keys \cup {NoKey},
         NEW tag \in Vals, NEW buf \in Vals, NEW encrypted \in BOOLEAN,
         FillAndSend(op, key, tag, buf, encrypted)
  PROVE  /\ CurrentSlot \in Slots
         /\ ~queue[CurrentSlot].valid
         /\ queue' \in [Slots -> MsgTags]
         /\ currentSeq' \in Seqs
         /\ outstanding' \subseteq Enqueued
         /\ queue'[CurrentSlot].valid = encrypted
         /\ queue'[CurrentSlot].op = op
         /\ queue'[CurrentSlot].tag = tag
         /\ \A i \in Slots : i # CurrentSlot => queue'[i] = queue[i]
         /\ SlotOfSeq' /\ SlotOfOutstanding'
<1> DEFINE new == [valid |-> encrypted, seq |-> currentSeq, op |-> op,
                   tag |-> tag, buf |-> buf]
<1>1. currentSeq \in Seqs /\ queue \in [Slots -> MsgTags]
  BY DEF TypeOK
<1>2. CurrentSlot \in Slots
  BY <1>1, IndexInSlots DEF CurrentSlot
<1>3. ~queue[CurrentSlot].valid
  BY DEF FillAndSend, PreparedTag, SlotFree
<1>4. new \in MsgTags
  BY <1>1 DEF MsgTags
<1>5. queue' = [queue EXCEPT ![CurrentSlot] = new]
  BY DEF FillAndSend, PreparedTag
<1>6. /\ queue' \in [Slots -> MsgTags]
      /\ queue'[CurrentSlot] = new
      /\ \A i \in Slots : i # CurrentSlot => queue'[i] = queue[i]
  BY <1>1, <1>2, <1>4, <1>5
<1>7. currentSeq' \in Seqs
  BY <1>1, SeqRange DEF FillAndSend, PreparedTag
<1>8. outstanding' \subseteq Enqueued
  <2>1. [slot |-> CurrentSlot, seq |-> currentSeq, op |-> op, key |-> key,
         tag |-> tag] \in Enqueued
    BY <1>1, <1>2 DEF Enqueued
  <2> QED BY <2>1 DEF FillAndSend, PreparedTag, TypeOK
<1>9. SlotOfSeq'
  <2>1. ASSUME NEW i \in Slots, queue'[i].valid
        PROVE  AcceptedIndex(queue'[i].seq) = i
    <3>1. CASE i = CurrentSlot
      BY <1>6, <3>1 DEF CurrentSlot
    <3>2. CASE i # CurrentSlot
      BY <1>6, <2>1, <3>2 DEF SlotOfSeq
    <3> QED BY <3>1, <3>2
  <2> QED BY <2>1 DEF SlotOfSeq, AcceptedIndex
<1>10. SlotOfOutstanding'
  <2>1. ASSUME NEW o \in outstanding'
        PROVE  AcceptedIndex(queue'[o.slot].seq) = o.slot
    <3>1. o \in outstanding \/ o.slot = CurrentSlot
      BY <2>1 DEF FillAndSend, PreparedTag
    <3>2. CASE o.slot = CurrentSlot
      BY <1>6, <3>2 DEF CurrentSlot
    <3>3. CASE o \in outstanding /\ o.slot # CurrentSlot
      BY <1>6, <3>3 DEF SlotOfOutstanding, TypeOK, Enqueued
    <3> QED BY <3>1, <3>2, <3>3
  <2> QED BY <2>1 DEF SlotOfOutstanding, AcceptedIndex
<1> QED BY <1>2, <1>3, <1>6, <1>7, <1>8, <1>9, <1>10

\* get, put and del: the call's request is pending in the slot, or refused.
LEMMA SendRequestStep ==
  ASSUME IInv, SendRequest
  PROVE  IInv'
<1> DEFINE op == req[calls].op
           buf == IF op = "GET" THEN calls ELSE NoTag
<1>1. PICK encrypted \in BOOLEAN :
        /\ FillAndSend(op, req[calls].key, calls, buf, encrypted)
        /\ status' = [status EXCEPT ![calls] =
                        IF encrypted THEN "pending" ELSE "refused"]
  BY DEF SendRequest, CryptoOutcomes
<1>2. /\ call = "request" /\ call' = "idle"
      /\ UNCHANGED <<session, connected, loops, calls, req, callbacks, userBuf,
                     destroyFails, garbled>>
  BY DEF SendRequest, faultVars
<1>3. calls \in Tags /\ op \in Ops /\ op # "ERR"
      /\ req[calls].key \in Keys \cup {NoKey}
  BY <1>2 DEF IInv, CallOrder, TypeOK
<1>4. calls \in Vals /\ buf \in Vals
  BY <1>3 DEF Vals
<1>5. /\ CurrentSlot \in Slots
      /\ ~queue[CurrentSlot].valid
      /\ queue' \in [Slots -> MsgTags]
      /\ currentSeq' \in Seqs
      /\ outstanding' \subseteq Enqueued
      /\ queue'[CurrentSlot].valid = encrypted
      /\ queue'[CurrentSlot].op = op
      /\ queue'[CurrentSlot].tag = calls
      /\ \A i \in Slots : i # CurrentSlot => queue'[i] = queue[i]
      /\ SlotOfSeq' /\ SlotOfOutstanding'
  <2> HIDE DEF op, buf
  <2> QED BY <1>1, <1>3, <1>4, FillAndSendEffect DEF IInv
<1>6. status[calls] = "called"
  BY <1>2, <1>3 DEF IInv, CallOrder
<1>7. /\ status' \in [Tags -> Statuses]
      /\ status'[calls] = IF encrypted THEN "pending" ELSE "refused"
      /\ \A t \in Tags : t # calls => status'[t] = status[t]
  BY <1>1, <1>3 DEF IInv, TypeOK, Statuses
<1>8. TypeOK'
  BY <1>2, <1>5, <1>7 DEF IInv, TypeOK, Calls
<1>9. CallOrder'
  <2>1. \A t \in Tags : status'[t] # "called"
    BY <1>2, <1>7 DEF IInv, CallOrder
  <2>2. \A t \in Tags : status'[t] = "unissued" <=> t > calls
    BY <1>3, <1>6, <1>7 DEF IInv, CallOrder
  <2> QED BY <1>2, <2>1, <2>2 DEF CallOrder
<1>10. \A i \in Slots : ~Holds(i, calls)
  BY <1>6 DEF IInv, PendingHasOneSlot, Holds
<1>11. \A i \in Slots, t \in Tags :
         Holds(i, t)' <=> \/ Holds(i, t)
                          \/ i = CurrentSlot /\ t = calls /\ encrypted
  <2> SUFFICES ASSUME NEW i \in Slots, NEW t \in Tags
               PROVE  Holds(i, t)' <=> \/ Holds(i, t)
                                       \/ /\ i = CurrentSlot
                                          /\ t = calls /\ encrypted
    OBVIOUS
  <2> HIDE DEF op
  <2>1. CASE i = CurrentSlot
    BY <1>3, <1>5, <2>1 DEF Holds
  <2>2. CASE i # CurrentSlot
    BY <1>5, <2>2 DEF Holds
  <2> QED BY <2>1, <2>2
<1>12. PendingHasOneSlot'
  <2>1. ASSUME NEW i \in Slots, queue'[i].valid, queue'[i].op # "ERR"
        PROVE  queue'[i].tag \in Tags /\ status'[queue'[i].tag] = "pending"
    <3>1. CASE i = CurrentSlot
      BY <1>3, <1>5, <1>7, <2>1, <3>1
    <3>2. CASE i # CurrentSlot
      <4>1. queue[i].tag \in Tags /\ status[queue[i].tag] = "pending"
        BY <1>5, <2>1, <3>2 DEF IInv, PendingHasOneSlot
      <4> QED BY <1>5, <1>6, <1>7, <3>2, <4>1
    <3> QED BY <3>1, <3>2
  <2>2. ASSUME NEW t \in Tags, status'[t] = "pending"
        PROVE  \E i \in Slots : Holds(i, t)'
    <3>1. CASE t = calls
      BY <1>5, <1>7, <1>11, <2>2, <3>1
    <3>2. CASE t # calls
      BY <1>7, <1>11, <2>2, <3>2 DEF IInv, PendingHasOneSlot
    <3> QED BY <3>1, <3>2
  <2>3. \A t \in Tags, i, j \in Slots : Holds(i, t)' /\ Holds(j, t)' => i = j
    BY <1>10, <1>11 DEF IInv, PendingHasOneSlot
  <2> QED BY <2>1, <2>2, <2>3 DEF PendingHasOneSlot
<1>13. CallbackExactlyOnce'
  BY <1>2, <1>6, <1>7 DEF IInv, CallbackExactlyOnce, RetVals
<1> QED BY <1>5, <1>8, <1>9, <1>12, <1>13 DEF IInv

\* A disconnect message takes a slot and touches no request.
LEMMA SendDisconnectMessageStep ==
  ASSUME IInv, SendDisconnectMessage,
         loops' \in 0 .. MaxPending, call' \in Calls,
         call # "request", call' \notin {"request", "prep_send"},
         UNCHANGED <<session, connected, calls, req, status, callbacks,
                     userBuf, faultVars>>
  PROVE  IInv'
<1> DEFINE buf == queue[CurrentSlot].buf
<1>1. PICK encrypted \in BOOLEAN :
        FillAndSend("ERR", NoKey, NoTag, buf, encrypted)
  BY DEF SendDisconnectMessage, CryptoOutcomes
<1>2. buf \in Vals /\ NoTag \in Vals /\ "ERR" \in Ops
  BY IndexInSlots DEF IInv, TypeOK, MsgTags, CurrentSlot, Vals, Ops
<1>3. /\ CurrentSlot \in Slots
      /\ ~queue[CurrentSlot].valid
      /\ queue' \in [Slots -> MsgTags]
      /\ currentSeq' \in Seqs
      /\ outstanding' \subseteq Enqueued
      /\ queue'[CurrentSlot].op = "ERR"
      /\ \A i \in Slots : i # CurrentSlot => queue'[i] = queue[i]
      /\ SlotOfSeq' /\ SlotOfOutstanding'
  <2> HIDE DEF buf
  <2> QED BY <1>1, <1>2, FillAndSendEffect DEF IInv
<1>4. TypeOK'
  BY <1>3 DEF IInv, TypeOK, faultVars
<1>5. CallOrder'
  BY DEF IInv, CallOrder
<1>6. \A i \in Slots, t \in Tags : Holds(i, t)' <=> Holds(i, t)
  BY <1>3 DEF Holds
<1>7. PendingHasOneSlot'
  BY <1>3, <1>6 DEF IInv, PendingHasOneSlot
<1>8. CallbackExactlyOnce'
  BY DEF IInv, CallbackExactlyOnce
<1> QED BY <1>3, <1>4, <1>5, <1>7, <1>8 DEF IInv

-------------------------------------------------------------------------------
\* The continuation decrypt_cont_func, with whatever response.
LEMMA DecryptContFuncStep ==
  ASSUME IInv,
         NEW o \in outstanding,
         NEW msg \in Responses \cup {Undecryptable},
         DecryptContFunc(o, msg)
  PROVE  IInv'
<1> DEFINE s == queue[o.slot]
<1>1. BooksTypeOK /\ Books
  BY DEF IInv, TypeOK, BooksTypeOK, Books
<1>2. o.slot \in Slots /\ s \in MsgTags
  BY DEF IInv, TypeOK, Enqueued
<1>3. userBuf' \in [Tags -> Vals \cup {Garbage}]
  <2>1. userBuf' \in BuffersAfterDecrypt(s, msg)
    BY DEF DecryptContFunc
  <2>2. s.buf # NoTag => s.buf \in Tags
    BY <1>2 DEF MsgTags, Vals
  <2>3. msg # Undecryptable => msg.val \in Vals
    BY DEF Responses
  <2>4. userBuf \in [Tags -> Vals \cup {Garbage}]
    BY DEF IInv, TypeOK
  <2> HIDE DEF s
  <2> QED BY <2>1, <2>2, <2>3, <2>4 DEF BuffersAfterDecrypt
<1>4. /\ outstanding' \subseteq Enqueued
      /\ UNCHANGED <<currentSeq, session, call, loops, calls, req, destroyFails>>
      /\ garbled' \in BOOLEAN
  BY DEF DecryptContFunc, IInv, TypeOK
<1>5. BooksTypeOK' /\ Books' /\ OnlyPendingChanges
  <2>1. CASE /\ msg = Undecryptable
             /\ \E seq \in Seqs :
                  MessageArrived("INVALID_RESPONSE", ArrivedSlot(seq))
    <3>1. PICK seq \in Seqs :
            MessageArrived("INVALID_RESPONSE", ArrivedSlot(seq))
      BY <2>1
    <3>2. ArrivedSlot(seq) \in Slots /\ "INVALID_RESPONSE" \in RetVals
      BY SeqRange, IndexInSlots DEF ArrivedSlot, RetVals
    <3> QED BY <1>1, <3>1, <3>2, MessageArrivedKeepsBooks
  <2>2. CASE NothingArrived
    BY <1>1, <2>2 DEF NothingArrived, BooksTypeOK, Books, SlotOfSeq, Holds,
                      PendingHasOneSlot, CallbackExactlyOnce,
                      OnlyPendingChanges, AcceptedIndex
  <2>3. CASE /\ msg # Undecryptable
             /\ MessageArrived(IF msg.op = s.op THEN "OP_SUCCESS"
                                                ELSE "OP_FAILED",
                               ArrivedSlot(msg.seq))
    <3>1. ArrivedSlot(msg.seq) \in Slots
      BY <2>3, SeqRange, IndexInSlots DEF ArrivedSlot, Responses
    <3>2. (IF msg.op = s.op THEN "OP_SUCCESS" ELSE "OP_FAILED") \in RetVals
      BY DEF RetVals
    <3> HIDE DEF s
    <3> QED BY <1>1, <2>3, <3>1, <3>2, MessageArrivedKeepsBooks
  <2> QED BY <2>1, <2>2, <2>3 DEF DecryptContFunc
<1>6. TypeOK'
  BY <1>3, <1>4, <1>5 DEF IInv, TypeOK, BooksTypeOK
<1>7. CallOrder'
  BY <1>4, <1>5 DEF IInv, CallOrder, OnlyPendingChanges, RetVals
<1>8. SlotOfOutstanding'
  <2>1. outstanding' \subseteq outstanding
    BY DEF DecryptContFunc
  <2>2. \A p \in outstanding : queue'[p.slot].seq = queue[p.slot].seq
    BY <1>5 DEF OnlyPendingChanges, IInv, TypeOK, Enqueued
  <2> QED BY <2>1, <2>2 DEF IInv, SlotOfOutstanding, AcceptedIndex
<1> QED BY <1>5, <1>6, <1>7, <1>8 DEF IInv, Books

\* The end of the session.
LEMMA DestroySessionStep ==
  ASSUME IInv, DestroySession
  PROVE  IInv'
<1>1. BooksTypeOK /\ Books /\ InvalidateAll
  BY DEF IInv, TypeOK, BooksTypeOK, Books, DestroySession
<1>2. BooksTypeOK' /\ Books' /\ OnlyPendingChanges
  BY <1>1, InvalidateAllKeepsBooks
<1>3. /\ call = "disc_sent" /\ call' = "idle"
      /\ session' \in {session, "destroyed"} /\ outstanding' \subseteq outstanding
      /\ UNCHANGED <<currentSeq, loops, calls, req, userBuf, garbled>>
  BY DEF DestroySession
<1>4. TypeOK'
  <2>1. destroyFails' \in 0 .. MaxDestroyFails
    BY CommonAssumption DEF DestroySession, IInv, TypeOK
  <2> QED BY <1>2, <1>3, <2>1 DEF IInv, TypeOK, BooksTypeOK, Calls
<1>5. CallOrder'
  BY <1>2, <1>3 DEF IInv, CallOrder, OnlyPendingChanges, RetVals
<1>6. SlotOfOutstanding'
  <2>1. \A p \in outstanding : queue'[p.slot].seq = queue[p.slot].seq
    BY <1>2 DEF OnlyPendingChanges, IInv, TypeOK, Enqueued
  <2> QED BY <1>3, <2>1 DEF IInv, SlotOfOutstanding, AcceptedIndex
<1> QED BY <1>2, <1>4, <1>5, <1>6 DEF IInv, Books

\* get, put or del is called.
LEMMA CallStep ==
  ASSUME IInv, NEW op \in AppOps, NEW key \in Keys, Call(op, key)
  PROVE  IInv'
<1> DEFINE t0 == calls + 1
<1>1. t0 \in Tags /\ calls \in Nat /\ call = "idle" /\ op \in Ops /\ op # "ERR"
  BY CommonAssumption DEF Call, IInv, TypeOK, Tags, Ops, KvOps
<1>2. status[t0] = "unissued"
  BY <1>1 DEF IInv, CallOrder
<1>3. /\ calls' = t0 /\ call' = "request"
      /\ req' = [req EXCEPT ![t0] = [op |-> op, key |-> key]]
      /\ status' = [status EXCEPT ![t0] = "called"]
      /\ UNCHANGED <<currentSeq, queue, session, connected, loops, callbacks,
                     userBuf, outstanding, destroyFails, garbled>>
  BY DEF Call, faultVars
<1>4. /\ status' \in [Tags -> Statuses]
      /\ status'[t0] = "called"
      /\ \A t \in Tags : t # t0 => status'[t] = status[t]
  BY <1>1, <1>3 DEF IInv, TypeOK, Statuses
<1>5. /\ req' \in [Tags -> [op : Ops, key : Keys \cup {NoKey}]]
      /\ req'[t0].op # "ERR"
  BY <1>1, <1>3 DEF IInv, TypeOK
<1>6. TypeOK'
  BY <1>1, <1>3, <1>4, <1>5 DEF IInv, TypeOK, Calls, Tags
<1>7. CallOrder'
  BY <1>1, <1>3, <1>4, <1>5 DEF IInv, CallOrder, Tags
<1>8. SlotOfSeq' /\ SlotOfOutstanding' /\ PendingHasOneSlot'
  BY <1>2, <1>3, <1>4 DEF IInv, SlotOfSeq, SlotOfOutstanding, AcceptedIndex,
                          PendingHasOneSlot, Holds
<1>9. CallbackExactlyOnce'
  BY <1>2, <1>3, <1>4 DEF IInv, CallbackExactlyOnce, RetVals
<1> QED BY <1>6, <1>7, <1>8, <1>9 DEF IInv

\* get, put or del without a key.
LEMMA CallWithoutKeyStep ==
  ASSUME IInv, NEW op \in AppOps, CallWithoutKey(op)
  PROVE  IInv'
<1> DEFINE t0 == calls + 1
<1>1. t0 \in Tags /\ calls \in Nat /\ call = "idle" /\ op \in Ops
  BY CommonAssumption DEF CallWithoutKey, IInv, TypeOK, Tags, Ops, KvOps
<1>2. status[t0] = "unissued"
  BY <1>1 DEF IInv, CallOrder
<1>3. /\ calls' = t0 /\ call' = call
      /\ req' = [req EXCEPT ![t0] = [op |-> op, key |-> NoKey]]
      /\ status' = [status EXCEPT ![t0] = "refused"]
      /\ UNCHANGED <<currentSeq, queue, session, connected, loops, callbacks,
                     userBuf, outstanding, destroyFails, garbled>>
  BY DEF CallWithoutKey, faultVars
<1>4. /\ status' \in [Tags -> Statuses]
      /\ status'[t0] = "refused"
      /\ \A t \in Tags : t # t0 => status'[t] = status[t]
  BY <1>1, <1>3 DEF IInv, TypeOK, Statuses
<1>5. TypeOK'
  BY <1>1, <1>3, <1>4 DEF IInv, TypeOK, Tags
<1>6. CallOrder'
  BY <1>1, <1>3, <1>4 DEF IInv, CallOrder, Tags
<1>7. SlotOfSeq' /\ SlotOfOutstanding' /\ PendingHasOneSlot'
  BY <1>2, <1>3, <1>4 DEF IInv, SlotOfSeq, SlotOfOutstanding, AcceptedIndex,
                          PendingHasOneSlot, Holds
<1>8. CallbackExactlyOnce'
  BY <1>2, <1>3, <1>4 DEF IInv, CallbackExactlyOnce, RetVals
<1> QED BY <1>5, <1>6, <1>7, <1>8 DEF IInv

\* Steps that only move the application's thread or the session.
LEMMA ControlStep ==
  ASSUME IInv,
         session' \in {"none", "connected", "destroyed"},
         connected' \in BOOLEAN, call' \in Calls,
         call # "request", call' # "request",
         call' = "prep_send" => loops < MaxPending,
         UNCHANGED <<currentSeq, queue, loops, calls, req, status, callbacks,
                     userBuf, outstanding, faultVars>>
  PROVE  IInv'
BY DEF faultVars, IInv, TypeOK, CallOrder, SlotOfSeq, SlotOfOutstanding, Holds,
       PendingHasOneSlot, CallbackExactlyOnce, AcceptedIndex

-------------------------------------------------------------------------------
\* The invariant holds initially.
LEMMA IInvInit == ClientInit => IInv
<1> SUFFICES ASSUME ClientInit PROVE IInv
  OBVIOUS
<1>1. TypeOK
  <2>1. currentSeq \in Seqs /\ 0 \in Seqs
    BY CommonAssumption DEF ClientInit, Seqs
  <2>2. queue \in [Slots -> MsgTags]
    BY <2>1 DEF ClientInit, MsgTags, Vals, Ops
  <2>3. req \in [Tags -> [op : Ops, key : Keys \cup {NoKey}]]
    BY DEF ClientInit, NoCall, Ops
  <2>4. status \in [Tags -> Statuses] /\ callbacks \in [Tags -> Nat]
    BY DEF ClientInit, Statuses
  <2>5. userBuf \in [Tags -> Vals \cup {Garbage}]
    BY DEF ClientInit, Vals
  <2>6. /\ loops \in 0 .. MaxPending /\ calls \in 0 .. MaxRequests
        /\ outstanding \subseteq Enqueued
        /\ destroyFails \in 0 .. MaxDestroyFails
    BY CommonAssumption DEF ClientInit
  <2>7. session = "none" /\ call \in Calls
    BY DEF ClientInit, Calls
  <2>8. connected \in BOOLEAN /\ garbled \in BOOLEAN
    BY Zenon DEF ClientInit
  <2> QED BY <2>1, <2>2, <2>3, <2>4, <2>5, <2>6, <2>7, <2>8 DEF TypeOK
<1>2. CallOrder
  BY DEF ClientInit, CallOrder, Tags
<1>3. /\ SlotOfSeq /\ SlotOfOutstanding
      /\ PendingHasOneSlot /\ CallbackExactlyOnce
  BY DEF ClientInit, SlotOfSeq, SlotOfOutstanding, PendingHasOneSlot, Holds,
         CallbackExactlyOnce, RetVals
<1> QED BY <1>1, <1>2, <1>3 DEF IInv

\* Every step of the client keeps it: one case per action.
LEMMA IInvNext == IInv /\ [ClientNext]_clientVars => IInv'
<1> SUFFICES ASSUME IInv, [ClientNext]_clientVars PROVE IInv'
  OBVIOUS
<1>1. CASE Connect
  BY <1>1, ControlStep DEF Connect, Calls
<1>2. ASSUME NEW op \in AppOps, NEW key \in Keys, Call(op, key) PROVE IInv'
  BY <1>2, CallStep
<1>3. ASSUME NEW op \in AppOps, CallWithoutKey(op) PROVE IInv'
  BY <1>3, CallWithoutKeyStep
<1>4. CASE SendRequest
  BY <1>4, SendRequestStep
<1>5. CASE PrepareDisconnect
  BY <1>5, ControlStep DEF PrepareDisconnect, Calls, IInv, TypeOK
<1>6. CASE PrepareDisconnectLoop
  BY <1>6, ControlStep DEF PrepareDisconnectLoop, Calls, IInv, TypeOK
<1>7. CASE PrepareDisconnectSend
  <2>1. loops' \in 0 .. MaxPending
    BY <1>7, CommonAssumption DEF PrepareDisconnectSend, IInv, TypeOK, CallOrder
  <2> QED BY <1>7, <2>1, SendDisconnectMessageStep
             DEF PrepareDisconnectSend, Calls
<1>8. CASE Disconnect
  BY <1>8, ControlStep DEF Disconnect, Calls, IInv, TypeOK
<1>9. CASE DisconnectSend
  BY <1>9, SendDisconnectMessageStep DEF DisconnectSend, Calls, IInv, TypeOK
<1>10. CASE DestroySession
  BY <1>10, DestroySessionStep
<1>11. CASE Receive
  BY <1>11, DecryptContFuncStep DEF Receive
<1>12. CASE UNCHANGED clientVars
  BY <1>12 DEF clientVars, faultVars, IInv, TypeOK, CallOrder, SlotOfSeq, Holds,
               SlotOfOutstanding, PendingHasOneSlot, CallbackExactlyOnce,
               AcceptedIndex
<1> QED
  BY <1>1, <1>2, <1>3, <1>4, <1>5, <1>6, <1>7, <1>8, <1>9, <1>10, <1>11, <1>12
     DEF ClientNext

\* The invariant holds in every state the client can reach.
THEOREM Invariance == ClientSpec => []IInv
BY IInvInit, IInvNext, PTL DEF ClientSpec

\* Type correctness of the client.
THEOREM TypeCorrect == ClientSpec => []TypeOK
<1>1. IInv => TypeOK
  BY DEF IInv
<1> QED BY <1>1, Invariance, PTL

\* No accepted request is overwritten, forgotten or held by two slots of the
\* ring, whatever arrives and in whatever order.
THEOREM RequestsKeepTheirSlot == ClientSpec => []PendingHasOneSlot
<1>1. IInv => PendingHasOneSlot
  BY DEF IInv
<1> QED BY <1>1, Invariance, PTL

\* Every callback runs at most once, and exactly when its request ends.
THEOREM CallbackOnce == ClientSpec => []CallbackExactlyOnce
<1>1. IInv => CallbackExactlyOnce
  BY DEF IInv
<1> QED BY <1>1, Invariance, PTL

-------------------------------------------------------------------------------
(***************************************************************************)
(* Responses reach their own request                                       *)
(***************************************************************************)
OwnResponse(t) ==
  status[t] = "pending" /\ status'[t] \in {"OP_SUCCESS", "OP_FAILED"}
  => \E o \in outstanding \ outstanding' : Holds(o.slot, t)

\* Only the continuation reports success or failure, and only for the slot
\* it was registered with: ACCEPTED_INDEX(PREV_SEQ(.)) finds that slot again.
LEMMA ContinuationOwnResponse ==
  ASSUME IInv,
         NEW o \in outstanding,
         NEW msg \in Responses \cup {Undecryptable},
         DecryptContFunc(o, msg),
         NEW t \in Tags
  PROVE  OwnResponse(t)
<1> DEFINE s == queue[o.slot]
<1> SUFFICES ASSUME status[t] = "pending",
                    status'[t] \in {"OP_SUCCESS", "OP_FAILED"}
             PROVE  \E p \in outstanding \ outstanding' : Holds(p.slot, t)
  BY DEF OwnResponse
<1>1. o.slot \in Slots /\ s \in MsgTags /\ s.seq \in Seqs
  BY DEF IInv, TypeOK, Enqueued, MsgTags
<1>2. outstanding' = outstanding \ {o}
  BY DEF DecryptContFunc
<1>3. \A ret, i : MessageArrived(ret, i) /\ i \in Slots =>
        queue[i].valid /\ queue[i].op # "ERR" /\ queue[i].tag = t
                       /\ status'[t] = ret
  BY DEF MessageArrived, NothingArrived, Invalidate, IInv, TypeOK
<1>4. ~ \E seq \in Seqs : MessageArrived("INVALID_RESPONSE", ArrivedSlot(seq))
  BY <1>3, SeqRange, IndexInSlots DEF ArrivedSlot
<1>5. ~NothingArrived
  BY DEF NothingArrived
<1>6. /\ msg # Undecryptable
      /\ ResponseMatches(s, msg)
      /\ \E ret : MessageArrived(ret, ArrivedSlot(msg.seq))
  BY <1>4, <1>5 DEF DecryptContFunc
<1>7. ArrivedSlot(msg.seq) = AcceptedIndex(s.seq)
  BY <1>1, <1>6, PrevOfNext DEF ResponseMatches, ArrivedSlot
<1>8. AcceptedIndex(s.seq) \in Slots
  BY <1>1, IndexInSlots
<1>9. AcceptedIndex(s.seq) = o.slot
  BY DEF IInv, SlotOfOutstanding
<1>10. Holds(o.slot, t)
  BY <1>3, <1>6, <1>7, <1>8, <1>9 DEF Holds
<1> QED BY <1>2, <1>10

\* No step but the continuation completes a request.
LEMMA NextOwnResponse ==
  ASSUME IInv, [ClientNext]_clientVars, NEW t \in Tags
  PROVE  OwnResponse(t)
<1> SUFFICES ASSUME status[t] = "pending",
                    status'[t] \in {"OP_SUCCESS", "OP_FAILED"}
             PROVE  OwnResponse(t)
  BY DEF OwnResponse
<1>1. ASSUME NEW op \in AppOps, NEW key \in Keys, Call(op, key) PROVE FALSE
  BY <1>1 DEF Call, IInv, TypeOK
<1>2. ASSUME NEW op \in AppOps, CallWithoutKey(op) PROVE FALSE
  BY <1>2 DEF CallWithoutKey, IInv, TypeOK
<1>3. CASE SendRequest
  BY <1>3 DEF SendRequest, IInv, TypeOK
<1>4. CASE DestroySession
  BY <1>4 DEF DestroySession, InvalidateAll
<1>5. CASE Receive
  BY <1>5, ContinuationOwnResponse DEF Receive
<1>6. ASSUME status' = status PROVE FALSE
  BY <1>6
<1> QED
  BY <1>1, <1>2, <1>3, <1>4, <1>5, <1>6
     DEF ClientNext, clientVars, Connect, PrepareDisconnect, Disconnect,
         PrepareDisconnectLoop, PrepareDisconnectSend, DisconnectSend

\* A request succeeds or fails only through its own continuation with a
\* response to its own sequence number, for every initial sequence number and
\* across the wrap.
THEOREM OwnResponses == ClientSpec => OwnResponseCompletes
<1>1. IInv /\ [ClientNext]_clientVars =>
        [\A t \in Tags :
           /\ status[t] = "pending"
           /\ status'[t] \in {"OP_SUCCESS", "OP_FAILED"}
           => \E o \in outstanding \ outstanding' : Holds(o.slot, t)]_clientVars
  BY NextOwnResponse DEF OwnResponse
<1> QED BY <1>1, Invariance, PTL DEF ClientSpec, OwnResponseCompletes

-------------------------------------------------------------------------------
(***************************************************************************)
(* Arithmetic of the ring                                                  *)
(***************************************************************************)
\* Quotient and remainder are unique.
LEMMA RemainderUnique ==
  ASSUME NEW m \in Nat \ {0}, NEW a \in Int, NEW b \in Int,
         NEW r \in 0 .. (m - 1), NEW s \in 0 .. (m - 1),
         m * a + r = m * b + s
  PROVE  r = s
<1>1. CASE a = b
  BY <1>1
<1>2. CASE a >= b + 1
  <2>1. m * a >= m * (b + 1)
    BY <1>2
  <2>2. m * (b + 1) = m * b + m
    OBVIOUS
  <2> QED BY <2>1, <2>2
<1>3. CASE b >= a + 1
  <2>1. m * b >= m * (a + 1)
    BY <1>3
  <2>2. m * (a + 1) = m * a + m
    OBVIOUS
  <2> QED BY <2>1, <2>2
<1> QED BY <1>1, <1>2, <1>3

\* Quotient and remainder.
LEMMA DivMod ==
  ASSUME NEW m \in Nat \ {0}, NEW a \in Int
  PROVE  /\ a \div m \in Int /\ a % m \in 0 .. (m - 1)
         /\ a = m * (a \div m) + (a % m)
OBVIOUS

\* Adding a multiple of the modulus.
LEMMA ModShift ==
  ASSUME NEW m \in Nat \ {0}, NEW a \in Int, NEW k \in Int
  PROVE  (a + m * k) % m = a % m
<1> DEFINE q == a \div m
           r == a % m
           b == a + m * k
           q2 == b \div m
           r2 == b % m
<1>1. q \in Int /\ r \in 0 .. (m - 1) /\ a = m * q + r
  BY DivMod
<1>2. m * k \in Int /\ b \in Int
  OBVIOUS
<1>3. q2 \in Int /\ r2 \in 0 .. (m - 1) /\ b = m * q2 + r2
  BY <1>2, DivMod
<1> HIDE DEF q, r, q2, r2
<1>4. m * (q + k) = m * q + m * k
  BY <1>1
<1>5. m * (q + k) + r = m * q2 + r2
  BY <1>1, <1>2, <1>3, <1>4
<1>6. q + k \in Int
  BY <1>1
<1>7. r = r2
  BY <1>1, <1>3, <1>5, <1>6, RemainderUnique
<1> QED BY <1>7 DEF r, r2

\* A sum may be reduced before or after.
LEMMA ModPlus ==
  ASSUME NEW m \in Nat \ {0}, NEW a \in Int, NEW b \in Int
  PROVE  ((a % m) + b) % m = (a + b) % m
<1> DEFINE q == a \div m
           r == a % m
<1>1. q \in Int /\ r \in 0 .. (m - 1) /\ a = m * q + r
  BY DivMod
<1> HIDE DEF q, r
<1>2. a + b = (r + b) + m * q /\ r + b \in Int
  BY <1>1
<1>3. ((r + b) + m * q) % m = (r + b) % m
  BY <1>1, <1>2, ModShift
<1> QED BY <1>2, <1>3 DEF r

\* 2^54 is a positive multiple of twice the ring size.
LEMMA RingDivides ==
  \E q \in Nat \ {0} : SeqMod = (2 * MaxPending) * q
<1> DEFINE m == 2 * MaxPending
           q == SeqMod \div m
<1>1. m \in Nat \ {0} /\ SeqMod \in Nat \ {0} /\ SeqMod % m = 0
  BY CommonAssumption
<1> HIDE DEF m
<1>2. q \in Int /\ SeqMod = m * q
  BY <1>1, DivMod
<1> HIDE DEF q
<1>3. q > 0
  <2>1. CASE q <= 0
    <3>1. m * q <= 0
      BY <1>1, <1>2, <2>1
    <3> QED BY <1>1, <1>2, <3>1
  <2> QED BY <1>2, <2>1
<1>4. q \in Nat \ {0}
  BY <1>2, <1>3
<1> QED BY <1>2, <1>4 DEF m

\* Twice the ring size back the ring index is the same, also across the wrap.
LEMMA IndexPeriod ==
  ASSUME NEW s \in Seqs
  PROVE  AcceptedIndex((s - 2 * MaxPending) % SeqMod) = AcceptedIndex(s)
<1> DEFINE M == MaxPending
           p == (s - 2 * M) % SeqMod
           h == s \div 2
<1>1. /\ M \in Nat \ {0} /\ SeqMod \in Nat \ {0} /\ s \in Int
      /\ 0 <= s /\ s < SeqMod
  BY CommonAssumption DEF Seqs
<1>2. PICK q \in Nat \ {0} : SeqMod = (2 * M) * q
  BY RingDivides
<1>3. (2 * M) * q = 2 * (M * q) /\ M * q \in Int
  BY <1>1
<1>4. 2 * M <= SeqMod
  <2>1. M * q >= M
    BY <1>1
  <2> QED BY <1>1, <1>2, <1>3, <2>1
<1>5. \E k \in Int : p \div 2 = h + M * k
  <2>1. CASE s >= 2 * M
    <3>1. p = s - 2 * M
      BY <1>1, <2>1
    <3>2. p \div 2 = h + M * (-1)
      BY <1>1, <3>1
    <3> QED BY <3>2
  <2>2. CASE s < 2 * M
    <3>1. s - 2 * M + SeqMod \in 0 .. (SeqMod - 1)
      BY <1>1, <1>4, <2>2
    <3>2. p = s - 2 * M + SeqMod
      BY <1>1, <1>4, <2>2, <3>1
    <3>3. p = s + 2 * (M * q - M)
      BY <1>1, <1>2, <1>3, <3>2
    <3>4. p \div 2 = h + (M * q - M)
      BY <1>1, <1>3, <3>3
    <3>5. M * q - M = M * (q - 1)
      BY <1>1
    <3> QED BY <3>4, <3>5
  <2> QED BY <1>1, <2>1, <2>2
<1>6. PICK k \in Int : p \div 2 = h + M * k
  BY <1>5
<1>7. h \in Int
  BY <1>1
<1>8. (h + M * k) % M = h % M
  BY <1>1, <1>7, ModShift
<1> QED BY <1>6, <1>8 DEF AcceptedIndex

\* A number d requests back is d + 1 requests back once the next one is sent.
LEMMA OneFurtherBack ==
  ASSUME NEW s \in Seqs, NEW d \in Int
  PROVE  (s - 2 * d) % SeqMod = (IncSeq(s) - 2 * (d + 1)) % SeqMod
<1> DEFINE N == SeqMod
           a == s + 1
           b == s + 2
           c == -2 * (d + 1)
<1>1. /\ N \in Nat \ {0} /\ a \in Int /\ b \in Int /\ c \in Int
      /\ a + 1 = b /\ b + c = s - 2 * d /\ c = -(2 * (d + 1))
  BY CommonAssumption DEF Seqs
<1>2. IncSeq(s) = ((a % N) + 1) % N
  BY DEF IncSeq, NextSeq
<1> HIDE DEF N, a, b, c
<1>3. ((a % N) + 1) % N = (a + 1) % N
  <2>1. PICK one \in Int : one = 1
    OBVIOUS
  <2>2. ((a % N) + one) % N = (a + one) % N
    BY <1>1, ModPlus
  <2> QED BY <2>1, <2>2
<1>4. ((b % N) + c) % N = (b + c) % N
  BY <1>1, ModPlus
<1>5. b % N \in Int
  BY <1>1
<1>6. (b % N) + c = (b % N) - 2 * (d + 1)
  BY <1>1, <1>5
<1> QED BY <1>1, <1>2, <1>3, <1>4, <1>6 DEF N

-------------------------------------------------------------------------------
(***************************************************************************)
(* The ring is a window over the sequence numbers                          *)
(***************************************************************************)
\* Sending a request moves the window by one; the slot that would fall out of
\* it is the one the request was waiting for, so it is not in use.
LEMMA FillAndSendWindow ==
  ASSUME IInv, WindowBound,
         NEW op \in Ops, NEW key \in Keys \cup {NoKey},
         NEW tag \in Vals, NEW buf \in Vals, NEW encrypted \in BOOLEAN,
         FillAndSend(op, key, tag, buf, encrypted)
  PROVE  WindowBound'
<1> DEFINE cs == CurrentSlot
<1>1. currentSeq \in Seqs /\ queue \in [Slots -> MsgTags]
  BY DEF IInv, TypeOK
<1>2. /\ cs \in Slots
      /\ ~queue[cs].valid
      /\ queue'[cs].valid = encrypted
      /\ \A i \in Slots : i # cs => queue'[i] = queue[i]
      /\ SlotOfSeq'
  BY FillAndSendEffect DEF IInv
<1>3. queue'[cs].seq = currentSeq
  BY <1>1, <1>2 DEF FillAndSend, PreparedTag, MsgTags
<1>4. CASE ~encrypted
  <2>1. currentSeq' = currentSeq
    BY <1>4 DEF FillAndSend
  <2> QED BY <1>2, <1>4, <2>1 DEF WindowBound, SlotOfSeq, AcceptedIndex
<1>5. CASE encrypted
  <2>1. currentSeq' = IncSeq(currentSeq)
    BY <1>5 DEF FillAndSend
  <2>2. ASSUME NEW i \in Slots, queue'[i].valid
        PROVE  \E d \in 1 .. MaxPending :
                 queue'[i].seq = (IncSeq(currentSeq) - 2 * d) % SeqMod
    <3>1. CASE i = cs
      <4>1. (currentSeq - 2 * 0) % SeqMod = currentSeq
        BY <1>1, CommonAssumption DEF Seqs
      <4>2. currentSeq = (IncSeq(currentSeq) - 2 * 1) % SeqMod
        BY <1>1, <4>1, OneFurtherBack
      <4>3. 1 \in 1 .. MaxPending
        BY CommonAssumption
      <4> QED BY <1>3, <3>1, <4>2, <4>3
    <3>2. CASE i # cs
      <4>1. queue[i].valid /\ queue'[i] = queue[i]
        BY <1>2, <2>2, <3>2
      <4>2. PICK d \in 1 .. MaxPending :
              queue[i].seq = (currentSeq - 2 * d) % SeqMod
        BY <4>1 DEF WindowBound
      <4>3. d # MaxPending
        <5>1. SUFFICES ASSUME d = MaxPending PROVE FALSE
          OBVIOUS
        <5>2. AcceptedIndex(queue[i].seq) = cs
          BY <1>1, <4>2, <5>1, IndexPeriod DEF CurrentSlot
        <5>3. AcceptedIndex(queue[i].seq) = i
          BY <4>1 DEF WindowBound
        <5> QED BY <3>2, <5>2, <5>3
      <4>4. d \in Int /\ d + 1 \in 1 .. MaxPending
        BY <4>3, CommonAssumption
      <4>5. queue'[i].seq = (IncSeq(currentSeq) - 2 * (d + 1)) % SeqMod
        BY <1>1, <4>1, <4>2, <4>4, OneFurtherBack
      <4> QED BY <4>4, <4>5
    <3> QED BY <3>1, <3>2
  <2> QED BY <1>2, <2>1, <2>2 DEF WindowBound, SlotOfSeq, AcceptedIndex
<1> QED BY <1>4, <1>5

\* No other step puts a slot in use or moves the window.
LEMMA WindowKept ==
  ASSUME IInv, WindowBound, currentSeq' = currentSeq,
         \A i \in Slots : queue'[i].valid =>
           queue[i].valid /\ queue'[i].seq = queue[i].seq
  PROVE  WindowBound'
BY DEF WindowBound, AcceptedIndex

\* Every step keeps the window.
LEMMA WindowNext == IInv /\ WindowBound /\ [ClientNext]_clientVars => WindowBound'
<1> SUFFICES ASSUME IInv, WindowBound, [ClientNext]_clientVars
             PROVE  WindowBound'
  OBVIOUS
<1> DEFINE Kept == /\ currentSeq' = currentSeq
                   /\ \A i \in Slots : queue'[i].valid =>
                        queue[i].valid /\ queue'[i].seq = queue[i].seq
<1>1. queue \in [Slots -> MsgTags] /\ currentSeq \in Seqs
  BY DEF IInv, TypeOK
<1>2. CASE SendRequest
  <2> DEFINE op == req[calls].op
             buf == IF op = "GET" THEN calls ELSE NoTag
  <2>1. PICK encrypted \in BOOLEAN :
          FillAndSend(op, req[calls].key, calls, buf, encrypted)
    BY <1>2 DEF SendRequest, CryptoOutcomes
  <2>2. calls \in Tags /\ op \in Ops /\ req[calls].key \in Keys \cup {NoKey}
    BY <1>2 DEF SendRequest, IInv, CallOrder, TypeOK
  <2>3. calls \in Vals /\ buf \in Vals
    BY <2>2 DEF Vals
  <2> HIDE DEF op, buf
  <2> QED BY <2>1, <2>2, <2>3, FillAndSendWindow
<1>3. ASSUME SendDisconnectMessage PROVE WindowBound'
  <2> DEFINE buf == queue[CurrentSlot].buf
  <2>1. PICK encrypted \in BOOLEAN :
          FillAndSend("ERR", NoKey, NoTag, buf, encrypted)
    BY <1>3 DEF SendDisconnectMessage, CryptoOutcomes
  <2>2. buf \in Vals /\ NoTag \in Vals /\ "ERR" \in Ops
    BY <1>1, IndexInSlots DEF MsgTags, CurrentSlot, Vals, Ops
  <2> HIDE DEF buf
  <2> QED BY <2>1, <2>2, FillAndSendWindow
<1>4. CASE DestroySession
  <2>1. \A i \in Slots : queue'[i] = [queue[i] EXCEPT !.valid = FALSE]
    BY <1>4 DEF DestroySession, InvalidateAll
  <2>2. \A i \in Slots : ~queue'[i].valid
    BY <1>1, <2>1 DEF MsgTags
  <2>3. Kept
    BY <1>4, <2>2 DEF DestroySession
  <2> QED BY <2>3, WindowKept
<1>5. CASE Receive
  <2>1. \A ret, i : MessageArrived(ret, i) =>
          queue' = queue \/ queue' = [queue EXCEPT ![i].valid = FALSE]
    BY DEF MessageArrived, Invalidate, NothingArrived
  <2>2. \/ queue' = queue
        \/ \E i : queue' = [queue EXCEPT ![i].valid = FALSE]
    BY <1>5, <2>1 DEF Receive, DecryptContFunc, NothingArrived
  <2>3. currentSeq' = currentSeq
    BY <1>5 DEF Receive, DecryptContFunc
  <2>4. CASE queue' = queue
    BY <2>3, <2>4, WindowKept
  <2>5. ASSUME NEW i, queue' = [queue EXCEPT ![i].valid = FALSE] PROVE Kept
    <3>1. ASSUME NEW j \in Slots, queue'[j].valid
          PROVE  queue[j].valid /\ queue'[j].seq = queue[j].seq
      <4>1. queue[j] \in MsgTags
        BY <1>1
      <4>2. CASE j = i
        BY <1>1, <2>5, <3>1, <4>1, <4>2 DEF MsgTags
      <4>3. CASE j # i
        BY <1>1, <2>5, <3>1, <4>3
      <4> QED BY <4>2, <4>3
    <3> QED BY <2>3, <3>1
  <2> QED BY <2>2, <2>4, <2>5, WindowKept
<1>6. CASE UNCHANGED <<currentSeq, queue>>
  BY <1>6, WindowKept
<1> QED
  BY <1>2, <1>3, <1>4, <1>5, <1>6
     DEF ClientNext, clientVars, Connect, Call, CallWithoutKey,
         PrepareDisconnect, PrepareDisconnectLoop, PrepareDisconnectSend,
         Disconnect, DisconnectSend

\* The sequence numbers of the pending requests are a window of MaxPending
\* numbers behind the next one, each in the slot ACCEPTED_INDEX gives it: no
\* two pending requests share a number, across the wrap of the 54 bits.
THEOREM WindowTheorem == ClientSpec => []WindowBound
<1>1. ClientInit => WindowBound
  BY DEF ClientInit, WindowBound
<1> QED BY <1>1, WindowNext, Invariance, PTL DEF ClientSpec
===============================================================================
