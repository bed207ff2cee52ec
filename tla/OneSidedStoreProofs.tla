------------------------- MODULE OneSidedStoreProofs --------------------------
(***************************************************************************)
(* Proofs about the one-sided store: what its calls do, case by case, and  *)
(* type correctness.                                                       *)
(***************************************************************************)
EXTENDS OneSidedEndpointProofs

Putting(k) == call["client"].op = "PUT" /\ call["client"].key = k

\* The number of the client's last successful put: during a put, the one before.
Committed(k) == IF Putting(k) THEN seqNo["client"][k] - 1 ELSE seqNo["client"][k]

CallInv ==
  /\ \A p \in Procs : /\ call[p].op = "NONE" => Idle(p)
                      /\ call[p].op # "NONE" => call[p].key \in Keys
  /\ call["client"].op = "PUT" => call["client"].val > 0

SeqInv == \A k \in Keys : Committed(k) >= Seq0

-------------------------------------------------------------------------------
(***************************************************************************)
(* Type correctness.  It rests on SeqInv: a put that fails takes back a    *)
(* number that it has itself advanced.                                     *)
(***************************************************************************)
StoreTypeOK ==
  /\ encrypted \in BOOLEAN
  /\ mem \in [Keys -> Blocks]
  /\ localBuf \in Blocks
  /\ readBuf \in Entries
  /\ seqNo \in [Procs -> [Keys -> Nat]]
  /\ sendQ \in Seq([op : {"GET", "PUT"}, key : Keys])
  /\ cq \in Seq([op : {"GET", "PUT"}, ok : BOOLEAN])
  /\ moved \subseteq Parts
  /\ call \in [Procs -> Calls]
  /\ log \in Seq([by : Procs, key : Keys])
  /\ lastPut \in [Procs -> [Keys -> Nat]]
  /\ result \in [Procs -> Calls]

TypeInv == StoreTypeOK /\ CallInv /\ SeqInv

\* A put is added to the log and gets a new number.
LEMMA LogGrows ==
  ASSUME StoreTypeOK, NEW p \in Procs, NEW k \in Keys, LogPut(p, k)
  PROVE  /\ log' \in Seq([by : Procs, key : Keys])
         /\ Len(log') = Len(log) + 1
         /\ log'[Len(log) + 1] = [by |-> p, key |-> k]
         /\ \A i \in 1 .. Len(log) : log'[i] = log[i]
         /\ NewVal \in Nat /\ NewVal > 0
BY DEF StoreTypeOK, LogPut, NewVal

\* Appending and removing elements keeps a sequence's type.
LEMMA SeqFacts ==
  ASSUME NEW S, NEW s \in Seq(S)
  PROVE  /\ \A x \in S : Append(s, x) \in Seq(S)
         /\ s # <<>> => Head(s) \in S /\ Tail(s) \in Seq(S)
OBVIOUS

\* A whole block holds its entry in both parts.
LEMMA WholeType ==
  ASSUME NEW e \in Entries
  PROVE  Whole(e) \in Blocks /\ \A i \in Parts : Whole(e)[i] = e
BY DEF Whole, Blocks

\* What Enter and Return write has the type of a call.
LEMMA CallTypes ==
  /\ NoCall \in Calls
  /\ \A op \in {"GET", "PUT"}, k \in Keys, v \in Nat :
       [op |-> op, key |-> k, val |-> v] \in Calls
BY DEF Calls, NoCall

\* The effect of Enter on p, q being the other side.
Entered(p, q, c) ==
  /\ call' \in [Procs -> Calls]
  /\ call'[p] = c
  /\ call'[q] = call[q]
  /\ result' \in [Procs -> Calls]
  /\ result'[p] = NoCall
  /\ result'[q] = result[q]

\* Enter changes side p only.
LEMMA EnterEffect ==
  ASSUME StoreTypeOK, NEW p \in Procs, NEW q \in Procs, p # q,
         NEW op \in {"GET", "PUT"}, NEW k \in Keys, NEW v \in Nat,
         Enter(p, op, k, v)
  PROVE  Entered(p, q, [op |-> op, key |-> k, val |-> v])
<1>1. [op |-> op, key |-> k, val |-> v] \in Calls /\ NoCall \in Calls
  BY CallTypes
<1> QED BY <1>1 DEF StoreTypeOK, Enter, Entered

Returned(p, q, r) ==
  /\ call' \in [Procs -> Calls]
  /\ call'[p] = NoCall
  /\ call'[q] = call[q]
  /\ result' \in [Procs -> Calls]
  /\ result'[p] = r
  /\ result'[q] = result[q]

\* Return changes side p only.
LEMMA ReturnEffect ==
  ASSUME StoreTypeOK, NEW p \in Procs, NEW q \in Procs, p # q,
         NEW op \in {"GET", "PUT"}, NEW k \in Keys, NEW v \in Nat,
         NEW ok \in BOOLEAN, Return(p, op, k, v, ok)
  PROVE  /\ ok => Returned(p, q, [op |-> op, key |-> k, val |-> v])
         /\ ~ok => Returned(p, q, NoCall)
<1>1. [op |-> op, key |-> k, val |-> v] \in Calls /\ NoCall \in Calls
  BY CallTypes
<1>2. CASE ok
  BY <1>1, <1>2 DEF StoreTypeOK, Return, Returned
<1>3. CASE ~ok
  BY <1>1, <1>3 DEF StoreTypeOK, Return, Returned
<1> QED BY <1>2, <1>3

-------------------------------------------------------------------------------
(***************************************************************************)
(* What the calls do, case by case.                                        *)
(***************************************************************************)
\* rdma_put waits for its write with the number advanced, or has failed with
\* the number as it was.
LEMMA RdmaPutCases ==
  ASSUME StoreTypeOK, NEW k \in Keys, RdmaPut(k)
  PROVE  LET e == [key |-> k, seq |-> seqNo["client"][k] + 1, val |-> NewVal]
         IN  \/ /\ localBuf' = Whole(e)
                /\ seqNo' = [seqNo EXCEPT !["client"][k] = @ + 1]
                /\ sendQ' = Append(sendQ, [op |-> "PUT", key |-> k])
                /\ Entered("client", "server",
                           [op |-> "PUT", key |-> k, val |-> NewVal])
             \/ /\ localBuf' \in {Whole(e), [localBuf EXCEPT ![1] = Garbage]}
                /\ UNCHANGED <<seqNo, sendQ>>
                /\ Returned("client", "server", NoCall)
<1> DEFINE e == [key |-> k, seq |-> seqNo["client"][k] + 1, val |-> NewVal]
<1> USE DEF Procs
<1>1. NewVal \in Nat
  BY LogGrows DEF RdmaPut
<1>2. PICK enc \in BOOLEAN, posted \in BOOLEAN :
       /\ localBuf' = IF enc THEN Whole(e)
                             ELSE [localBuf EXCEPT ![1] = Garbage]
       /\ IF WriteWaits(enc, posted)
          THEN /\ seqNo' = [seqNo EXCEPT !["client"][k] = @ + 1]
               /\ Post("PUT", k, posted)
               /\ Enter("client", "PUT", k, NewVal)
          ELSE /\ Return("client", "PUT", k, NewVal, FALSE)
               /\ UNCHANGED <<seqNo, sendQ>>
  BY DEF RdmaPut, EncryptOutcomes, Outcomes
<1>3. CASE WriteWaits(enc, posted)
  <2>1. Enter("client", "PUT", k, NewVal)
    BY <1>2, <1>3
  <2>2. Entered("client", "server", [op |-> "PUT", key |-> k, val |-> NewVal])
    BY <1>1, <2>1, EnterEffect
  <2>3. sendQ' = Append(sendQ, [op |-> "PUT", key |-> k])
    BY <1>2, <1>3 DEF Post, WriteWaits
  <2> QED BY <1>2, <1>3, <2>2, <2>3 DEF WriteWaits
<1>4. CASE ~WriteWaits(enc, posted)
  <2>1. Return("client", "PUT", k, NewVal, FALSE)
    BY <1>2, <1>4
  <2>2. Returned("client", "server", NoCall)
    BY <1>1, <2>1, ReturnEffect
  <2> QED BY <1>2, <1>4, <2>2
<1> QED BY <1>3, <1>4

\* rdma_get waits, with or without a read posted.
LEMMA RdmaGetCases ==
  ASSUME StoreTypeOK, NEW k \in Keys, RdmaGet(k)
  PROVE  /\ Entered("client", "server", [op |-> "GET", key |-> k, val |-> 0])
         /\ sendQ' \in {sendQ, Append(sendQ, [op |-> "GET", key |-> k])}
<1>1. Enter("client", "GET", k, 0) /\ "client" \in Procs /\ "server" \in Procs
  BY DEF RdmaGet, Procs
<1>2. Entered("client", "server", [op |-> "GET", key |-> k, val |-> 0])
  BY <1>1, EnterEffect
<1> QED BY <1>2 DEF RdmaGet, Post

\* A get returns the value of block b's second part if it decrypts, or NULL.
LEMMA GetCases ==
  ASSUME StoreTypeOK, NEW p \in Procs, NEW q \in Procs, p # q,
         NEW k \in Keys, NEW b, b[2].val \in Nat, NEW read,
         GetReturns(p, k, b, read)
  PROVE  \/ Returned(p, q, NoCall)
         \/ /\ read /\ Decrypts(p, k, b)
            /\ Returned(p, q, [op |-> "GET", key |-> k, val |-> b[2].val])
<1>1. PICK dec : Return(p, "GET", k, b[2].val, read /\ dec /\ Decrypts(p, k, b))
  BY DEF GetReturns
<1>2. CASE read /\ dec /\ Decrypts(p, k, b)
  <2>1. Return(p, "GET", k, b[2].val, TRUE)
    BY <1>1, <1>2 DEF Return
  <2> QED BY <1>2, <2>1, ReturnEffect
<1>3. CASE ~(read /\ dec /\ Decrypts(p, k, b))
  <2>1. Return(p, "GET", k, b[2].val, FALSE)
    BY <1>1, <1>3 DEF Return
  <2> QED BY <2>1, ReturnEffect
<1> QED BY <1>2, <1>3

\* The client's call returns: a put, successful or with its number taken back;
\* a get, with NULL or with what was decrypted from local_buf.
LEMMA FetchCases ==
  ASSUME TypeInv, NEW fetched \in BOOLEAN, FetchCompletion(fetched)
  PROVE  LET c == call["client"]
         IN  /\ c.key \in Keys
             /\ fetched => cq # <<>> /\ cq' = Tail(cq)
             /\ ~fetched => cq' = cq
             /\ \/ /\ c.op = "PUT" /\ fetched
                   /\ Head(cq).op = "PUT" /\ Head(cq).ok
                   /\ Returned("client", "server", c)
                   /\ seqNo' = seqNo
                   /\ lastPut' = [lastPut EXCEPT !["client"][c.key] = c.val]
                \/ /\ c.op = "PUT"
                   /\ fetched => ~WriteSucceeded(Head(cq))
                   /\ Returned("client", "server", NoCall)
                   /\ seqNo' = [seqNo EXCEPT !["client"][c.key] = @ - 1]
                   /\ lastPut' = lastPut
                \/ /\ c.op = "GET"
                   /\ Returned("client", "server", NoCall)
                   /\ UNCHANGED <<seqNo, lastPut>>
                \/ /\ c.op = "GET"
                   /\ Decrypts("client", c.key, localBuf)
                   /\ Returned("client", "server",
                        [op |-> "GET", key |-> c.key, val |-> localBuf[2].val])
                   /\ UNCHANGED <<seqNo, lastPut>>
<1> DEFINE c == call["client"]
<1>0. /\ "client" \in Procs /\ "server" \in Procs /\ "client" # "server"
      /\ StoreTypeOK /\ CallInv
  BY DEF Procs, TypeInv
<1>1. c \in Calls /\ c.op # "NONE" /\ c.key \in Keys /\ c.val \in Nat
  BY <1>0 DEF StoreTypeOK, CallInv, FetchCompletion, Calls
<1>2. /\ fetched => cq # <<>> /\ cq' = Tail(cq)
      /\ ~fetched => cq' = cq
  BY DEF FetchCompletion
<1>3. CASE c.op = "PUT"
  <2>1. PutReturns(fetched /\ WriteSucceeded(Head(cq)))
    BY <1>3 DEF FetchCompletion
  <2>2. CASE fetched /\ WriteSucceeded(Head(cq))
    <3>1. PutReturns(TRUE)
      BY <2>1, <2>2 DEF PutReturns, Return
    <3>2. Returned("client", "server", [op |-> "PUT", key |-> c.key, val |-> c.val])
      BY <1>0, <1>1, <3>1, ReturnEffect DEF PutReturns
    <3>3. c = [op |-> "PUT", key |-> c.key, val |-> c.val]
      BY <1>1, <1>3 DEF Calls
    <3>4. seqNo' = seqNo
      BY <1>0, <1>1, <3>1 DEF PutReturns, StoreTypeOK
    <3> QED BY <1>1, <1>2, <1>3, <2>2, <3>1, <3>2, <3>3, <3>4
            DEF PutReturns, WriteSucceeded
  <2>3. CASE ~(fetched /\ WriteSucceeded(Head(cq)))
    <3>1. PutReturns(FALSE)
      BY <2>1, <2>3 DEF PutReturns, Return
    <3>2. Returned("client", "server", NoCall)
      BY <1>0, <1>1, <3>1, ReturnEffect DEF PutReturns
    <3>3. lastPut' = lastPut
      BY <1>0, <1>1, <3>1 DEF PutReturns, StoreTypeOK
    <3> QED BY <1>1, <1>2, <1>3, <2>3, <3>1, <3>2, <3>3 DEF PutReturns
  <2> QED BY <2>2, <2>3
<1>4. CASE c.op = "GET"
  <2>1. PICK event \in BOOLEAN :
          GetReturns("client", c.key, localBuf,
                     fetched /\ ReadSucceeded(Head(cq), event))
    BY <1>4 DEF FetchCompletion
  <2>2. localBuf[2].val \in Nat
    BY <1>0 DEF StoreTypeOK, Blocks, Parts, Entries
  <2>3. \/ Returned("client", "server", NoCall)
        \/ /\ Decrypts("client", c.key, localBuf)
           /\ Returned("client", "server",
                [op |-> "GET", key |-> c.key, val |-> localBuf[2].val])
    BY <1>0, <1>1, <2>1, <2>2, GetCases
  <2> QED BY <1>1, <1>2, <1>4, <2>3 DEF FetchCompletion
<1> QED BY <1>1, <1>3, <1>4 DEF Calls

\* server_put has written its first part, or has failed and spoilt it.
LEMMA ServerPutCases ==
  ASSUME StoreTypeOK, NEW k \in Keys, ServerPut(k)
  PROVE  \/ /\ mem' = [mem EXCEPT ![k][1] = ServerEntry(k, NewVal)]
            /\ Entered("server", "client",
                       [op |-> "PUT", key |-> k, val |-> NewVal])
         \/ /\ mem' = [mem EXCEPT ![k][1] = Garbage]
            /\ Returned("server", "client", NoCall)
<1>0. /\ "client" \in Procs /\ "server" \in Procs /\ "client" # "server"
      /\ NewVal \in Nat
  BY LogGrows DEF ServerPut, Procs
<1>1. \/ /\ mem' = [mem EXCEPT ![k][1] = ServerEntry(k, NewVal)]
         /\ Enter("server", "PUT", k, NewVal)
      \/ /\ mem' = [mem EXCEPT ![k][1] = Garbage]
         /\ Return("server", "PUT", k, NewVal, FALSE)
  BY DEF ServerPut
<1> QED BY <1>0, <1>1, EnterEffect, ReturnEffect

\* server_put has written its second part, or has failed.
LEMMA ServerWriteCases ==
  ASSUME TypeInv, ServerWriteSecond
  PROVE  LET c == call["server"]
         IN  /\ c.key \in Keys /\ c.val \in Nat
             /\ \/ /\ mem' = [mem EXCEPT ![c.key][2] = ServerEntry(c.key, c.val)]
                   /\ lastPut' = [lastPut EXCEPT !["server"][c.key] = c.val]
                   /\ Returned("server", "client",
                        [op |-> "PUT", key |-> c.key, val |-> c.val])
                \/ /\ UNCHANGED <<mem, lastPut>>
                   /\ Returned("server", "client", NoCall)
<1> DEFINE c == call["server"]
<1>0. /\ "client" \in Procs /\ "server" \in Procs /\ "client" # "server"
      /\ StoreTypeOK /\ CallInv
  BY DEF Procs, TypeInv
<1>1. c \in Calls /\ c.op = "PUT" /\ c.key \in Keys /\ c.val \in Nat
  BY <1>0 DEF StoreTypeOK, CallInv, ServerWriteSecond, Calls
<1>2. PICK enc \in BOOLEAN :
        /\ mem' = IF enc
                  THEN [mem EXCEPT ![c.key][2] = ServerEntry(c.key, c.val)]
                  ELSE mem
        /\ lastPut' = [lastPut EXCEPT !["server"][c.key] =
                         IF enc THEN c.val ELSE @]
        /\ Return("server", "PUT", c.key, c.val, enc)
  BY DEF ServerWriteSecond, EncryptOutcomes, Outcomes
<1>3. CASE enc
  <2>1. Returned("server", "client", [op |-> "PUT", key |-> c.key, val |-> c.val])
    BY <1>0, <1>1, <1>2, <1>3, ReturnEffect
  <2> QED BY <1>1, <1>2, <1>3, <2>1
<1>4. CASE ~enc
  <2>1. Returned("server", "client", NoCall)
    BY <1>0, <1>1, <1>2, <1>4, ReturnEffect
  <2>2. lastPut' = lastPut
    BY <1>0, <1>1, <1>2, <1>4 DEF StoreTypeOK
  <2> QED BY <1>1, <1>2, <1>4, <2>1, <2>2
<1> QED BY <1>3, <1>4

\* server_get returns NULL or what it has decrypted.
LEMMA ServerReadCases ==
  ASSUME TypeInv, ServerReadSecond
  PROVE  LET k == call["server"].key
             b == <<readBuf, mem[k][2]>>
         IN  /\ k \in Keys
             /\ \/ Returned("server", "client", NoCall)
                \/ /\ Decrypts("server", k, b)
                   /\ Returned("server", "client",
                        [op |-> "GET", key |-> k, val |-> b[2].val])
<1> DEFINE k == call["server"].key
           b == <<readBuf, mem[k][2]>>
<1>0. /\ "client" \in Procs /\ "server" \in Procs /\ "client" # "server"
      /\ StoreTypeOK /\ CallInv
  BY DEF Procs, TypeInv
<1>1. k \in Keys
  BY <1>0 DEF CallInv, ServerReadSecond
<1>2. b[2].val \in Nat
  <2>1. mem[k][2] \in Entries
    BY <1>0, <1>1 DEF StoreTypeOK, Blocks, Parts
  <2>2. b[2] = mem[k][2]
    OBVIOUS
  <2> QED BY <2>1, <2>2 DEF Entries
<1>3. GetReturns("server", k, b, TRUE)
  BY DEF ServerReadSecond
<1> HIDE DEF b
<1>4. \/ Returned("server", "client", NoCall)
      \/ /\ Decrypts("server", k, b)
         /\ Returned("server", "client",
              [op |-> "GET", key |-> k, val |-> b[2].val])
  BY <1>0, <1>1, <1>2, <1>3, GetCases
<1> QED BY <1>1, <1>4 DEF b

-------------------------------------------------------------------------------
\* The initial state has its type.
LEMMA TypeInit == ASSUME StoreAssumption, Init PROVE TypeInv
<1>1. Garbage \in Entries
  BY DEF Garbage, Entries
<1>2. Whole(Garbage) \in Blocks
  BY <1>1, WholeType
<1>3. NoCall \in Calls
  BY CallTypes
<1>4. StoreTypeOK
  BY <1>1, <1>2, <1>3 DEF Init, StoreInit, StoreTypeOK, StoreAssumption
<1> QED BY <1>4 DEF TypeInv, StoreTypeOK, CallInv, SeqInv, Init, StoreInit,
                    Procs, Idle, NoCall, Committed, Putting, StoreAssumption

\* rdma_put up to its wait keeps the types: Committed does not change.
LEMMA RdmaPutType ==
  ASSUME StoreAssumption, TypeInv, NEW k \in Keys, RdmaPut(k)
  PROVE  TypeInv'
<1> DEFINE e == [key |-> k, seq |-> seqNo["client"][k] + 1, val |-> NewVal]
           c == [op |-> "PUT", key |-> k, val |-> NewVal]
<1> USE DEF Procs
<1>0. StoreTypeOK /\ CallInv /\ SeqInv
  BY DEF TypeInv
<1>1. /\ log' \in Seq([by : Procs, key : Keys])
      /\ NewVal \in Nat /\ NewVal > 0
  BY <1>0, LogGrows DEF RdmaPut
<1>2. e \in Entries /\ Garbage \in Entries
  BY <1>0, <1>1 DEF StoreTypeOK, Entries, Garbage
<1>3. Whole(e) \in Blocks /\ [localBuf EXCEPT ![1] = Garbage] \in Blocks
  BY <1>0, <1>2, WholeType DEF StoreTypeOK, Blocks
<1>4. UNCHANGED <<encrypted, mem, moved, cq, readBuf, lastPut>> /\ Idle("client")
  BY DEF RdmaPut
<1>5. CASE /\ localBuf' = Whole(e)
           /\ seqNo' = [seqNo EXCEPT !["client"][k] = @ + 1]
           /\ sendQ' = Append(sendQ, [op |-> "PUT", key |-> k])
           /\ Entered("client", "server", c)
  <2>1. seqNo' \in [Procs -> [Keys -> Nat]]
    BY <1>0, <1>5 DEF StoreTypeOK
  <2>2. sendQ' \in Seq([op : {"GET", "PUT"}, key : Keys])
    BY <1>0, <1>5 DEF StoreTypeOK
  <2>3. StoreTypeOK'
    BY <1>0, <1>1, <1>3, <1>4, <1>5, <2>1, <2>2 DEF StoreTypeOK, Entered
  <2>4. CallInv'
    BY <1>0, <1>1, <1>5 DEF StoreTypeOK, CallInv, Entered, Idle
  <2>5. SeqInv'
    <3>1. \A j \in Keys : Committed(j)' = Committed(j)
      <4>1. TAKE j \in Keys
      <4>2. /\ seqNo["client"][j] \in Nat
            /\ seqNo'["client"][j] = IF j = k THEN seqNo["client"][j] + 1
                                     ELSE seqNo["client"][j]
        BY <1>0, <1>5 DEF StoreTypeOK
      <4>3. Putting(j)' <=> j = k
        BY <1>5 DEF Putting, Entered
      <4>4. ~Putting(j)
        BY <1>4 DEF Putting, Idle, NoCall
      <4> QED BY <4>2, <4>3, <4>4 DEF Committed
    <3> QED BY <1>0, <3>1 DEF SeqInv
  <2> QED BY <2>3, <2>4, <2>5 DEF TypeInv
<1>6. CASE /\ localBuf' \in {Whole(e), [localBuf EXCEPT ![1] = Garbage]}
           /\ UNCHANGED <<seqNo, sendQ>>
           /\ Returned("client", "server", NoCall)
  <2>1. StoreTypeOK'
    BY <1>0, <1>1, <1>3, <1>4, <1>6 DEF StoreTypeOK, Returned
  <2>2. CallInv'
    BY <1>0, <1>6 DEF CallInv, Idle, Returned, NoCall
  <2>3. SeqInv'
    BY <1>0, <1>4, <1>6
    DEF SeqInv, Committed, Putting, Returned, NoCall, Idle
  <2> QED BY <2>1, <2>2, <2>3 DEF TypeInv
<1> QED BY <1>0, <1>5, <1>6, RdmaPutCases

\* rdma_get up to its wait keeps the types.
LEMMA RdmaGetType ==
  ASSUME TypeInv, NEW k \in Keys, RdmaGet(k)
  PROVE  TypeInv'
<1> USE DEF Procs
<1>0. StoreTypeOK /\ CallInv /\ SeqInv
  BY DEF TypeInv
<1>1. /\ Entered("client", "server", [op |-> "GET", key |-> k, val |-> 0])
      /\ sendQ' \in {sendQ, Append(sendQ, [op |-> "GET", key |-> k])}
  BY <1>0, RdmaGetCases
<1>2. sendQ' \in Seq([op : {"GET", "PUT"}, key : Keys])
  <2> DEFINE S == [op : {"GET", "PUT"}, key : Keys]
             x == [op |-> "GET", key |-> k]
  <2>1. x \in S /\ sendQ \in Seq(S) /\ sendQ' \in {sendQ, Append(sendQ, x)}
    BY <1>0, <1>1 DEF StoreTypeOK
  <2> HIDE DEF S, x
  <2>2. sendQ' \in Seq(S)
    BY <2>1, SeqFacts
  <2> QED BY <2>2 DEF S
<1>3. /\ UNCHANGED <<encrypted, mem, localBuf, seqNo, moved, cq, readBuf, log,
                     lastPut>>
      /\ Idle("client")
  BY DEF RdmaGet
<1>4. StoreTypeOK'
  BY <1>0, <1>1, <1>2, <1>3 DEF StoreTypeOK, Entered
<1>5. CallInv'
  BY <1>0, <1>1 DEF CallInv, Entered, Idle
<1>6. SeqInv'
  BY <1>0, <1>1, <1>3 DEF SeqInv, Committed, Putting, Entered, Idle, NoCall
<1> QED BY <1>4, <1>5, <1>6 DEF TypeInv

\* The end of the client's call keeps the types: the number that a failed put
\* takes back is greater than Seq0.
LEMMA FetchType ==
  ASSUME StoreAssumption, TypeInv, NEW fetched \in BOOLEAN,
         FetchCompletion(fetched)
  PROVE  TypeInv'
<1> DEFINE c == call["client"]
<1> USE DEF Procs
<1>0. StoreTypeOK /\ CallInv /\ SeqInv
  BY DEF TypeInv
<1>1. UNCHANGED <<encrypted, mem, localBuf, sendQ, moved, readBuf, log>>
  BY DEF FetchCompletion
<1>2. cq' \in Seq([op : {"GET", "PUT"}, ok : BOOLEAN])
  <2> DEFINE S == [op : {"GET", "PUT"}, ok : BOOLEAN]
  <2>1. cq \in Seq(S) /\ (cq' = cq \/ (cq # <<>> /\ cq' = Tail(cq)))
    BY <1>0, FetchCases DEF StoreTypeOK
  <2> HIDE DEF S
  <2>2. cq' \in Seq(S)
    BY <2>1, SeqFacts
  <2> QED BY <2>2 DEF S
<1>3. PICK r : Returned("client", "server", r)
  BY FetchCases
<1>4. c \in Calls /\ c.key \in Keys /\ c.val \in Nat
  BY <1>0, FetchCases DEF StoreTypeOK, Calls
<1>5. /\ seqNo' \in [Procs -> [Keys -> Nat]]
      /\ lastPut' \in [Procs -> [Keys -> Nat]]
      /\ SeqInv'
  <2>1. CASE c.op = "PUT" /\ seqNo' = seqNo
             /\ lastPut' = [lastPut EXCEPT !["client"][c.key] = c.val]
    <3>1. lastPut' \in [Procs -> [Keys -> Nat]]
      BY <1>0, <1>4, <2>1 DEF StoreTypeOK
    <3>2. SeqInv'
      BY <1>0, <1>3, <1>4, <2>1
      DEF StoreTypeOK, SeqInv, Committed, Putting, Returned, NoCall,
          StoreAssumption
    <3> QED BY <1>0, <2>1, <3>1, <3>2 DEF StoreTypeOK
  <2>2. CASE c.op = "PUT" /\ lastPut' = lastPut
             /\ seqNo' = [seqNo EXCEPT !["client"][c.key] = @ - 1]
    <3>1. seqNo["client"][c.key] - 1 \in Nat
      BY <1>0, <1>4, <2>2
      DEF StoreTypeOK, SeqInv, Committed, Putting, StoreAssumption
    <3>2. seqNo' \in [Procs -> [Keys -> Nat]]
      BY <1>0, <1>4, <2>2, <3>1 DEF StoreTypeOK
    <3>3. SeqInv'
      BY <1>0, <1>3, <1>4, <2>2
      DEF StoreTypeOK, SeqInv, Committed, Putting, Returned, NoCall,
          StoreAssumption
    <3> QED BY <1>0, <2>2, <3>2, <3>3 DEF StoreTypeOK
  <2>3. CASE c.op = "GET" /\ UNCHANGED <<seqNo, lastPut>>
    BY <1>0, <1>3, <2>3
    DEF StoreTypeOK, SeqInv, Committed, Putting, Returned, NoCall
  <2> QED BY <2>1, <2>2, <2>3, FetchCases
<1>6. StoreTypeOK'
  BY <1>0, <1>1, <1>2, <1>3, <1>5 DEF StoreTypeOK, Returned
<1>7. CallInv'
  BY <1>0, <1>3 DEF CallInv, Returned, Idle, NoCall
<1> QED BY <1>5, <1>6, <1>7 DEF TypeInv

\* The connection keeps the types.
LEMMA NicType ==
  ASSUME TypeInv, Transfer \/ Complete
  PROVE  TypeInv'
<1>0. StoreTypeOK /\ CallInv /\ SeqInv
  BY DEF TypeInv
<1>1. UNCHANGED <<encrypted, seqNo, call, readBuf, log, lastPut, result>>
  BY DEF Transfer, Complete
<1>2. CallInv' /\ SeqInv'
  BY <1>0, <1>1 DEF CallInv, SeqInv, Committed, Putting, Idle
<1>3. sendQ # <<>>
  BY DEF Transfer, Complete
<1>4. Head(sendQ) \in [op : {"GET", "PUT"}, key : Keys]
  BY <1>0, <1>3, SeqFacts DEF StoreTypeOK
<1>5. CASE Transfer
  <2>1. PICK i \in Parts \ moved :
          LET o == Head(sendQ)
          IN  /\ moved' = moved \cup {i}
              /\ mem' = IF o.op = "PUT"
                        THEN [mem EXCEPT ![o.key][i] = localBuf[i]] ELSE mem
              /\ localBuf' = IF o.op = "GET"
                             THEN [localBuf EXCEPT ![i] = mem[o.key][i]]
                             ELSE localBuf
    BY <1>5 DEF Transfer
  <2>2. mem' \in [Keys -> Blocks] /\ localBuf' \in Blocks /\ moved' \subseteq Parts
    BY <1>0, <1>4, <2>1 DEF StoreTypeOK, Blocks
  <2>3. StoreTypeOK'
    BY <1>0, <1>1, <1>5, <2>2 DEF StoreTypeOK, Transfer
  <2> QED BY <1>2, <2>3 DEF TypeInv
<1>6. CASE Complete
  <2>1. [op |-> Head(sendQ).op, ok |-> link = "up"]
          \in [op : {"GET", "PUT"}, ok : BOOLEAN]
    BY <1>4
  <2>2. /\ cq' \in Seq([op : {"GET", "PUT"}, ok : BOOLEAN])
        /\ sendQ' \in Seq([op : {"GET", "PUT"}, key : Keys])
    <3> DEFINE x == [op |-> Head(sendQ).op, ok |-> link = "up"]
    <3>1. cq' = Append(cq, x) /\ sendQ' = Tail(sendQ)
      BY <1>6 DEF Complete
    <3> HIDE DEF x
    <3>2. x \in [op : {"GET", "PUT"}, ok : BOOLEAN]
      BY <2>1 DEF x
    <3> QED BY <1>0, <1>3, <3>1, <3>2 DEF StoreTypeOK
  <2>3. StoreTypeOK'
    BY <1>0, <1>1, <1>6, <2>2 DEF StoreTypeOK, Complete
  <2> QED BY <1>2, <2>3 DEF TypeInv
<1> QED BY <1>5, <1>6

\* The server's calls keep the types.
LEMMA ServerType ==
  ASSUME TypeInv,
         \/ \E k \in Keys : ServerPut(k) \/ ServerGet(k)
         \/ ServerWriteSecond \/ ServerReadSecond
  PROVE  TypeInv'
<1> USE DEF Procs
<1>0. StoreTypeOK /\ CallInv /\ SeqInv
  BY DEF TypeInv
<1>1. Garbage \in Entries
  BY DEF Garbage, Entries
<1>2. ASSUME NEW k \in Keys, NEW v \in Nat
      PROVE  ServerEntry(k, v) \in Entries
  BY <1>0, <1>2 DEF StoreTypeOK, ServerEntry, Entries
<1>3. ASSUME NEW c \in Calls, c.op # "NONE" => c.key \in Keys,
             c.op = "NONE" => c = NoCall,
             call' \in [Procs -> Calls], call'["server"] = c,
             call'["client"] = call["client"], seqNo' = seqNo
      PROVE  CallInv' /\ SeqInv'
  BY <1>0, <1>3 DEF CallInv, SeqInv, Committed, Putting, Idle
<1>4. ASSUME NEW k \in Keys, ServerPut(k) PROVE TypeInv'
  <2>1. /\ UNCHANGED <<encrypted, localBuf, seqNo, sendQ, moved, cq, readBuf,
                       lastPut>>
        /\ log' \in Seq([by : Procs, key : Keys])
        /\ NewVal \in Nat
    BY <1>0, <1>4, LogGrows DEF ServerPut
  <2>2. mem' \in [Keys -> Blocks]
    <3>1. PICK x \in Entries : mem' = [mem EXCEPT ![k][1] = x]
      BY <1>0, <1>1, <1>2, <1>4, <2>1, ServerPutCases
    <3> QED BY <1>0, <3>1 DEF StoreTypeOK, Blocks, Parts
  <2>3. PICK c \in {NoCall, [op |-> "PUT", key |-> k, val |-> NewVal]} :
          \/ Entered("server", "client", c)
          \/ Returned("server", "client", NoCall) /\ c = NoCall
    BY <1>0, <1>4, ServerPutCases
  <2>4. StoreTypeOK'
    BY <1>0, <2>1, <2>2, <2>3 DEF StoreTypeOK, Entered, Returned
  <2>5. CallInv' /\ SeqInv'
    <3>1. c \in Calls /\ (c.op = "NONE" => c = NoCall)
            /\ (c.op # "NONE" => c.key \in Keys)
      BY <2>1, <2>3, CallTypes DEF NoCall
    <3> QED BY <1>3, <2>1, <2>3, <3>1 DEF Entered, Returned
  <2> QED BY <2>4, <2>5 DEF TypeInv
<1>5. ASSUME NEW k \in Keys, ServerGet(k) PROVE TypeInv'
  <2>1. /\ UNCHANGED <<encrypted, mem, localBuf, seqNo, sendQ, moved, cq, log,
                       lastPut>>
        /\ readBuf' \in Entries
    BY <1>0, <1>5 DEF ServerGet, StoreTypeOK, Blocks, Parts
  <2>2. Entered("server", "client", [op |-> "GET", key |-> k, val |-> 0])
    BY <1>0, <1>5, EnterEffect DEF ServerGet
  <2>3. StoreTypeOK'
    BY <1>0, <2>1, <2>2 DEF StoreTypeOK, Entered
  <2>4. CallInv' /\ SeqInv'
    BY <1>3, <2>1, <2>2, CallTypes DEF Entered
  <2> QED BY <2>3, <2>4 DEF TypeInv
<1>6. CASE ServerWriteSecond
  <2> DEFINE c == call["server"]
  <2>1. UNCHANGED <<encrypted, localBuf, seqNo, sendQ, moved, cq, readBuf, log>>
    BY <1>6 DEF ServerWriteSecond
  <2>2. c.key \in Keys /\ c.val \in Nat
    BY <1>6, ServerWriteCases
  <2>3. mem' \in [Keys -> Blocks] /\ lastPut' \in [Procs -> [Keys -> Nat]]
    <3>1. CASE UNCHANGED <<mem, lastPut>>
      BY <1>0, <3>1 DEF StoreTypeOK
    <3>2. CASE /\ mem' = [mem EXCEPT ![c.key][2] = ServerEntry(c.key, c.val)]
               /\ lastPut' = [lastPut EXCEPT !["server"][c.key] = c.val]
      <4>1. ServerEntry(c.key, c.val) \in Entries
        BY <1>2, <2>2
      <4>2. mem' \in [Keys -> Blocks]
        BY <1>0, <2>2, <3>2, <4>1 DEF StoreTypeOK, Blocks, Parts
      <4>3. lastPut' \in [Procs -> [Keys -> Nat]]
        BY <1>0, <2>2, <3>2 DEF StoreTypeOK
      <4> QED BY <4>2, <4>3
    <3> QED BY <1>6, <3>1, <3>2, ServerWriteCases
  <2>4. PICK r : Returned("server", "client", r)
    BY <1>6, ServerWriteCases
  <2>5. StoreTypeOK'
    BY <1>0, <2>1, <2>3, <2>4 DEF StoreTypeOK, Returned
  <2>6. CallInv' /\ SeqInv'
    BY <1>3, <2>1, <2>4, CallTypes DEF Returned, NoCall
  <2> QED BY <2>5, <2>6 DEF TypeInv
<1>7. CASE ServerReadSecond
  <2>1. /\ UNCHANGED <<encrypted, mem, localBuf, seqNo, sendQ, moved, cq, log,
                       lastPut>>
        /\ readBuf' \in Entries
    BY <1>1, <1>7 DEF ServerReadSecond
  <2>2. PICK r : Returned("server", "client", r)
    BY <1>7, ServerReadCases
  <2>3. StoreTypeOK'
    BY <1>0, <2>1, <2>2 DEF StoreTypeOK, Returned
  <2>4. CallInv' /\ SeqInv'
    BY <1>3, <2>1, <2>2, CallTypes DEF Returned, NoCall
  <2> QED BY <2>3, <2>4 DEF TypeInv
<1> QED BY <1>4, <1>5, <1>6, <1>7

\* Filling or spoiling the region and releasing buffer and queues keep the types.
LEMMA RegionType ==
  ASSUME TypeInv, FillRegion \/ SpoilRegion \/ LoseLocalBuf \/ DropQueues
  PROVE  TypeInv'
<1>0. StoreTypeOK /\ CallInv /\ SeqInv
  BY DEF TypeInv
<1>1. UNCHANGED <<encrypted, seqNo, call, readBuf, log, lastPut, result>>
  BY DEF FillRegion, SpoilRegion, LoseLocalBuf, DropQueues
<1>2. CallInv' /\ SeqInv'
  BY <1>0, <1>1 DEF CallInv, SeqInv, Committed, Putting, Idle
<1>3. Garbage \in Entries /\ \A k \in Keys : ServerEntry(k, 0) \in Entries
  BY <1>0 DEF Garbage, Entries, ServerEntry, StoreTypeOK, Procs
<1>4. Whole(Garbage) \in Blocks /\ \A k \in Keys : Whole(ServerEntry(k, 0)) \in Blocks
  BY <1>3, WholeType
<1>5. CASE FillRegion
  BY <1>0, <1>2, <1>4, <1>5 DEF TypeInv, StoreTypeOK, FillRegion
<1>6. CASE LoseLocalBuf
  BY <1>0, <1>2, <1>4, <1>6 DEF TypeInv, StoreTypeOK, LoseLocalBuf
<1>7. CASE DropQueues
  BY <1>0, <1>2, <1>7 DEF TypeInv, StoreTypeOK, DropQueues
<1>8. CASE SpoilRegion
  BY <1>0, <1>2, <1>4, <1>8 DEF TypeInv, StoreTypeOK, SpoilRegion
<1> QED BY <1>5, <1>6, <1>7, <1>8

\* Every step keeps the types.
LEMMA TypeStep ==
  ASSUME StoreAssumption, TypeInv, [Next]_vars
  PROVE  TypeInv'
<1>1. CASE UNCHANGED storeVars
  BY <1>1 DEF TypeInv, StoreTypeOK, CallInv, SeqInv, Committed, Putting, Idle,
              storeVars
<1>2. CASE Put
  BY <1>2, RdmaPutType DEF Put, ClientCall
<1>3. CASE Get
  BY <1>3, RdmaGetType DEF Get, ClientCall
<1>4. ASSUME NEW fetched \in Outcomes(WaitMayFail), Completion(fetched)
      PROVE  TypeInv'
  BY <1>4, FetchType DEF Completion, StoreStep, Outcomes
<1>5. CASE NicTransfer \/ NicComplete
  BY <1>5, NicType DEF NicTransfer, NicComplete, StoreStep
<1>6. CASE SPut \/ SGet \/ SPutSecond \/ SGetSecond
  BY <1>6, ServerType DEF SPut, SGet, SPutSecond, SGetSecond, ServerCall, StoreStep
<1>7. CASE Setup \/ ClientHangUp \/ ClientFree \/ RegionReused
  BY <1>7, RegionType DEF Setup, ClientHangUp, ClientFree, RegionReused, StoreStep
<1> QED
  BY <1>1, <1>2, <1>3, <1>4, <1>5, <1>6, <1>7
  DEF Next, vars, EndpointStep, Network

\* The state of the store and of both ends keeps its type.
THEOREM TypeCorrect == Spec => []TypeOK
<1>1. TypeInv /\ EndInv => TypeOK
  BY DEF TypeInv, StoreTypeOK, EndInv, EndTypeOK, TypeOK
<1>2. Init => TypeInv
  BY TypeInit, StoreAssumption
<1>3. TypeInv /\ [Next]_vars => TypeInv'
  BY TypeStep, StoreAssumption
<1> QED BY <1>1, <1>2, <1>3, EndInit, EndStep, PTL DEF Spec
===============================================================================
