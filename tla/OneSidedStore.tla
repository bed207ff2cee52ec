----------------------------- MODULE OneSidedStore ----------------------------
(***************************************************************************)
(* The one-sided KV-store: blocks of the server's memory that the client   *)
(* reads and writes by RDMA and the server's own thread in place, without  *)
(* any coordination.  Both keep a sequence number for every key.           *)
(*                                                                         *)
(* A block is accessed in two parts: the first holds IV and sequence       *)
(* number, the second the value and its MAC (without encryption both are   *)
(* halves of the value).  A part is described by what was written there:   *)
(* the key, the sequence number and the value of one put.  Values are the  *)
(* numbers of the puts, 0 is the value setup_kv_store writes.              *)
(*                                                                         *)
(* librpma is external: a connection executes its operations one after the *)
(* other and queues one completion for each.                               *)
(***************************************************************************)
EXTENDS OneSidedCommon

CONSTANTS
  Keys,           \* each key has its own value_offset
  NoKey,          \* of a part that was not written by a put
  Seq0,           \* the sequence number both sides start with
  MaxPuts,        \* bound: the number of puts
  Modes,          \* is the store encrypted?
  CryptoMayFail,  \* may en- and decryption fail?
  WaitMayFail     \* may rpma_conn_completion_wait or _get fail?

ASSUME StoreAssumption ==
  /\ NoKey \notin Keys
  /\ Seq0 \in Nat
  /\ MaxPuts \in Nat
  /\ Modes \subseteq BOOLEAN
  /\ CryptoMayFail \in BOOLEAN
  /\ WaitMayFail \in BOOLEAN

VARIABLES
  encrypted,  \* is ep_data.enc_key set?  The same on both sides
  mem,        \* the shared memory region, one block for each key
  localBuf,   \* the client's local_buf
  seqNo,      \* sequence_number in each side's local_key_info of each key
  sendQ,      \* RDMA operations that have not completed
  moved,      \* the parts that Head(sendQ) has transferred
  cq,         \* completions nobody has fetched
  call,       \* the call each side's thread is in the middle of
  readBuf,    \* the first part of the block server_get is reading
  log,        \* history: who made the puts, and of which key
  lastPut,    \* history: the value of each side's last successful put
  result      \* history: each side's last call, if it was successful

storeVars == <<encrypted, mem, localBuf, seqNo, sendQ, moved, cq, call,
               readBuf, log, lastPut, result>>

Parts   == {1, 2}
Entries == [key : Keys \cup {NoKey}, seq : Nat, val : Nat]
Blocks  == [Parts -> Entries]
Garbage == [key |-> NoKey, seq |-> 0, val |-> 0]

Whole(e) == [i \in Parts |-> e]

Calls    == [op : {"NONE", "GET", "PUT"}, key : Keys \cup {NoKey}, val : Nat]
NoCall   == [op |-> "NONE", key |-> NoKey, val |-> 0]

Idle(p) == call[p] = NoCall

\* p's thread starts a call and gets to the one point in it where others act:
\* the client's waits for a completion, the server's is between the two parts.
Enter(p, op, k, v) ==
  /\ call' = [call EXCEPT ![p] = [op |-> op, key |-> k, val |-> v]]
  /\ result' = [result EXCEPT ![p] = NoCall]

\* p's call returns, and if it was successful with v, the value of key k.
Return(p, op, k, v, ok) ==
  /\ call' = [call EXCEPT ![p] = NoCall]
  /\ result' = [result EXCEPT ![p] =
                  IF ok THEN [op |-> op, key |-> k, val |-> v] ELSE NoCall]

\* The number of a new put.
NewVal == Len(log) + 1

LogPut(p, k) ==
  /\ Len(log) < MaxPuts
  /\ log' = Append(log, [by |-> p, key |-> k])

-------------------------------------------------------------------------------
\* encrypt_key_value_data: without a key the value is copied.
EncryptOutcomes == Outcomes(CryptoMayFail /\ encrypted)

\* Seeded fault: the sequence number is not compared.
DecryptsAnySeq(p, k, b) ==
  encrypted => b[1] = b[2] /\ b[1].key = k
\* decrypt_key_value_data with p's info of key k: the MAC binds both parts, the
\* key and the offset together.  Without encryption nothing is checked.
Decrypts(p, k, b) ==
  encrypted => /\ b[1] = b[2]
               /\ b[1].key = k
               /\ b[1].seq = seqNo[p][k]

\* onesided_get after its read_function, which has returned block b if read:
\* NULL (not ok), or the value.
GetReturns(p, k, b, read) ==
  \E dec \in Outcomes(CryptoMayFail) :
    Return(p, "GET", k, b[2].val, read /\ dec /\ Decrypts(p, k, b))

-------------------------------------------------------------------------------
(***************************************************************************)
(* The client                                                              *)
(***************************************************************************)
\* rpma_read or rpma_write of key k's block.
Post(op, k, posted) ==
  sendQ' = IF posted THEN Append(sendQ, [op |-> op, key |-> k]) ELSE sendQ

\* Seeded fault: the result of rpma_write is not looked at.
WriteWaitsAlways(enc, posted) == enc
\* rdma_write_to_server is called, and gets to its wait for a completion.
WriteWaits(enc, posted) == enc /\ posted

\* rdma_put: the sequence number is incremented, the new entry is encrypted
\* into local_buf and the write is posted.  If encryption or rpma_write fails
\* the number is taken back; a failed encryption leaves the buffer spoilt.
RdmaPut(k) ==
  /\ Idle("client")
  /\ LogPut("client", k)
  /\ \E enc \in EncryptOutcomes, posted \in BOOLEAN :
       /\ localBuf' =
            IF enc
            THEN Whole([key |-> k, seq |-> seqNo["client"][k] + 1,
                        val |-> NewVal])
            ELSE [localBuf EXCEPT ![1] = Garbage]
       /\ IF WriteWaits(enc, posted)
          THEN /\ seqNo' = [seqNo EXCEPT !["client"][k] = @ + 1]
               /\ Post("PUT", k, posted)
               /\ Enter("client", "PUT", k, NewVal)
          ELSE /\ Return("client", "PUT", k, NewVal, FALSE)
               /\ UNCHANGED <<seqNo, sendQ>>
  /\ UNCHANGED <<encrypted, mem, moved, cq, readBuf, lastPut>>

\* Seeded fault: the sequence number is taken back twice.
PutReturnsTwiceBack(ok) ==
  LET c == call["client"]
  IN  /\ Return("client", "PUT", c.key, c.val, ok)
      /\ seqNo' = [seqNo EXCEPT !["client"][c.key] = IF ok THEN @ ELSE @ - 2]
      /\ lastPut' = [lastPut EXCEPT !["client"][c.key] =
                       IF ok THEN c.val ELSE @]
\* rdma_put returns: 0, or -1 with the sequence number taken back.
PutReturns(ok) ==
  LET c == call["client"]
  IN  /\ Return("client", "PUT", c.key, c.val, ok)
      /\ seqNo' = [seqNo EXCEPT !["client"][c.key] = IF ok THEN @ ELSE @ - 1]
      /\ lastPut' = [lastPut EXCEPT !["client"][c.key] =
                       IF ok THEN c.val ELSE @]

\* rdma_get up to the wait for its completion, which follows also if rpma_read
\* has failed.
RdmaGet(k) ==
  /\ Idle("client")
  /\ Enter("client", "GET", k, 0)
  /\ \E posted \in BOOLEAN : Post("GET", k, posted)
  /\ UNCHANGED <<encrypted, mem, localBuf, seqNo, moved, cq, readBuf, log,
                 lastPut>>

\* Seeded fault: op_status is not looked at.
WriteSucceededAnyStatus(completion) == completion.op = "PUT"
\* rdma_write_to_server: the completion is one of a write, and a success.
WriteSucceeded(completion) == completion.op = "PUT" /\ completion.ok

\* rdma_read_from_server returns local_buf: also after a failed read, if the
\* next event on the connection can be had (event) and is not closed or lost.
ReadSucceeded(completion, event) ==
  completion.op = "GET" /\ (completion.ok \/ event)

\* The end of rdma_write_to_server and of rdma_read_from_server, and with it of
\* the client's call.  rpma_conn_completion_wait or _get may fail; otherwise
\* (fetched) the thread gets the oldest completion, whatever operation it is of.
FetchCompletion(fetched) ==
  /\ ~Idle("client")
  /\ IF fetched THEN cq # <<>> /\ cq' = Tail(cq) ELSE UNCHANGED cq
  /\ LET c == call["client"]
     IN  \/ /\ c.op = "PUT"
            /\ PutReturns(fetched /\ WriteSucceeded(Head(cq)))
         \/ /\ c.op = "GET"
            /\ \E event \in BOOLEAN :
                 GetReturns("client", c.key, localBuf,
                            fetched /\ ReadSucceeded(Head(cq), event))
            /\ UNCHANGED <<seqNo, lastPut>>
  /\ UNCHANGED <<encrypted, mem, localBuf, sendQ, moved, readBuf, log>>

-------------------------------------------------------------------------------
(***************************************************************************)
(* The RDMA connection (librpma and the network cards)                     *)
(***************************************************************************)
\* The first operation transfers a part of the block.
Transfer ==
  /\ link = "up"
  /\ sendQ # <<>>
  /\ \E i \in Parts \ moved :
       LET o == Head(sendQ)
       IN  /\ moved' = moved \cup {i}
           /\ mem' = IF o.op = "PUT"
                     THEN [mem EXCEPT ![o.key][i] = localBuf[i]] ELSE mem
           /\ localBuf' = IF o.op = "GET"
                          THEN [localBuf EXCEPT ![i] = mem[o.key][i]]
                          ELSE localBuf
  /\ UNCHANGED <<encrypted, seqNo, sendQ, cq, call, readBuf, log, lastPut,
                 result>>

\* The first operation ends: when all parts are transferred, or, with an error,
\* when the connection is gone, whatever it has transferred by then.
Complete ==
  /\ sendQ # <<>>
  /\ link = "up" => moved = Parts
  /\ cq' = Append(cq, [op |-> Head(sendQ).op, ok |-> link = "up"])
  /\ sendQ' = Tail(sendQ)
  /\ moved' = {}
  /\ UNCHANGED <<encrypted, mem, localBuf, seqNo, call, readBuf, log, lastPut,
                 result>>

-------------------------------------------------------------------------------
(***************************************************************************)
(* The server's thread.  server_put encrypts into the shared region, under *)
(* the sequence number as it is; server_get decrypts from there.           *)
(***************************************************************************)
ServerEntry(k, v) == [key |-> k, seq |-> seqNo["server"][k], val |-> v]

\* server_put up to the end of the first part, IV and sequence number.  A
\* failure leaves that part spoilt.
ServerPut(k) ==
  /\ Idle("server")
  /\ LogPut("server", k)
  /\ \E enc \in EncryptOutcomes :
       /\ mem' = [mem EXCEPT ![k][1] = IF enc THEN ServerEntry(k, NewVal)
                                              ELSE Garbage]
       /\ IF enc THEN Enter("server", "PUT", k, NewVal)
                 ELSE Return("server", "PUT", k, NewVal, FALSE)
  /\ UNCHANGED <<encrypted, localBuf, seqNo, sendQ, moved, cq, readBuf,
                 lastPut>>

\* The second part, value and MAC; server_write has nothing left to do.
ServerWriteSecond ==
  /\ call["server"].op = "PUT"
  /\ \E enc \in EncryptOutcomes :
       LET c == call["server"]
       IN  /\ mem' = IF enc
                     THEN [mem EXCEPT ![c.key][2] = ServerEntry(c.key, c.val)]
                     ELSE mem
           /\ lastPut' = [lastPut EXCEPT !["server"][c.key] =
                            IF enc THEN c.val ELSE @]
           /\ Return("server", "PUT", c.key, c.val, enc)
  /\ UNCHANGED <<encrypted, localBuf, seqNo, sendQ, moved, cq, readBuf, log>>

\* server_get, which decrypts in place: IV and sequence number, then the rest.
ServerGet(k) ==
  /\ Idle("server")
  /\ Enter("server", "GET", k, 0)
  /\ readBuf' = mem[k][1]
  /\ UNCHANGED <<encrypted, mem, localBuf, seqNo, sendQ, moved, cq, log,
                 lastPut>>

ServerReadSecond ==
  /\ call["server"].op = "GET"
  /\ LET k == call["server"].key
     IN  GetReturns("server", k, <<readBuf, mem[k][2]>>, TRUE)
  /\ readBuf' = Garbage
  /\ UNCHANGED <<encrypted, mem, localBuf, seqNo, sendQ, moved, cq, log,
                 lastPut>>

-------------------------------------------------------------------------------
\* setup_kv_store encrypts every initial value to its place in the region.
FillRegion ==
  /\ mem' = [k \in Keys |-> Whole(ServerEntry(k, 0))]
  /\ UNCHANGED <<encrypted, localBuf, seqNo, sendQ, moved, cq, call, readBuf,
                 log, lastPut, result>>

\* The server's memory manager has given the place of a block to others.  (How
\* much of the block they spoil makes no difference to its decryption.)
SpoilRegion ==
  /\ \E k \in Keys : mem' = [mem EXCEPT ![k] = Whole(Garbage)]
  /\ UNCHANGED <<encrypted, localBuf, seqNo, sendQ, moved, cq, call, readBuf,
                 log, lastPut, result>>

\* The content of local_buf is lost when it is freed; a new buffer holds
\* anything.
LoseLocalBuf ==
  /\ localBuf' = Whole(Garbage)
  /\ UNCHANGED <<encrypted, mem, seqNo, sendQ, moved, cq, call, readBuf, log,
                 lastPut, result>>

\* Deleting the client's connection discards its queues.
DropQueues ==
  /\ sendQ' = <<>>
  /\ cq' = <<>>
  /\ moved' = {}
  /\ UNCHANGED <<encrypted, mem, localBuf, seqNo, call, readBuf, log, lastPut,
                 result>>

StoreInit ==
  /\ encrypted \in Modes
  /\ mem = [k \in Keys |-> Whole(Garbage)]
  /\ localBuf = Whole(Garbage)
  /\ readBuf = Garbage
  /\ seqNo = [p \in Procs |-> [k \in Keys |-> Seq0]]
  /\ sendQ = <<>>
  /\ cq = <<>>
  /\ moved = {}
  /\ call = [p \in Procs |-> NoCall]
  /\ log = <<>>
  /\ lastPut = [p \in Procs |-> [k \in Keys |-> 0]]
  /\ result = [p \in Procs |-> NoCall]
===============================================================================
