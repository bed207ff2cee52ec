------------------------- MODULE OneSidedValueProofs --------------------------
(***************************************************************************)
(* Proofs about the values of the one-sided store.  As long as no call     *)
(* that waits for or fetches a completion fails, encrypted gets never mix  *)
(* up puts, and a put that returned 0 has arrived.                         *)
(***************************************************************************)
EXTENDS OneSidedStoreProofs

\* The keys whose blocks not only the client writes: those the server has put,
\* and all when the server has freed the region.
ServerKeys ==
  {k \in Keys :
     \/ kvMem = "freed"
     \/ \E i \in DOMAIN log : log[i] = [by |-> "server", key |-> k]}

\* The values the server has written under each key.
ServerVals ==
  {x \in [key : Keys, val : Nat] :
     \/ x.val = 0
     \/ /\ x.val \in 1 .. Len(log)
        /\ log[x.val] = [by |-> "server", key |-> x.key]}

\* What a part of a block may hold, wherever it was copied to: under the first
\* number it is one of the server's values; under the number of the client's
\* last successful put it is that put's value.  Under the number of a put that
\* failed, or is not finished, it may be anything.
Good ==
  {e \in Entries :
     e.key # NoKey =>
       \/ e.seq = Seq0 /\ [key |-> e.key, val |-> e.val] \in ServerVals
       \/ /\ e.seq > Seq0
          /\ e.seq = Committed(e.key) => e.val = lastPut["client"][e.key]}

\* What the client's unfinished put is writing, and what can be found where it
\* has written: that, or what the server has written over it.
NewEntry == [key |-> call["client"].key,
             seq |-> seqNo["client"][call["client"].key],
             val |-> call["client"].val]

Landed ==
  {e \in Entries :
     \/ e = NewEntry
     \/ call["client"].key \in ServerKeys /\ (e.key = NoKey \/ e.seq = Seq0)}

\* The client waits for one operation at a time, and fetches its completion.
QueueInv ==
  /\ sendQ = <<>> => moved = {}
  /\ \/ sendQ = <<>> /\ cq = <<>> /\ call["client"].op # "PUT"
     \/ /\ call["client"].op # "NONE"
        /\ sendQ = <<[op |-> call["client"].op, key |-> call["client"].key]>>
        /\ cq = <<>>
     \/ /\ call["client"].op # "NONE"
        /\ sendQ = <<>>
        /\ \E ok \in BOOLEAN : cq = <<[op |-> call["client"].op, ok |-> ok]>>

PutInv ==
  call["client"].op = "PUT" =>
    /\ localBuf = Whole(NewEntry)
    /\ \A i \in moved : mem[call["client"].key][i] \in Landed
    /\ cq # <<>> /\ Head(cq).ok =>
         \A i \in Parts : mem[call["client"].key][i] \in Landed

NumberInv ==
  \A k \in Keys :
    /\ seqNo["server"][k] = Seq0
    /\ lastPut["client"][k] = 0 <=> Committed(k) = Seq0

MemInv ==
  \A k \in Keys :
    /\ \A i \in Parts : mem[k][i] \in Good /\ mem[k][i].key \in {k, NoKey}
    /\ mem[k][2].key = k /\ mem[k][2].seq = Seq0 =>
         mem[k][2].val = lastPut["server"][k]

BufInv == \A i \in Parts : localBuf[i] \in Good

ServerPutInv ==
  call["server"].op = "PUT" =>
    /\ call["server"].val \in 1 .. Len(log)
    /\ log[call["server"].val] = [by |-> "server", key |-> call["server"].key]

ResultInv == result["client"] # NoCall => Idle("client")

\* Nothing has happened before the region is set up.
StartInv ==
  phase["server"] = "start" =>
    /\ phase["client"] # "connected"
    /\ \A p \in Procs : Idle(p) /\ result[p] = NoCall
    /\ \A p \in Procs, k \in Keys : lastPut[p][k] = 0

ServerGot ==
  encrypted =>
    \A k \in Keys, v \in Nat : Got("server", k, v) => v = lastPut["server"][k]

ClientGot ==
  encrypted =>
    \A k \in Keys, v \in Nat :
      Got("client", k, v) =>
        IF lastPut["client"][k] # 0 THEN v = lastPut["client"][k]
        ELSE [key |-> k, val |-> v] \in ServerVals

ArrivedInv ==
  LET r == result["client"]
  IN  r.op = "PUT" =>
        /\ r.key \in Keys
        /\ \/ r.key \in ServerKeys
           \/ \A i \in Parts :
                mem[r.key][i] = [key |-> r.key, seq |-> seqNo["client"][r.key],
                                 val |-> r.val]

ValueInv ==
  /\ QueueInv /\ PutInv /\ NumberInv /\ MemInv /\ BufInv /\ ServerPutInv
  /\ ResultInv /\ ServerGot /\ ClientGot /\ ArrivedInv

-------------------------------------------------------------------------------
\* The books are kept: nothing that was good, landed or written by the server
\* stops being so.
Kept ==
  /\ Good \subseteq Good'
  /\ ServerKeys \subseteq ServerKeys'
  /\ ServerVals \subseteq ServerVals'

\* The log only grows, so what the server has put stays put.
LEMMA KeptLog ==
  ASSUME kvMem' = kvMem, StoreTypeOK,
         UNCHANGED log \/ \E p \in Procs, k \in Keys : LogPut(p, k)
  PROVE  ServerKeys \subseteq ServerKeys' /\ ServerVals \subseteq ServerVals'
<1>1. CASE UNCHANGED log
  BY <1>1 DEF ServerKeys, ServerVals
<1>2. ASSUME NEW p \in Procs, NEW k \in Keys, LogPut(p, k)
      PROVE  ServerKeys \subseteq ServerKeys' /\ ServerVals \subseteq ServerVals'
  <2>1. /\ log \in Seq([by : Procs, key : Keys])
        /\ log' \in Seq([by : Procs, key : Keys])
        /\ Len(log') = Len(log) + 1
        /\ \A i \in 1 .. Len(log) : log'[i] = log[i]
    BY <1>2, LogGrows DEF StoreTypeOK
  <2>2. Len(log) \in Nat /\ DOMAIN log = 1 .. Len(log)
          /\ DOMAIN log' = 1 .. Len(log')
    BY <2>1
  <2>3. ServerKeys \subseteq ServerKeys'
    BY <2>1, <2>2 DEF ServerKeys
  <2>4. ServerVals \subseteq ServerVals'
    BY <2>1, <2>2 DEF ServerVals
  <2> QED BY <2>3, <2>4
<1> QED BY <1>1, <1>2

\* A step that advances no client put keeps the books.
LEMMA KeptAll ==
  ASSUME kvMem' = kvMem, StoreTypeOK,
         UNCHANGED log \/ \E p \in Procs, k \in Keys : LogPut(p, k),
         \A k \in Keys : Committed(k)' = Committed(k),
         \A k \in Keys : lastPut'["client"][k] = lastPut["client"][k]
  PROVE  Kept
<1>1. ServerKeys \subseteq ServerKeys' /\ ServerVals \subseteq ServerVals'
  BY KeptLog
<1>2. ASSUME NEW e \in Good PROVE e \in Good'
  <2>1. e \in Entries /\ (e.key # NoKey => e.key \in Keys)
    BY DEF Good, Entries
  <2>2. CASE e.key = NoKey
    BY <2>1, <2>2 DEF Good
  <2>3. CASE e.key \in Keys
    <3>1. /\ Committed(e.key)' = Committed(e.key)
          /\ lastPut'["client"][e.key] = lastPut["client"][e.key]
      BY <2>3
    <3> QED BY <1>1, <2>1, <3>1 DEF Good
  <2> QED BY <2>1, <2>2, <2>3
<1> QED BY <1>1, <1>2 DEF Kept

\* Where the client's call is not touched, neither is its number.
LEMMA CommittedKept ==
  ASSUME call'["client"] = call["client"], seqNo' = seqNo
  PROVE  /\ \A k \in Keys : Committed(k)' = Committed(k)
         /\ NewEntry' = NewEntry
BY DEF Committed, Putting, NewEntry

\* What has landed stays landed.
LEMMA LandedKept ==
  ASSUME Kept, call'["client"] = call["client"], NewEntry' = NewEntry
  PROVE  Landed \subseteq Landed'
BY DEF Kept, Landed

\* A get that has returned stays right until the next call.
LEMMA ServerGotKept ==
  ASSUME encrypted' = encrypted,
         \/ result'["server"].op # "GET"
         \/ /\ result'["server"] = result["server"]
            /\ lastPut'["server"] = lastPut["server"]
            /\ ServerGot
  PROVE  ServerGot'
BY DEF ServerGot, Got

\* The same for the client.
LEMMA ClientGotKept ==
  ASSUME encrypted' = encrypted,
         \/ result'["client"].op # "GET"
         \/ /\ result'["client"] = result["client"]
            /\ lastPut'["client"] = lastPut["client"]
            /\ ServerVals \subseteq ServerVals'
            /\ ClientGot
  PROVE  ClientGot'
BY DEF ClientGot, Got

-------------------------------------------------------------------------------
(***************************************************************************)
(* The server's calls.                                                     *)
(***************************************************************************)
\* A step of the server that changes at most one part of one block keeps what
\* the client relies on: the new content is good, it belongs there, and where
\* a value can be overwritten the server has put the key.
LEMMA ServerKeepsValues ==
  ASSUME kvMem' = kvMem, StoreAssumption, TypeInv, TypeInv', ValueInv,
         UNCHANGED log \/ \E p \in Procs, k \in Keys : LogPut(p, k),
         UNCHANGED <<encrypted, localBuf, seqNo, sendQ, moved, cq>>,
         call'["client"] = call["client"], result'["client"] = result["client"],
         lastPut'["client"] = lastPut["client"],
         \A k \in Keys, i \in Parts :
           \/ mem'[k][i] = mem[k][i]
           \/ /\ mem'[k][i] \in Good'
              /\ mem'[k][i].key \in {k, NoKey}
              /\ mem'[k][i].key = NoKey \/ mem'[k][i].seq = Seq0
              /\ k \in ServerKeys'
  PROVE  /\ (QueueInv /\ PutInv /\ NumberInv /\ BufInv /\ ResultInv /\ ArrivedInv)'
         /\ ClientGot'
         /\ \A k \in Keys, i \in Parts :
              mem'[k][i] \in Good' /\ mem'[k][i].key \in {k, NoKey}
         /\ Kept
<1> USE DEF Procs
<1>0. StoreTypeOK /\ CallInv /\ StoreTypeOK'
  BY DEF TypeInv
<1>1. (\A k \in Keys : Committed(k)' = Committed(k)) /\ NewEntry' = NewEntry
  BY CommittedKept
<1>2. Kept
  BY <1>0, <1>1, KeptAll
<1>3. Landed \subseteq Landed'
  BY <1>1, <1>2, LandedKept
<1>4. QueueInv'
  BY DEF ValueInv, QueueInv
<1>5. PutInv'
  <2>1. SUFFICES ASSUME call["client"].op = "PUT" PROVE PutInv'
    BY DEF PutInv
  <2>2. call["client"].key \in Keys
    BY <1>0, <2>1 DEF CallInv
  <2>3. \A i \in Parts : mem'[call["client"].key][i] \in Entries
    BY <1>0, <2>2 DEF StoreTypeOK, Blocks
  <2>4. ASSUME NEW i \in Parts, mem[call["client"].key][i] \in Landed
        PROVE  mem'[call["client"].key][i] \in Landed'
    <3>1. CASE mem'[call["client"].key][i] = mem[call["client"].key][i]
      BY <1>3, <2>4, <3>1
    <3>2. CASE /\ \/ mem'[call["client"].key][i].key = NoKey
                  \/ mem'[call["client"].key][i].seq = Seq0
               /\ call["client"].key \in ServerKeys'
      BY <2>3, <3>2 DEF Landed
    <3> QED BY <2>2, <3>1, <3>2
  <2>5. moved \subseteq Parts
    BY <1>0 DEF StoreTypeOK
  <2> QED BY <1>1, <2>1, <2>4, <2>5 DEF ValueInv, PutInv
<1>6. NumberInv'
  BY <1>1 DEF ValueInv, NumberInv
<1>7. BufInv'
  BY <1>2 DEF ValueInv, BufInv, Kept
<1>8. ResultInv'
  BY DEF ValueInv, ResultInv, Idle
<1>9. ArrivedInv'
  BY <1>2 DEF ValueInv, ArrivedInv, Kept
<1>10. \A k \in Keys, i \in Parts :
         mem'[k][i] \in Good' /\ mem'[k][i].key \in {k, NoKey}
  BY <1>2 DEF ValueInv, MemInv, Kept
<1>11. ClientGot'
  BY <1>2, ClientGotKept DEF ValueInv, Kept
<1> QED BY <1>2, <1>4, <1>5, <1>6, <1>7, <1>8, <1>9, <1>10, <1>11

\* What the server writes is good.
LEMMA ServerEntryGood ==
  ASSUME NEW k \in Keys, NEW v \in Nat, ServerEntry(k, v) \in Entries,
         seqNo["server"][k] = Seq0,
         [key |-> k, val |-> v] \in ServerVals'
  PROVE  /\ ServerEntry(k, v) \in Good'
         /\ ServerEntry(k, v).key = k /\ ServerEntry(k, v).seq = Seq0
         /\ ServerEntry(k, v).val = v
BY DEF ServerEntry, Good

\* A spoilt part claims nothing.
LEMMA GarbageGood == Garbage \in Entries /\ Garbage \in Good /\ Garbage \in Good'
                       /\ Garbage.key = NoKey
BY DEF Garbage, Good, Entries

\* The first part of server_put.
LEMMA ServerPutValues ==
  ASSUME kvMem' = kvMem, StoreAssumption, TypeInv, TypeInv', ValueInv,
         NEW k \in Keys, ServerPut(k)
  PROVE  ValueInv'
<1> USE DEF Procs
<1>0. StoreTypeOK /\ StoreTypeOK' /\ LogPut("server", k)
  BY DEF TypeInv, ServerPut
<1>1. /\ Len(log') = Len(log) + 1 /\ Len(log) \in Nat
      /\ log'[Len(log) + 1] = [by |-> "server", key |-> k]
      /\ \A i \in 1 .. Len(log) : log'[i] = log[i]
      /\ NewVal = Len(log) + 1 /\ NewVal \in Nat
      /\ DOMAIN log' = 1 .. Len(log')
  <2> DEFINE S == [by : Procs, key : Keys]
  <2>1. log \in Seq(S) /\ log' \in Seq(S)
    BY <1>0 DEF StoreTypeOK
  <2> HIDE DEF S
  <2>2. Len(log) \in Nat /\ DOMAIN log' = 1 .. Len(log')
    BY <2>1
  <2> QED BY <1>0, <2>2, LogGrows DEF NewVal
<1>2. k \in ServerKeys' /\ [key |-> k, val |-> NewVal] \in ServerVals'
  BY <1>1 DEF ServerKeys, ServerVals
<1>3. UNCHANGED <<encrypted, localBuf, seqNo, sendQ, moved, cq, readBuf, lastPut>>
  BY DEF ServerPut
<1>4. PICK x \in {ServerEntry(k, NewVal), Garbage} :
        /\ mem' = [mem EXCEPT ![k][1] = x]
        /\ \/ Entered("server", "client",
                     [op |-> "PUT", key |-> k, val |-> NewVal])
           \/ Returned("server", "client", NoCall)
  BY <1>0, ServerPutCases
<1>5. ServerEntry(k, NewVal) \in Entries /\ seqNo["server"][k] = Seq0
  BY <1>0, <1>1 DEF ServerEntry, Entries, StoreTypeOK, ValueInv, NumberInv
<1>6. x \in Good' /\ x.key \in {k, NoKey} /\ (x.key = NoKey \/ x.seq = Seq0)
  BY <1>1, <1>2, <1>4, <1>5, ServerEntryGood, GarbageGood
<1>7. \A j \in Keys, i \in Parts :
        mem'[j][i] = IF j = k /\ i = 1 THEN x ELSE mem[j][i]
  BY <1>0, <1>4 DEF StoreTypeOK, Blocks, Parts
<1>8. /\ call'["client"] = call["client"] /\ result'["client"] = result["client"]
      /\ result'["server"] = NoCall
  BY <1>4 DEF Entered, Returned
<1>9. /\ (QueueInv /\ PutInv /\ NumberInv /\ BufInv /\ ResultInv /\ ArrivedInv)'
      /\ ClientGot'
      /\ \A j \in Keys, i \in Parts :
              mem'[j][i] \in Good' /\ mem'[j][i].key \in {j, NoKey}
      /\ Kept
  BY <1>0, <1>2, <1>3, <1>6, <1>7, <1>8, ServerKeepsValues
<1>10. MemInv'
  BY <1>3, <1>7, <1>9 DEF ValueInv, MemInv, Parts
<1>11. ServerPutInv'
  BY <1>1, <1>4 DEF ServerPutInv, Entered, Returned, NoCall
<1>12. ServerGot'
  BY <1>3, <1>8, ServerGotKept DEF NoCall
<1> QED BY <1>9, <1>10, <1>11, <1>12 DEF ValueInv

\* The second part of server_put: the server's last value is what it writes.
LEMMA ServerWriteValues ==
  ASSUME kvMem' = kvMem, StoreAssumption, TypeInv, TypeInv', ValueInv,
         ServerWriteSecond
  PROVE  ValueInv'
<1> DEFINE c == call["server"]
           x == ServerEntry(c.key, c.val)
<1> USE DEF Procs
<1>0. StoreTypeOK /\ StoreTypeOK' /\ c.op = "PUT" /\ c.key \in Keys /\ c.val \in Nat
  BY ServerWriteCases DEF TypeInv, ServerWriteSecond
<1>1. UNCHANGED <<encrypted, localBuf, seqNo, sendQ, moved, cq, readBuf, log>>
  BY DEF ServerWriteSecond
<1>2. /\ c.val \in 1 .. Len(log)
      /\ log[c.val] = [by |-> "server", key |-> c.key]
  BY <1>0 DEF ValueInv, ServerPutInv
<1>3. c.key \in ServerKeys' /\ [key |-> c.key, val |-> c.val] \in ServerVals'
  <2>1. DOMAIN log = 1 .. Len(log)
    BY <1>0 DEF StoreTypeOK
  <2> QED BY <1>0, <1>1, <1>2, <2>1 DEF ServerKeys, ServerVals
<1>4. \/ /\ mem' = [mem EXCEPT ![c.key][2] = x]
         /\ lastPut' = [lastPut EXCEPT !["server"][c.key] = c.val]
         /\ Returned("server", "client", [op |-> "PUT", key |-> c.key, val |-> c.val])
      \/ /\ UNCHANGED <<mem, lastPut>>
         /\ Returned("server", "client", NoCall)
  BY ServerWriteCases
<1>5. x \in Entries /\ seqNo["server"][c.key] = Seq0
  BY <1>0 DEF ServerEntry, Entries, StoreTypeOK, ValueInv, NumberInv
<1>6. x \in Good' /\ x.key = c.key /\ x.seq = Seq0 /\ x.val = c.val
  BY <1>0, <1>3, <1>5, ServerEntryGood
<1> HIDE DEF x
<1>7. /\ call'["client"] = call["client"] /\ result'["client"] = result["client"]
      /\ call'["server"].op = "NONE" /\ result'["server"].op # "GET"
  BY <1>4 DEF Returned, NoCall
<1>8. /\ \A j \in Keys, i \in Parts :
           \/ mem'[j][i] = mem[j][i]
           \/ j = c.key /\ i = 2 /\ mem'[j][i] = x
      /\ \A j \in Keys :
           \/ /\ mem'[j][2] = mem[j][2]
              /\ lastPut'["server"][j] = lastPut["server"][j]
           \/ mem'[j][2] = x /\ lastPut'["server"][j] = c.val
      /\ lastPut'["client"] = lastPut["client"]
  <2>1. CASE UNCHANGED <<mem, lastPut>>
    BY <2>1
  <2>2. CASE /\ mem' = [mem EXCEPT ![c.key][2] = x]
             /\ lastPut' = [lastPut EXCEPT !["server"][c.key] = c.val]
    <3>1. \A j \in Keys, i \in Parts :
            mem'[j][i] = IF j = c.key /\ i = 2 THEN x ELSE mem[j][i]
      BY <1>0, <2>2 DEF StoreTypeOK, Blocks, Parts
    <3>2. /\ \A j \in Keys : lastPut'["server"][j] =
               IF j = c.key THEN c.val ELSE lastPut["server"][j]
          /\ lastPut'["client"] = lastPut["client"]
      BY <1>0, <2>2 DEF StoreTypeOK
    <3> QED BY <3>1, <3>2 DEF Parts
  <2> QED BY <1>4, <2>1, <2>2
<1>9. /\ (QueueInv /\ PutInv /\ NumberInv /\ BufInv /\ ResultInv /\ ArrivedInv)'
      /\ ClientGot'
      /\ \A j \in Keys, i \in Parts :
              mem'[j][i] \in Good' /\ mem'[j][i].key \in {j, NoKey}
  BY <1>1, <1>3, <1>6, <1>7, <1>8, ServerKeepsValues
<1>10. MemInv'
  BY <1>6, <1>8, <1>9 DEF ValueInv, MemInv
<1>11. ServerPutInv'
  BY <1>7 DEF ServerPutInv
<1>12. ServerGot'
  BY <1>1, <1>7, ServerGotKept
<1> QED BY <1>9, <1>10, <1>11, <1>12 DEF ValueInv

\* server_get decrypts under the first number only what the server wrote last.
LEMMA ServerReadValues ==
  ASSUME kvMem' = kvMem, StoreAssumption, TypeInv, TypeInv', ValueInv,
         ServerReadSecond \/ \E k \in Keys : ServerGet(k)
  PROVE  ValueInv'
<1> USE DEF Procs
<1>0. StoreTypeOK /\ StoreTypeOK'
  BY DEF TypeInv
<1>1. UNCHANGED <<encrypted, mem, localBuf, seqNo, sendQ, moved, cq, log, lastPut>>
  BY DEF ServerReadSecond, ServerGet
<1>2. /\ call'["client"] = call["client"] /\ result'["client"] = result["client"]
      /\ call'["server"].op # "PUT"
      /\ ServerGot'
  <2>1. ASSUME NEW k \in Keys, ServerGet(k)
        PROVE  /\ call'["client"] = call["client"]
               /\ result'["client"] = result["client"]
               /\ call'["server"].op # "PUT"
               /\ ServerGot'
    <3>1. Entered("server", "client", [op |-> "GET", key |-> k, val |-> 0])
      BY <1>0, <2>1, EnterEffect DEF ServerGet
    <3>2. ServerGot'
      BY <1>1, <3>1, ServerGotKept DEF Entered, NoCall
    <3> QED BY <3>1, <3>2 DEF Entered
  <2>2. CASE ServerReadSecond
    <3> DEFINE k == call["server"].key
               b == <<readBuf, mem[k][2]>>
    <3>1. k \in Keys
      BY <2>2, ServerReadCases
    <3>2. CASE Returned("server", "client", NoCall)
      <4>1. ServerGot'
        BY <1>1, <3>2, ServerGotKept DEF Returned, NoCall
      <4> QED BY <3>2, <4>1 DEF Returned, NoCall
    <3>3. CASE /\ Decrypts("server", k, b)
               /\ Returned("server", "client",
                    [op |-> "GET", key |-> k, val |-> b[2].val])
      <4>1. encrypted => b[2].val = lastPut["server"][k]
        <5>1. SUFFICES ASSUME encrypted PROVE b[2].val = lastPut["server"][k]
          OBVIOUS
        <5>2. b[1] = readBuf /\ b[2] = mem[k][2]
          OBVIOUS
        <5>3. mem[k][2].key = k /\ mem[k][2].seq = seqNo["server"][k]
          BY <3>3, <5>1, <5>2 DEF Decrypts
        <5> QED BY <3>1, <5>2, <5>3 DEF ValueInv, NumberInv, MemInv
      <4> HIDE DEF b
      <4>2. ServerGot'
        BY <1>1, <3>1, <3>3, <4>1 DEF ServerGot, Got, Returned
      <4> QED BY <3>3, <4>2 DEF Returned, NoCall
    <3> QED BY <2>2, <3>2, <3>3, ServerReadCases
  <2> QED BY <2>1, <2>2
<1>3. /\ (QueueInv /\ PutInv /\ NumberInv /\ BufInv /\ ResultInv /\ ArrivedInv)'
      /\ ClientGot'
      /\ \A j \in Keys, i \in Parts :
              mem'[j][i] \in Good' /\ mem'[j][i].key \in {j, NoKey}
  BY <1>1, <1>2, ServerKeepsValues
<1>4. MemInv'
  BY <1>1, <1>3 DEF ValueInv, MemInv
<1>5. ServerPutInv'
  BY <1>2 DEF ServerPutInv
<1> QED BY <1>2, <1>3, <1>4, <1>5 DEF ValueInv

\* What others write into the region after it was freed decrypts to nothing.
LEMMA SpoilValues ==
  ASSUME StoreAssumption, TypeInv, TypeInv', ValueInv,
         kvMem = "freed", kvMem' = kvMem, SpoilRegion
  PROVE  ValueInv'
<1> USE DEF Procs
<1>0. StoreTypeOK
  BY DEF TypeInv
<1>1. UNCHANGED <<encrypted, localBuf, seqNo, sendQ, moved, cq, call, readBuf,
                  log, lastPut, result>>
  BY DEF SpoilRegion
<1>2. PICK k \in Keys : mem' = [mem EXCEPT ![k] = Whole(Garbage)]
  BY DEF SpoilRegion
<1>3. \A j \in Keys, i \in Parts : mem'[j][i] = mem[j][i] \/ mem'[j][i] = Garbage
  <2>1. \A i \in Parts : Whole(Garbage)[i] = Garbage
    BY GarbageGood, WholeType
  <2> QED BY <1>0, <1>2, <2>1 DEF StoreTypeOK
<1>4. \A j \in Keys : j \in ServerKeys' /\ j # NoKey
  BY DEF ServerKeys, StoreAssumption
<1>5. /\ (QueueInv /\ PutInv /\ NumberInv /\ BufInv /\ ResultInv /\ ArrivedInv)'
      /\ ClientGot'
      /\ \A j \in Keys, i \in Parts :
              mem'[j][i] \in Good' /\ mem'[j][i].key \in {j, NoKey}
  BY <1>1, <1>3, <1>4, GarbageGood, ServerKeepsValues
<1>6. MemInv'
  <2>1. \A j \in Keys : mem'[j][2] = mem[j][2] \/ mem'[j][2].key # j
    BY <1>3, <1>4, GarbageGood DEF Parts
  <2> QED BY <1>1, <1>5, <2>1 DEF ValueInv, MemInv
<1>7. ServerPutInv' /\ ServerGot'
  BY <1>1 DEF ValueInv, ServerPutInv, ServerGot, Got
<1> QED BY <1>5, <1>6, <1>7 DEF ValueInv

-------------------------------------------------------------------------------
(***************************************************************************)
(* The connection and the buffers.                                         *)
(***************************************************************************)
\* A step that leaves numbers, calls and history alone leaves the books alone.
LEMMA BooksUnchanged ==
  ASSUME kvMem = "freed" <=> kvMem' = "freed", UNCHANGED <<seqNo, call, log, lastPut>>
  PROVE  /\ Good' = Good /\ Landed' = Landed /\ NewEntry' = NewEntry
         /\ ServerKeys' = ServerKeys /\ ServerVals' = ServerVals
         /\ \A k \in Keys : Committed(k)' = Committed(k)
BY DEF Good, Landed, NewEntry, ServerKeys, ServerVals, Committed, Putting

\* A put in progress writes under a number above the server's.
LEMMA NewEntryFacts ==
  ASSUME StoreAssumption, TypeInv, call["client"].op = "PUT"
  PROVE  /\ NewEntry \in Entries /\ NewEntry \in Landed
         /\ NewEntry.key = call["client"].key /\ NewEntry.seq > Seq0
         /\ call["client"].key \in Keys
         /\ \A i \in Parts : Whole(NewEntry)[i] = NewEntry
<1>1. /\ call["client"].key \in Keys
      /\ call["client"].val \in Nat
      /\ seqNo["client"][call["client"].key] \in Nat
  BY DEF TypeInv, StoreTypeOK, CallInv, Calls, Procs
<1>2. NewEntry \in Entries
  BY <1>1 DEF NewEntry, Entries
<1>3. NewEntry.seq > Seq0
  BY <1>1 DEF TypeInv, SeqInv, Committed, Putting, NewEntry, StoreAssumption
<1> QED BY <1>1, <1>2, <1>3, WholeType DEF Landed, NewEntry

\* A write transfers the new entry; a read only what is good.
LEMMA TransferValues ==
  ASSUME kvMem' = kvMem, StoreAssumption, TypeInv, TypeInv', ValueInv, Transfer
  PROVE  ValueInv'
<1> DEFINE c == call["client"]
<1>0. StoreTypeOK /\ StoreTypeOK'
  BY DEF TypeInv
<1>1. UNCHANGED <<encrypted, seqNo, sendQ, cq, call, readBuf, log, lastPut, result>>
  BY DEF Transfer
<1>2. /\ sendQ = <<[op |-> c.op, key |-> c.key]>> /\ cq = <<>>
      /\ c.op # "NONE" /\ sendQ # <<>>
  BY DEF Transfer, ValueInv, QueueInv
<1>3. Head(sendQ).op = c.op /\ Head(sendQ).key = c.key /\ c.key \in Keys
  BY <1>2 DEF TypeInv, CallInv, Procs
<1> HIDE DEF c
<1>4. PICK i \in Parts \ moved :
        /\ moved' = moved \cup {i}
        /\ mem' = IF c.op = "PUT"
                  THEN [mem EXCEPT ![c.key][i] = localBuf[i]] ELSE mem
        /\ localBuf' = IF c.op = "GET"
                       THEN [localBuf EXCEPT ![i] = mem[c.key][i]]
                       ELSE localBuf
  BY <1>3 DEF Transfer
<1> USE DEF c
<1>5. /\ Good' = Good /\ Landed' = Landed /\ NewEntry' = NewEntry
      /\ ServerKeys' = ServerKeys /\ ServerVals' = ServerVals
      /\ \A k \in Keys : Committed(k)' = Committed(k)
  BY <1>1, BooksUnchanged
<1>6. QueueInv' /\ NumberInv' /\ ServerPutInv' /\ ResultInv' /\ ServerGot' /\ ClientGot'
  <2>1. QueueInv'
    BY <1>1, <1>2 DEF QueueInv
  <2>2. NumberInv' /\ ServerPutInv' /\ ResultInv'
    BY <1>1, <1>5 DEF ValueInv, NumberInv, ServerPutInv, ResultInv, Idle
  <2>3. ServerGot' /\ ClientGot'
    BY <1>1, <1>5 DEF ValueInv, ServerGot, ClientGot, Got
  <2> QED BY <2>1, <2>2, <2>3
<1>7. CASE c.op = "PUT"
  <2>1. /\ NewEntry \in Entries /\ NewEntry \in Landed
        /\ NewEntry.key = c.key /\ NewEntry.seq > Seq0
        /\ \A j \in Parts : localBuf[j] = NewEntry
        /\ localBuf = Whole(NewEntry) /\ localBuf' = localBuf
    BY <1>4, <1>7, NewEntryFacts DEF ValueInv, PutInv
  <2>2. NewEntry \in Good
    BY <1>4, <2>1 DEF ValueInv, BufInv
  <2>3. \A k \in Keys, j \in Parts :
          mem'[k][j] = IF k = c.key /\ j = i THEN NewEntry ELSE mem[k][j]
    <3>1. mem' = [mem EXCEPT ![c.key][i] = NewEntry]
      BY <1>4, <1>7, <2>1
    <3>2. mem \in [Keys -> Blocks] /\ c.key \in Keys
      BY <1>0, <1>3 DEF StoreTypeOK
    <3> HIDE DEF c
    <3> QED BY <1>4, <3>1, <3>2 DEF Blocks
  <2>4. MemInv'
    <3>1. \A k \in Keys, j \in Parts :
            mem'[k][j] \in Good /\ mem'[k][j].key \in {k, NoKey}
      BY <2>1, <2>2, <2>3 DEF ValueInv, MemInv
    <3>2. \A k \in Keys : mem'[k][2].key = k /\ mem'[k][2].seq = Seq0 =>
                            mem'[k][2].val = lastPut["server"][k]
      BY <2>1, <2>3 DEF ValueInv, MemInv, Parts, StoreAssumption
    <3> QED BY <1>1, <1>5, <3>1, <3>2 DEF MemInv
  <2>5. PutInv'
    <3>1. \A j \in moved' : mem'[c.key][j] \in Landed
      BY <1>0, <1>3, <1>4, <1>7, <2>1, <2>3 DEF StoreTypeOK, ValueInv, PutInv
    <3> QED BY <1>1, <1>2, <1>5, <2>1, <3>1 DEF PutInv
  <2>6. BufInv'
    BY <1>5, <2>1 DEF ValueInv, BufInv
  <2>7. ArrivedInv'
    BY <1>1, <1>7 DEF ValueInv, ArrivedInv, ResultInv, Idle, NoCall
  <2> QED BY <1>6, <2>4, <2>5, <2>6, <2>7 DEF ValueInv
<1>8. CASE c.op = "GET"
  <2>1. mem' = mem /\ localBuf' = [localBuf EXCEPT ![i] = mem[c.key][i]]
    BY <1>4, <1>8
  <2>2. \A j \in Parts : localBuf'[j] = IF j = i THEN mem[c.key][i] ELSE localBuf[j]
    BY <1>0, <1>4, <2>1 DEF StoreTypeOK, Blocks
  <2>3. BufInv'
    BY <1>3, <1>4, <1>5, <2>2 DEF ValueInv, BufInv, MemInv
  <2>4. PutInv'
    BY <1>1, <1>8 DEF PutInv
  <2>5. MemInv' /\ ArrivedInv'
    BY <1>1, <1>5, <2>1 DEF ValueInv, MemInv, ArrivedInv
  <2> QED BY <1>6, <2>3, <2>4, <2>5 DEF ValueInv
<1> QED BY <1>0, <1>2, <1>7, <1>8 DEF StoreTypeOK, Calls, Procs

\* A write that completes without an error has landed in both parts.
LEMMA CompleteValues ==
  ASSUME kvMem' = kvMem, StoreAssumption, TypeInv, TypeInv', ValueInv, Complete
  PROVE  ValueInv'
<1> DEFINE c == call["client"]
<1>0. StoreTypeOK /\ StoreTypeOK'
  BY DEF TypeInv
<1>1. UNCHANGED <<encrypted, mem, localBuf, seqNo, call, readBuf, log, lastPut, result>>
  BY DEF Complete
<1>2. /\ sendQ = <<[op |-> c.op, key |-> c.key]>> /\ cq = <<>>
      /\ c.op # "NONE" /\ sendQ # <<>>
  BY DEF Complete, ValueInv, QueueInv
<1>3. /\ sendQ' = <<>> /\ moved' = {}
      /\ cq' = <<[op |-> c.op, ok |-> (link = "up")]>>
      /\ link = "up" => moved = Parts
  BY <1>2 DEF Complete
<1>4. /\ Good' = Good /\ Landed' = Landed /\ NewEntry' = NewEntry
      /\ ServerKeys' = ServerKeys /\ ServerVals' = ServerVals
      /\ \A k \in Keys : Committed(k)' = Committed(k)
  BY <1>1, BooksUnchanged
<1>5. QueueInv'
  BY <1>1, <1>2, <1>3 DEF QueueInv
<1>6. PutInv'
  <2>1. SUFFICES ASSUME c.op = "PUT" PROVE PutInv'
    BY <1>1 DEF PutInv
  <2>2. Head(cq').ok => link = "up"
    <3> DEFINE x == [op |-> c.op, ok |-> (link = "up")]
    <3>1. cq' = <<x>> /\ x.ok = (link = "up")
      BY <1>3
    <3> HIDE DEF x
    <3>2. Head(cq') = x
      BY <3>1
    <3> QED BY <3>1, <3>2
  <2> QED BY <1>1, <1>3, <1>4, <2>1, <2>2 DEF ValueInv, PutInv
<1>7. (NumberInv /\ MemInv /\ BufInv /\ ServerPutInv /\ ResultInv /\ ArrivedInv)'
  BY <1>1, <1>4
  DEF ValueInv, NumberInv, MemInv, BufInv, ServerPutInv, ResultInv, Idle, ArrivedInv
<1>8. ServerGot' /\ ClientGot'
  BY <1>1, <1>4 DEF ValueInv, ServerGot, ClientGot, Got
<1> QED BY <1>5, <1>6, <1>7, <1>8 DEF ValueInv

\* While the client's thread is in no call, its buffer and its queues may go.
LEMMA ReleaseValues ==
  ASSUME kvMem' = kvMem, TypeInv, ValueInv, Idle("client"), DropQueues \/ LoseLocalBuf
  PROVE  ValueInv'
<1>1. /\ UNCHANGED <<encrypted, mem, seqNo, call, readBuf, log, lastPut, result>>
      /\ call["client"].op = "NONE"
  BY DEF DropQueues, LoseLocalBuf, Idle, NoCall
<1>2. /\ Good' = Good /\ ServerKeys' = ServerKeys /\ ServerVals' = ServerVals
      /\ \A k \in Keys : Committed(k)' = Committed(k)
  BY <1>1, BooksUnchanged
<1>3. QueueInv' /\ PutInv'
  BY <1>1 DEF ValueInv, QueueInv, PutInv, DropQueues, LoseLocalBuf
<1>4. BufInv'
  <2>1. CASE DropQueues
    BY <1>2, <2>1 DEF DropQueues, ValueInv, BufInv
  <2>2. CASE LoseLocalBuf
    <3>1. \A i \in Parts : localBuf'[i] = Garbage
      BY <2>2, GarbageGood, WholeType DEF LoseLocalBuf
    <3> QED BY <3>1, GarbageGood DEF BufInv
  <2> QED BY <2>1, <2>2
<1>5. (NumberInv /\ MemInv /\ ServerPutInv /\ ResultInv /\ ArrivedInv)'
  BY <1>1, <1>2
  DEF ValueInv, NumberInv, MemInv, ServerPutInv, ResultInv, Idle, ArrivedInv
<1>6. ServerGot' /\ ClientGot'
  BY <1>1, <1>2 DEF ValueInv, ServerGot, ClientGot, Got
<1> QED BY <1>3, <1>4, <1>5, <1>6 DEF ValueInv

\* setup_kv_store writes the server's first values, before anything has happened.
LEMMA FillValues ==
  ASSUME kvMem # "freed", kvMem' # "freed",
         StoreAssumption, TypeInv, ValueInv, StartInv,
         phase["server"] = "start", FillRegion
  PROVE  ValueInv'
<1> USE DEF Procs
<1>0. StoreTypeOK
  BY DEF TypeInv
<1>1. /\ UNCHANGED <<encrypted, localBuf, seqNo, sendQ, moved, cq, call, readBuf,
                     log, lastPut, result>>
      /\ call["client"].op = "NONE" /\ result["client"].op = "NONE"
      /\ \A k \in Keys : lastPut["server"][k] = 0
  BY DEF FillRegion, StartInv, Idle, NoCall
<1>2. /\ Good' = Good /\ ServerKeys' = ServerKeys /\ ServerVals' = ServerVals
      /\ \A k \in Keys : Committed(k)' = Committed(k)
  BY <1>1, BooksUnchanged
<1>3. ASSUME NEW k \in Keys, NEW i \in Parts
      PROVE  mem'[k][i] \in Good' /\ mem'[k][i].key = k /\ mem'[k][i].val = 0
  <2>1. ServerEntry(k, 0) \in Entries /\ seqNo["server"][k] = Seq0
    BY <1>0 DEF ServerEntry, Entries, StoreTypeOK, ValueInv, NumberInv
  <2>2. [key |-> k, val |-> 0] \in ServerVals'
    BY DEF ServerVals
  <2>3. mem'[k][i] = ServerEntry(k, 0)
    BY <2>1, WholeType DEF FillRegion
  <2> QED BY <2>1, <2>2, <2>3, ServerEntryGood
<1>4. MemInv'
  BY <1>1, <1>3 DEF MemInv, Parts
<1>5. QueueInv' /\ PutInv' /\ ArrivedInv'
  BY <1>1 DEF ValueInv, QueueInv, PutInv, ArrivedInv
<1>6. (NumberInv /\ BufInv /\ ServerPutInv /\ ResultInv)'
  BY <1>1, <1>2
  DEF ValueInv, NumberInv, BufInv, ServerPutInv, ResultInv, Idle
<1>7. ServerGot' /\ ClientGot'
  BY <1>1, <1>2 DEF ValueInv, ServerGot, ClientGot, Got
<1> QED BY <1>4, <1>5, <1>6, <1>7 DEF ValueInv

-------------------------------------------------------------------------------
(***************************************************************************)
(* The client's calls.                                                     *)
(***************************************************************************)
\* Between its calls the client has no operation and no completion open.
LEMMA IdleQueues ==
  ASSUME ValueInv, Idle("client")
  PROVE  /\ sendQ = <<>> /\ cq = <<>> /\ moved = {} /\ call["client"].op = "NONE"
         /\ \A k \in Keys : Committed(k) = seqNo["client"][k]
BY DEF ValueInv, QueueInv, Idle, NoCall, Committed, Putting

\* A step of the client that leaves the region alone and keeps the books keeps
\* what the server relies on.
LEMMA ClientKeepsValues ==
  ASSUME kvMem' = kvMem, TypeInv, TypeInv', ValueInv, Kept,
         UNCHANGED log \/ \E p \in Procs, k \in Keys : LogPut(p, k),
         UNCHANGED <<encrypted, mem>>,
         lastPut' = lastPut,
         call'["server"] = call["server"], result'["server"] = result["server"]
  PROVE  (MemInv /\ ServerPutInv /\ ServerGot)'
<1>0. StoreTypeOK /\ StoreTypeOK'
  BY DEF TypeInv
<1>1. MemInv'
  BY DEF ValueInv, MemInv, Kept
<1>2. ServerPutInv'
  <2>1. CASE UNCHANGED log
    BY <2>1 DEF ValueInv, ServerPutInv
  <2>2. ASSUME NEW p \in Procs, NEW k \in Keys, LogPut(p, k)
        PROVE  ServerPutInv'
    <3> DEFINE S == [by : Procs, key : Keys]
    <3>1. log \in Seq(S) /\ Len(log') = Len(log) + 1
            /\ \A i \in 1 .. Len(log) : log'[i] = log[i]
      BY <1>0, <2>2, LogGrows DEF StoreTypeOK
    <3> HIDE DEF S
    <3>2. Len(log) \in Nat
      BY <3>1
    <3> QED BY <3>1, <3>2 DEF ValueInv, ServerPutInv
  <2> QED BY <2>1, <2>2
<1>3. ServerGot'
  BY ServerGotKept DEF ValueInv
<1> QED BY <1>1, <1>2, <1>3

\* rdma_put up to its wait: the new number is above every number in use.
LEMMA RdmaPutValues ==
  ASSUME kvMem' = kvMem, StoreAssumption, TypeInv, TypeInv', ValueInv,
         NEW k \in Keys, RdmaPut(k)
  PROVE  ValueInv'
<1> DEFINE e == [key |-> k, seq |-> seqNo["client"][k] + 1, val |-> NewVal]
<1> USE DEF Procs
<1>0. StoreTypeOK /\ StoreTypeOK' /\ LogPut("client", k) /\ Idle("client")
  BY DEF TypeInv, RdmaPut
<1>1. UNCHANGED <<encrypted, mem, moved, cq, readBuf, lastPut>>
  BY DEF RdmaPut
<1>2. NewVal \in Nat /\ seqNo["client"][k] \in Nat /\ seqNo["client"][k] >= Seq0
  BY <1>0, LogGrows, IdleQueues DEF StoreTypeOK, TypeInv, SeqInv
<1>3. /\ sendQ = <<>> /\ cq = <<>> /\ moved = {} /\ call["client"].op = "NONE"
      /\ \A j \in Keys : Committed(j) = seqNo["client"][j]
  BY <1>0, IdleQueues
<1>4. e \in Entries /\ e.key = k /\ e.seq = seqNo["client"][k] + 1
        /\ \A i \in Parts : Whole(e)[i] = e
  BY <1>2, WholeType DEF Entries
<1>5. ASSUME \A j \in Keys : Committed(j)' = Committed(j)
      PROVE  Kept /\ e \in Good'
  <2>1. Kept
    BY <1>0, <1>1, <1>5, KeptAll
  <2>2. Committed(k)' = seqNo["client"][k]
    BY <1>3, <1>5
  <2> HIDE DEF e
  <2>3. e \in Good'
    BY <1>2, <1>4, <2>2 DEF Good, StoreAssumption
  <2> QED BY <2>1, <2>3
<1>6. ASSUME \A j \in Keys : Committed(j)' = Committed(j),
             seqNo'["server"] = seqNo["server"]
      PROVE  NumberInv'
  BY <1>1, <1>6 DEF ValueInv, NumberInv
<1>7. CASE /\ localBuf' = Whole(e)
           /\ seqNo' = [seqNo EXCEPT !["client"][k] = @ + 1]
           /\ sendQ' = Append(sendQ, [op |-> "PUT", key |-> k])
           /\ Entered("client", "server", [op |-> "PUT", key |-> k, val |-> NewVal])
  <2>1. /\ call'["client"] = [op |-> "PUT", key |-> k, val |-> NewVal]
        /\ call'["server"] = call["server"]
        /\ result'["client"].op = "NONE" /\ result'["client"] = NoCall
        /\ result'["server"] = result["server"]
    BY <1>7 DEF Entered, NoCall
  <2>2. /\ \A j \in Keys : seqNo'["client"][j] =
             IF j = k THEN seqNo["client"][j] + 1 ELSE seqNo["client"][j]
        /\ seqNo'["server"] = seqNo["server"]
        /\ \A j \in Keys : seqNo["client"][j] \in Nat
    BY <1>0, <1>7 DEF StoreTypeOK
  <2>3. \A j \in Keys : Committed(j)' = Committed(j)
    BY <1>3, <2>1, <2>2 DEF Committed, Putting
  <2>4. NewEntry' = e
    BY <2>1, <2>2 DEF NewEntry
  <2>5. Kept /\ e \in Good' /\ NumberInv'
    BY <1>5, <1>6, <2>2, <2>3
  <2>6. (MemInv /\ ServerPutInv /\ ServerGot)'
    BY <1>0, <1>1, <2>1, <2>5, ClientKeepsValues
  <2>7. QueueInv'
    <3>1. sendQ' = <<[op |-> "PUT", key |-> k]>> /\ sendQ' # <<>>
      BY <1>3, <1>7
    <3> QED BY <1>1, <1>3, <2>1, <3>1 DEF QueueInv
  <2> HIDE DEF e
  <2>8. PutInv'
    BY <1>1, <1>3, <1>7, <2>4 DEF PutInv
  <2>9. BufInv'
    BY <1>4, <1>7, <2>5 DEF BufInv
  <2>10. ResultInv' /\ ArrivedInv'
    BY <2>1 DEF ResultInv, ArrivedInv
  <2>11. ClientGot'
    BY <1>1, <2>1, ClientGotKept
  <2> QED BY <2>5, <2>6, <2>7, <2>8, <2>9, <2>10, <2>11 DEF ValueInv
<1>8. CASE /\ localBuf' \in {Whole(e), [localBuf EXCEPT ![1] = Garbage]}
           /\ UNCHANGED <<seqNo, sendQ>>
           /\ Returned("client", "server", NoCall)
  <2>1. /\ call'["client"] = NoCall /\ call'["client"].op = "NONE"
        /\ call'["server"] = call["server"]
        /\ result'["client"].op = "NONE" /\ result'["client"] = NoCall
        /\ result'["server"] = result["server"]
    BY <1>8 DEF Returned, NoCall
  <2>2. \A j \in Keys : Committed(j)' = Committed(j)
    BY <1>3, <1>8, <2>1 DEF Committed, Putting
  <2>3. Kept /\ e \in Good' /\ NumberInv'
    BY <1>5, <1>6, <1>8, <2>2
  <2>4. (MemInv /\ ServerPutInv /\ ServerGot)'
    BY <1>0, <1>1, <2>1, <2>3, ClientKeepsValues
  <2>5. QueueInv' /\ PutInv' /\ ResultInv' /\ ArrivedInv'
    BY <1>1, <1>3, <1>8, <2>1 DEF QueueInv, PutInv, ResultInv, ArrivedInv
  <2>6. BufInv'
    <3> HIDE DEF e
    <3>1. CASE localBuf' = Whole(e)
      BY <1>4, <2>3, <3>1 DEF BufInv
    <3>2. CASE localBuf' = [localBuf EXCEPT ![1] = Garbage]
      <4>1. \A i \in Parts : localBuf'[i] \in {Garbage, localBuf[i]}
        BY <1>0, <3>2 DEF StoreTypeOK, Blocks
      <4> QED BY <2>3, <4>1, GarbageGood DEF ValueInv, BufInv, Kept
    <3> QED BY <1>8, <3>1, <3>2
  <2>7. ClientGot'
    BY <1>1, <2>1, ClientGotKept
  <2> QED BY <2>3, <2>4, <2>5, <2>6, <2>7 DEF ValueInv
<1> QED BY <1>0, <1>7, <1>8, RdmaPutCases

\* rdma_get up to its wait.
LEMMA RdmaGetValues ==
  ASSUME kvMem' = kvMem, StoreAssumption, TypeInv, TypeInv', ValueInv,
         NEW k \in Keys, RdmaGet(k)
  PROVE  ValueInv'
<1> USE DEF Procs
<1>0. StoreTypeOK /\ StoreTypeOK' /\ Idle("client")
  BY DEF TypeInv, RdmaGet
<1>1. UNCHANGED <<encrypted, mem, localBuf, seqNo, moved, cq, readBuf, log, lastPut>>
  BY DEF RdmaGet
<1>2. /\ sendQ = <<>> /\ cq = <<>> /\ moved = {} /\ call["client"].op = "NONE"
      /\ \A j \in Keys : Committed(j) = seqNo["client"][j]
  BY <1>0, IdleQueues
<1>3. /\ Entered("client", "server", [op |-> "GET", key |-> k, val |-> 0])
      /\ sendQ' \in {sendQ, Append(sendQ, [op |-> "GET", key |-> k])}
  BY <1>0, RdmaGetCases
<1>4. /\ call'["client"] = [op |-> "GET", key |-> k, val |-> 0]
      /\ call'["server"] = call["server"]
      /\ result'["client"].op = "NONE" /\ result'["client"] = NoCall
      /\ result'["server"] = result["server"]
  BY <1>3 DEF Entered, NoCall
<1>5. \A j \in Keys : Committed(j)' = Committed(j)
  BY <1>1, <1>2, <1>4 DEF Committed, Putting
<1>6. Kept
  BY <1>0, <1>1, <1>5, KeptAll
<1>7. (MemInv /\ ServerPutInv /\ ServerGot)'
  BY <1>0, <1>1, <1>4, <1>6, ClientKeepsValues
<1>8. QueueInv'
  <2>1. sendQ' = <<>> \/ (sendQ' # <<>> /\ sendQ' = <<[op |-> "GET", key |-> k]>>)
    BY <1>2, <1>3
  <2> QED BY <1>1, <1>2, <1>4, <2>1 DEF QueueInv
<1>9. PutInv' /\ ResultInv' /\ ArrivedInv'
  BY <1>4 DEF PutInv, ResultInv, ArrivedInv
<1>10. NumberInv' /\ BufInv'
  BY <1>1, <1>5, <1>6 DEF ValueInv, NumberInv, BufInv, Kept
<1>11. ClientGot'
  BY <1>1, <1>4, ClientGotKept
<1> QED BY <1>7, <1>8, <1>9, <1>10, <1>11 DEF ValueInv

\* The client's put has succeeded: its number now stands for its value, whatever
\* entries of failed puts under the same number there were.
LEMMA PutDoneValues ==
  ASSUME kvMem' = kvMem, StoreAssumption, TypeInv, TypeInv', ValueInv,
         call["client"].op = "PUT", call["client"].key \in Keys,
         sendQ = <<>>, cq # <<>>, Head(cq).ok, cq' = <<>>,
         UNCHANGED <<encrypted, mem, localBuf, sendQ, moved, readBuf, log, seqNo>>,
         Returned("client", "server", call["client"]),
         lastPut' = [lastPut EXCEPT !["client"][call["client"].key] =
                       call["client"].val]
  PROVE  ValueInv'
<1> DEFINE c == call["client"]
<1> USE DEF Procs
<1>0. StoreTypeOK /\ StoreTypeOK' /\ CallInv /\ SeqInv
  BY DEF TypeInv
<1> PICK k \in Keys : k = c.key
  OBVIOUS
<1>1. /\ call'["client"] = NoCall /\ call'["client"].op = "NONE"
      /\ call'["server"] = call["server"]
      /\ result'["client"] = c /\ result'["server"] = result["server"]
  BY DEF Returned, NoCall
<1>2. /\ \A j \in Keys : lastPut'["client"][j] =
           IF j = k THEN c.val ELSE lastPut["client"][j]
      /\ lastPut'["server"] = lastPut["server"]
  BY <1>0 DEF StoreTypeOK
<1>3. /\ \A j \in Keys : j # k => Committed(j)' = Committed(j)
      /\ Committed(k)' = seqNo["client"][c.key]
      /\ seqNo["client"][c.key] > Seq0
      /\ c.val > 0 /\ c.val \in Nat
  <2>1. seqNo["client"][c.key] \in Nat
    BY <1>0 DEF StoreTypeOK
  <2>2. /\ \A j \in Keys : j # k => Committed(j)' = Committed(j)
        /\ Committed(k)' = seqNo["client"][c.key]
    BY <1>1 DEF Committed, Putting
  <2>3. seqNo["client"][c.key] > Seq0
    BY <1>0, <2>1 DEF SeqInv, Committed, Putting, StoreAssumption
  <2> QED BY <1>0, <2>2, <2>3 DEF CallInv, StoreTypeOK, Calls
<1>4. ServerKeys' = ServerKeys /\ ServerVals' = ServerVals
  BY DEF ServerKeys, ServerVals
<1>5. /\ NewEntry \in Entries /\ NewEntry.key = c.key
      /\ NewEntry.seq = seqNo["client"][c.key] /\ NewEntry.val = c.val
      /\ \A i \in Parts : Whole(NewEntry)[i] = NewEntry
  BY NewEntryFacts DEF NewEntry
<1>6. NewEntry \in Good'
  BY <1>2, <1>3, <1>5 DEF Good
<1>7. \A i \in Parts : localBuf[i] = NewEntry /\ mem[c.key][i] \in Landed
  BY <1>5 DEF ValueInv, PutInv
<1>8. ASSUME NEW e \in Good, e.key # c.key \/ e.seq = Seq0
      PROVE  e \in Good'
  <2>1. e \in Entries /\ (e.key # NoKey => e.key \in Keys)
    BY <1>8 DEF Good, Entries
  <2>2. CASE e.key = NoKey
    BY <2>1, <2>2 DEF Good
  <2>3. CASE e.key \in Keys /\ e.key # c.key
    <3>1. /\ Committed(e.key)' = Committed(e.key)
          /\ lastPut'["client"][e.key] = lastPut["client"][e.key]
      BY <1>2, <1>3, <2>3
    <3> QED BY <1>4, <1>8, <2>1, <3>1 DEF Good
  <2>4. CASE e.key \in Keys /\ e.seq = Seq0
    BY <1>4, <1>8, <2>1, <2>4 DEF Good, StoreAssumption
  <2> QED BY <1>8, <2>1, <2>2, <2>3, <2>4
<1>9. ASSUME NEW j \in Keys, NEW i \in Parts PROVE mem[j][i] \in Good'
  <2>1. mem[j][i] \in Good /\ mem[j][i].key \in {j, NoKey}
    BY DEF ValueInv, MemInv
  <2>2. NoKey # c.key
    BY DEF StoreAssumption
  <2>3. CASE j # c.key
    BY <1>8, <2>1, <2>2, <2>3
  <2>4. CASE j = c.key
    <3>1. mem[j][i] = NewEntry \/ mem[j][i].key = NoKey \/ mem[j][i].seq = Seq0
      BY <1>7, <2>4 DEF Landed
    <3> QED BY <1>6, <1>8, <2>1, <2>2, <3>1
  <2> QED BY <2>3, <2>4
<1>10. MemInv'
  BY <1>2, <1>9 DEF ValueInv, MemInv
<1>11. BufInv'
  BY <1>6, <1>7 DEF BufInv
<1>12. NumberInv'
  <2>1. ASSUME NEW j \in Keys
        PROVE  lastPut'["client"][j] = 0 <=> Committed(j)' = Seq0
    <3>1. CASE j = k
      <4>1. lastPut'["client"][j] # 0 /\ Committed(j)' # Seq0
        BY <1>2, <1>3, <3>1 DEF StoreAssumption
      <4> QED BY <4>1
    <3>2. CASE j # k
      BY <1>2, <1>3, <3>2 DEF ValueInv, NumberInv
    <3> QED BY <3>1, <3>2
  <2> QED BY <2>1 DEF ValueInv, NumberInv
<1>13. QueueInv' /\ PutInv'
  BY <1>1 DEF ValueInv, QueueInv, PutInv
<1>14. ServerPutInv' /\ ResultInv'
  BY <1>1 DEF ValueInv, ServerPutInv, ResultInv, Idle
<1>15. ArrivedInv'
  <2>1. \/ c.key \in ServerKeys
        \/ \A i \in Parts : mem[c.key][i] = NewEntry
    BY <1>7 DEF Landed
  <2> QED BY <1>1, <1>4, <2>1 DEF ArrivedInv, NewEntry
<1>16. ServerGot' /\ ClientGot'
  BY <1>1, <1>2, ServerGotKept, ClientGotKept DEF ValueInv
<1> QED BY <1>10, <1>11, <1>12, <1>13, <1>14, <1>15, <1>16 DEF ValueInv

\* The client's call has returned anything else: with its number taken back, if
\* it has advanced it, nothing has changed.
LEMMA CallDoneValues ==
  ASSUME kvMem' = kvMem, StoreAssumption, TypeInv, TypeInv', ValueInv,
         sendQ = <<>>, cq' = <<>>,
         UNCHANGED <<encrypted, mem, localBuf, sendQ, moved, readBuf, log, lastPut>>,
         \A k \in Keys : Committed(k)' = Committed(k),
         seqNo'["server"] = seqNo["server"],
         NEW r, Returned("client", "server", r), r.op # "PUT",
         \/ r.op # "GET"
         \/ \E k \in Keys : /\ r = [op |-> "GET", key |-> k, val |-> localBuf[2].val]
                            /\ Decrypts("client", k, localBuf)
                            /\ Committed(k) = seqNo["client"][k]
  PROVE  ValueInv'
<1> USE DEF Procs
<1>0. StoreTypeOK /\ StoreTypeOK'
  BY DEF TypeInv
<1>1. /\ call'["client"] = NoCall /\ call'["client"].op = "NONE"
      /\ call'["server"] = call["server"]
      /\ result'["client"] = r /\ result'["server"] = result["server"]
  BY DEF Returned, NoCall
<1>2. Kept
  BY <1>0, KeptAll
<1>3. (MemInv /\ ServerPutInv /\ ServerGot)'
  BY <1>1, <1>2, ClientKeepsValues
<1>4. QueueInv' /\ PutInv' /\ ResultInv' /\ ArrivedInv'
  BY <1>1 DEF ValueInv, QueueInv, PutInv, ResultInv, ArrivedInv, Idle
<1>5. NumberInv' /\ BufInv'
  BY <1>2 DEF ValueInv, NumberInv, BufInv, Kept
<1>6. ClientGot'
  <2>1. CASE r.op # "GET"
    BY <1>1, <2>1, ClientGotKept
  <2>2. ASSUME NEW k \in Keys,
               r = [op |-> "GET", key |-> k, val |-> localBuf[2].val],
               Decrypts("client", k, localBuf),
               Committed(k) = seqNo["client"][k]
        PROVE  ClientGot'
    <3>1. SUFFICES ASSUME encrypted PROVE ClientGot'
      BY DEF ClientGot
    <3>2. /\ localBuf[2] \in Good
          /\ localBuf[2].key = k /\ localBuf[2].seq = Committed(k)
      BY <2>2, <3>1 DEF Decrypts, ValueInv, BufInv, Parts
    <3>3. /\ lastPut["client"][k] # 0 => localBuf[2].val = lastPut["client"][k]
          /\ lastPut["client"][k] = 0 =>
               [key |-> k, val |-> localBuf[2].val] \in ServerVals
      <4>1. lastPut["client"][k] = 0 <=> Committed(k) = Seq0
        BY DEF ValueInv, NumberInv
      <4>2. k # NoKey
        BY DEF StoreAssumption
      <4> QED BY <3>2, <4>1, <4>2 DEF Good, StoreAssumption
    <3>4. ServerVals \subseteq ServerVals'
      BY <1>2 DEF Kept
    <3>5. \A j \in Keys, v \in Nat :
            Got("client", j, v)' => j = k /\ v = localBuf[2].val
      BY <1>1, <2>2 DEF Got
    <3> QED BY <3>3, <3>4, <3>5 DEF ClientGot
  <2> QED BY <2>1, <2>2
<1> QED BY <1>3, <1>4, <1>5, <1>6 DEF ValueInv

\* The end of the client's call: the completion it fetches is its own.
LEMMA FetchValues ==
  ASSUME kvMem' = kvMem, StoreAssumption, TypeInv, TypeInv', ValueInv,
         FetchCompletion(TRUE)
  PROVE  ValueInv'
<1> DEFINE c == call["client"]
<1> USE DEF Procs
<1>0. StoreTypeOK
  BY DEF TypeInv
<1>1. UNCHANGED <<encrypted, mem, localBuf, sendQ, moved, readBuf, log>>
  BY DEF FetchCompletion
<1>2. c.key \in Keys /\ cq # <<>> /\ cq' = Tail(cq)
  BY FetchCases
<1>3. sendQ = <<>> /\ \E ok \in BOOLEAN : cq = <<[op |-> c.op, ok |-> ok]>>
  BY <1>2 DEF ValueInv, QueueInv
<1>4. cq' = <<>>
  BY <1>2, <1>3
<1>5. CASE /\ c.op = "PUT" /\ Head(cq).ok
           /\ Returned("client", "server", c)
           /\ seqNo' = seqNo
           /\ lastPut' = [lastPut EXCEPT !["client"][c.key] = c.val]
  BY <1>1, <1>2, <1>3, <1>4, <1>5, PutDoneValues
<1>6. CASE /\ c.op = "PUT"
           /\ Returned("client", "server", NoCall)
           /\ seqNo' = [seqNo EXCEPT !["client"][c.key] = @ - 1]
           /\ lastPut' = lastPut
  <2>1. /\ \A j \in Keys : seqNo'["client"][j] =
             IF j = c.key THEN seqNo["client"][j] - 1 ELSE seqNo["client"][j]
        /\ seqNo'["server"] = seqNo["server"]
    BY <1>0, <1>2, <1>6 DEF StoreTypeOK
  <2>2. call'["client"].op = "NONE" /\ NoCall.op = "NONE"
    BY <1>6 DEF Returned, NoCall
  <2>3. \A j \in Keys : Committed(j)' = Committed(j)
    BY <1>6, <2>1, <2>2 DEF Committed, Putting
  <2> QED BY <1>1, <1>3, <1>4, <1>6, <2>1, <2>2, <2>3, CallDoneValues
<1>7. ASSUME NEW r, c.op = "GET", UNCHANGED <<seqNo, lastPut>>,
             Returned("client", "server", r), r.op # "PUT",
             \/ r.op # "GET"
             \/ /\ r = [op |-> "GET", key |-> c.key, val |-> localBuf[2].val]
                /\ Decrypts("client", c.key, localBuf)
      PROVE  ValueInv'
  <2>1. call'["client"].op = "NONE"
    BY <1>7 DEF Returned, NoCall
  <2>2. \A j \in Keys : Committed(j)' = Committed(j)
    BY <1>7, <2>1 DEF Committed, Putting
  <2>3. Committed(c.key) = seqNo["client"][c.key]
    BY <1>7 DEF Committed, Putting
  <2> QED BY <1>1, <1>2, <1>3, <1>4, <1>7, <2>2, <2>3, CallDoneValues
<1>8. CASE c.op = "GET" /\ Returned("client", "server", NoCall)
             /\ UNCHANGED <<seqNo, lastPut>>
  BY <1>7, <1>8 DEF NoCall
<1>9. CASE /\ c.op = "GET"
           /\ Decrypts("client", c.key, localBuf)
           /\ Returned("client", "server",
                [op |-> "GET", key |-> c.key, val |-> localBuf[2].val])
           /\ UNCHANGED <<seqNo, lastPut>>
  BY <1>7, <1>9
<1> QED BY <1>5, <1>6, <1>8, <1>9, FetchCases

-------------------------------------------------------------------------------
(***************************************************************************)
(* Both together.                                                          *)
(***************************************************************************)
\* The initial state.
LEMMA ValueInit == ASSUME StoreAssumption, Init PROVE ValueInv /\ StartInv
<1> USE DEF Procs
<1>1. /\ mem = [k \in Keys |-> Whole(Garbage)] /\ localBuf = Whole(Garbage)
      /\ seqNo = [p \in Procs |-> [k \in Keys |-> Seq0]]
      /\ lastPut = [p \in Procs |-> [k \in Keys |-> 0]]
      /\ \A p \in Procs : call[p] = NoCall /\ result[p] = NoCall
      /\ sendQ = <<>> /\ cq = <<>> /\ moved = {}
      /\ phase["client"] = "idle"
  BY DEF Init, StoreInit, EndpointInit
<1>2. \A i \in Parts : Whole(Garbage)[i] = Garbage
  BY GarbageGood, WholeType
<1>3. NoCall.op = "NONE"
  BY DEF NoCall
<1>4. \A k \in Keys : /\ Committed(k) = Seq0 /\ seqNo["server"][k] = Seq0
                      /\ \A p \in Procs : lastPut[p][k] = 0
  BY <1>1, <1>3 DEF Committed, Putting
<1>5. QueueInv /\ PutInv /\ NumberInv /\ ServerPutInv /\ ResultInv /\ ArrivedInv
  BY <1>1, <1>3, <1>4
  DEF QueueInv, PutInv, NumberInv, ServerPutInv, ResultInv, ArrivedInv
<1>6. MemInv /\ BufInv
  <2>1. \A k \in Keys, i \in Parts : mem[k][i] = Garbage /\ localBuf[i] = Garbage
    BY <1>1, <1>2
  <2>2. \A k \in Keys : k # NoKey
    BY DEF StoreAssumption
  <2> QED BY <1>1, <1>2, <2>1, <2>2, GarbageGood DEF MemInv, BufInv, Parts
<1>7. ServerGot /\ ClientGot
  BY <1>1, <1>3 DEF ServerGot, ClientGot, Got
<1>8. StartInv
  BY <1>1, <1>4 DEF StartInv, Idle
<1> QED BY <1>5, <1>6, <1>7, <1>8 DEF ValueInv

\* No call is made before the region is set up: the server accepts no client
\* until then.
LEMMA StartStep ==
  ASSUME TypeInv, EndInv, StartInv, [Next]_vars
  PROVE  StartInv'
<1> USE DEF Procs
<1>0. phase \in [Procs -> ClientPhases \cup ServerPhases]
  BY DEF EndInv, EndTypeOK
<1>1. SUFFICES ASSUME phase'["server"] = "start" PROVE StartInv'
  BY DEF StartInv
<1>2. CASE /\ UNCHANGED <<call, result, lastPut>>
           /\ phase'["server"] = phase["server"]
           /\ phase'["client"] # "connected" \/ phase'["client"] = phase["client"]
  BY <1>1, <1>2 DEF StartInv, Idle
<1>3. CASE UNCHANGED endpointVars
  <2>1. phase["server"] = "start" /\ phase' = phase
    BY <1>1, <1>3 DEF endpointVars
  <2>2. /\ phase["client"] # "connected"
        /\ \A p \in Procs : call[p].op = "NONE"
    BY <2>1 DEF StartInv, Idle, NoCall
  <2>3. UNCHANGED <<call, result, lastPut>>
    <3>1. ASSUME NEW fetched, Completion(fetched) PROVE FALSE
      BY <2>1, <3>1 DEF Completion, StoreStep, FetchCompletion, StartInv
    <3>2. ~Put /\ ~Get
      BY <2>2 DEF Put, Get, ClientCall
    <3>3. ~SPut /\ ~SGet
      BY <2>1 DEF SPut, SGet, ServerCall
    <3>4. ~SPutSecond /\ ~SGetSecond
      BY <2>2 DEF SPutSecond, SGetSecond, StoreStep, ServerWriteSecond,
                  ServerReadSecond
    <3>5. CASE NicTransfer \/ NicComplete
      BY <3>5 DEF NicTransfer, NicComplete, StoreStep, Transfer, Complete
    <3>6. CASE Setup \/ ClientHangUp \/ ClientFree \/ RegionReused
      BY <3>6 DEF Setup, ClientHangUp, ClientFree, RegionReused, StoreStep,
                  FillRegion, DropQueues, LoseLocalBuf, SpoilRegion
    <3>7. CASE UNCHANGED storeVars
      BY <3>7 DEF storeVars
    <3> QED BY <3>1, <3>2, <3>3, <3>4, <3>5, <3>6, <3>7
            DEF Next, vars, EndpointStep, Network
  <2> QED BY <1>2, <2>1, <2>3
<1>4. CASE Setup
  BY <1>0, <1>1, <1>4 DEF Setup, SetupKvStore, Go
<1>5. CASE ClientHangUp \/ ClientFree
  BY <1>0, <1>1, <1>2, <1>5
  DEF ClientHangUp, ClientFree, FreeConnection, FreeClient, FreeObjects, Go,
      DropQueues, LoseLocalBuf
<1>6. CASE EndpointStep("client", ClientEndpoint)
  <2>1. UNCHANGED <<call, result, lastPut>> /\ ClientEndpoint
    BY <1>6 DEF EndpointStep, storeVars
  <2>2. CASE ConnectSetup \/ ConnectRequest \/ Disconnect
    BY <1>0, <1>2, <2>1, <2>2 DEF ConnectSetup, ConnectRequest, Disconnect, Go
  <2>3. CASE ConnectEstablish
    <3>1. phase'["server"] = phase["server"]
      BY <1>0, <2>3 DEF ConnectEstablish, Go
    <3>2. link # "up"
      BY <1>1, <3>1 DEF EndInv, ServerEnd
    <3>3. phase'["client"] # "connected"
      BY <1>0, <2>3, <3>2 DEF ConnectEstablish, Go, Established
    <3> QED BY <1>2, <2>1, <3>1, <3>3
  <2> QED BY <2>1, <2>2, <2>3 DEF ClientEndpoint
<1>7. CASE EndpointStep("server", ServerEndpoint)
  BY <1>0, <1>1, <1>7
  DEF EndpointStep, ServerEndpoint, HostServer, AcceptClient, Shutdown,
      Cleanup, TestCleanupEnc, FreeConnection, FreeServer, FreeObjects, FreeKvStore, Go
<1>8. CASE Put \/ Get \/ (\E fetched \in Outcomes(WaitMayFail) : Completion(fetched))
             \/ NicTransfer \/ NicComplete \/ SPut \/ SPutSecond \/ SGet
             \/ SGetSecond \/ RegionReused \/ Network \/ UNCHANGED vars
  <2>1. UNCHANGED endpointVars
    BY <1>8 DEF Put, Get, Completion, NicTransfer, NicComplete, SPut, SPutSecond,
                SGet, SGetSecond, RegionReused, Network, LinkLost, ClientCall,
                ServerCall, StoreStep, vars
  <2> QED BY <1>3, <2>1
<1> QED BY <1>4, <1>5, <1>6, <1>7, <1>8 DEF Next

\* A step that does not touch the store, or frees the region.
LEMMA OutsideValues ==
  ASSUME ValueInv, UNCHANGED storeVars, kvMem = "freed" => kvMem' = "freed"
  PROVE  ValueInv'
<1>1. UNCHANGED <<encrypted, mem, localBuf, seqNo, sendQ, moved, cq, call, log,
                  lastPut, result>>
  BY DEF storeVars
<1>2. /\ ServerVals' = ServerVals /\ NewEntry' = NewEntry
      /\ \A k \in Keys : Committed(k)' = Committed(k)
  BY <1>1 DEF ServerVals, NewEntry, Committed, Putting
<1>3. ServerKeys \subseteq ServerKeys'
  BY <1>1 DEF ServerKeys
<1>4. Good' = Good
  BY <1>1, <1>2 DEF Good, Committed, Putting
<1>5. Landed \subseteq Landed'
  BY <1>1, <1>2, <1>3 DEF Landed
<1>6. QueueInv' /\ PutInv'
  BY <1>1, <1>2, <1>5 DEF ValueInv, QueueInv, PutInv
<1>7. (NumberInv /\ MemInv /\ BufInv /\ ServerPutInv /\ ResultInv)'
  BY <1>1, <1>2, <1>4
  DEF ValueInv, NumberInv, MemInv, BufInv, ServerPutInv, ResultInv, Idle
<1>8. ArrivedInv'
  BY <1>1, <1>3 DEF ValueInv, ArrivedInv
<1>9. ServerGot' /\ ClientGot'
  BY <1>1, <1>2 DEF ValueInv, ServerGot, ClientGot, Got
<1> QED BY <1>6, <1>7, <1>8, <1>9 DEF ValueInv

\* Every step preserves ValueInv, if no wait for a completion fails.
LEMMA ValueStep ==
  ASSUME StoreAssumption, WaitMayFail = FALSE, TypeInv, TypeInv', EndInv,
         ValueInv, StartInv, [Next]_vars
  PROVE  ValueInv'
<1>1. CASE UNCHANGED storeVars /\ (kvMem = "freed" => kvMem' = "freed")
  BY <1>1, OutsideValues
<1>2. CASE Put
  BY <1>2, RdmaPutValues DEF Put, ClientCall, endpointVars
<1>3. CASE Get
  BY <1>3, RdmaGetValues DEF Get, ClientCall, endpointVars
<1>4. ASSUME NEW fetched \in Outcomes(WaitMayFail), Completion(fetched)
      PROVE  ValueInv'
  BY <1>4, FetchValues DEF Completion, StoreStep, Outcomes, endpointVars
<1>5. CASE NicTransfer \/ NicComplete
  BY <1>5, TransferValues, CompleteValues
  DEF NicTransfer, NicComplete, StoreStep, endpointVars
<1>6. CASE SPut \/ SPutSecond
  BY <1>6, ServerPutValues, ServerWriteValues
  DEF SPut, SPutSecond, ServerCall, StoreStep, endpointVars
<1>7. CASE SGet \/ SGetSecond
  BY <1>7, ServerReadValues
  DEF SGet, SGetSecond, ServerCall, StoreStep, endpointVars
<1>8. CASE Setup
  <2>1. phase["server"] = "start" /\ kvMem' = "allocated" /\ FillRegion
    BY <1>8 DEF Setup, SetupKvStore, Go
  <2>2. kvMem = "none"
    BY <2>1 DEF EndInv, ServerEnd
  <2> QED BY <2>1, <2>2, FillValues
<1>9. CASE ClientHangUp \/ ClientFree
  BY <1>9, ReleaseValues
  DEF ClientHangUp, ClientFree, FreeConnection, FreeClient, FreeObjects
<1>10. CASE RegionReused
  BY <1>10, SpoilValues DEF RegionReused, StoreStep, endpointVars
<1>11. CASE \/ EndpointStep("client", ClientEndpoint)
            \/ EndpointStep("server", ServerEndpoint)
            \/ Network \/ UNCHANGED vars
  <2>1. UNCHANGED storeVars
    BY <1>11 DEF EndpointStep, Network, vars
  <2>2. CASE Network \/ UNCHANGED vars
    BY <1>1, <2>1, <2>2 DEF Network, LinkLost, vars, endpointVars
  <2>3. CASE ClientEndpoint
    BY <1>1, <2>1, <2>3
    DEF ClientEndpoint, ConnectSetup, ConnectRequest, ConnectEstablish, Disconnect
  <2>4. CASE ServerEndpoint
    BY <1>1, <2>1, <2>4
    DEF ServerEndpoint, HostServer, AcceptClient, Shutdown, Cleanup,
        TestCleanupEnc, FreeConnection, FreeServer, FreeObjects, FreeKvStore
  <2> QED BY <1>11, <2>2, <2>3, <2>4 DEF EndpointStep
<1> QED
  BY <1>2, <1>3, <1>4, <1>5, <1>6, <1>7, <1>8, <1>9, <1>10, <1>11 DEF Next

\* Hence it always holds.
LEMMA ValuesCorrect ==
  ASSUME WaitMayFail = FALSE
  PROVE  Spec => [](TypeInv /\ ValueInv)
<1> DEFINE Inv == TypeInv /\ EndInv /\ StartInv /\ ValueInv
<1>1. Init => Inv
  BY TypeInit, EndInit, ValueInit, StoreAssumption
<1>2. Inv /\ [Next]_vars => Inv'
  <2>1. SUFFICES ASSUME Inv, [Next]_vars PROVE Inv'
    OBVIOUS
  <2>2. TypeInv'
    BY <2>1, TypeStep, StoreAssumption
  <2>3. EndInv'
    BY <2>1, EndStep
  <2>4. StartInv'
    BY <2>1, StartStep
  <2>5. ValueInv'
    BY <2>1, <2>2, ValueStep, StoreAssumption
  <2> QED BY <2>2, <2>3, <2>4, <2>5
<1> QED BY <1>1, <1>2, PTL DEF Spec

\* When no call that waits for or fetches a completion fails, an encrypted get
\* returns the value of its own side's last successful put of the key (the
\* client's, before its first put, one the server wrote) or fails, whatever
\* failed puts left in the block and however the accesses overlapped.
THEOREM OwnPuts ==
  ASSUME WaitMayFail = FALSE
  PROVE  Spec => []GetReturnsOwnPut
<1>1. TypeInv /\ ValueInv => GetReturnsOwnPut
  <2>1. SUFFICES ASSUME TypeInv, ValueInv, encrypted,
                        NEW k \in Keys, NEW v \in 0 .. MaxPuts
        PROVE  /\ Got("server", k, v) => v = lastPut["server"][k]
               /\ Got("client", k, v) =>
                    IF lastPut["client"][k] # 0 THEN v = lastPut["client"][k]
                    ELSE v = 0 \/ log[v] = [by |-> "server", key |-> k]
    BY DEF GetReturnsOwnPut
  <2>2. v \in Nat
    BY StoreAssumption DEF StoreAssumption
  <2>3. Got("server", k, v) => v = lastPut["server"][k]
    BY <2>1, <2>2 DEF ValueInv, ServerGot
  <2>4. Got("client", k, v) =>
          IF lastPut["client"][k] # 0 THEN v = lastPut["client"][k]
          ELSE [key |-> k, val |-> v] \in ServerVals
    BY <2>1, <2>2 DEF ValueInv, ClientGot
  <2>5. [key |-> k, val |-> v] \in ServerVals =>
          v = 0 \/ log[v] = [by |-> "server", key |-> k]
    BY <2>2 DEF ServerVals
  <2> QED BY <2>3, <2>4, <2>5
<1> QED BY <1>1, ValuesCorrect, PTL

\* Under the same assumption a put that returned 0 has arrived: for a key the
\* server itself does not put, both parts of the block hold its entry, as long
\* as the server has not freed the region.
THEOREM PutsArrive ==
  ASSUME WaitMayFail = FALSE
  PROVE  Spec => []PutArrived
<1>1. TypeInv /\ ValueInv => PutArrived
  <2> DEFINE r == result["client"]
             e == [key |-> r.key, seq |-> seqNo["client"][r.key], val |-> r.val]
  <2>1. SUFFICES ASSUME TypeInv, ValueInv, r.op = "PUT", kvMem # "freed"
        PROVE  \/ \E i \in DOMAIN log : log[i] = [by |-> "server", key |-> r.key]
               \/ mem[r.key] = Whole(e)
    BY DEF PutArrived
  <2>2. /\ r.key \in Keys
        /\ r.key \in ServerKeys \/ \A i \in Parts : mem[r.key][i] = e
    BY <2>1 DEF ValueInv, ArrivedInv
  <2>3. CASE r.key \in ServerKeys
    BY <2>1, <2>3 DEF ServerKeys
  <2>4. CASE \A i \in Parts : mem[r.key][i] = e
    <3> HIDE DEF e
    <3>1. mem[r.key] \in Blocks
      BY <2>1, <2>2 DEF TypeInv, StoreTypeOK
    <3> QED BY <2>4, <3>1 DEF Blocks, Whole
  <2> QED BY <2>2, <2>3, <2>4
<1> QED BY <1>1, ValuesCorrect, PTL
===============================================================================
