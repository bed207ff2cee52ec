-------------------------- MODULE ClientServerCommon --------------------------
(***************************************************************************)
(* What the two-sided client and server share                              *)
(* (client_server_twosided/src/client_server_common.h): the seq_op word    *)
(* and its macros, the operations and the message formats.                 *)
(*                                                                         *)
(* A seq_op is a 64-bit word holding a 54-bit sequence number, an 8-bit    *)
(* client id and a 2-bit operation.  Here it is three separate fields; the *)
(* module SeqOpLayout checks that the bit macros act on the packed word as *)
(* the operators below act on the fields.  SeqMod is 2^54 in the code.     *)
(***************************************************************************)
EXTENDS Integers

CONSTANTS
  SeqMod,         \* sequence numbers are 0 .. SeqMod-1 (2^54 in the code)
  MaxPending,     \* MAX_PENDING_REQUESTS = MAX_ACCEPTED_RESPONSES (1024)
  SeqThreshold,   \* SEQ_THRESHOLD (64)
  InitSeqs,       \* the values RAND_bytes may give the first sequence number
  ClientId,       \* id of the client, and of the server thread serving it
  Ids,            \* all client ids that may occur in a message
  Keys,           \* keys of the KV-store
  AppOps,         \* bound: the operations the application uses
  MaxRequests,    \* bound: get/put/del calls the application makes
  MaxDestroyFails,\* bound: destroy_session calls that fail (0: none can)
  CryptoMayFail   \* may en- and decryption fail (allocation, OpenSSL error)?

NoKey == "no key"

(***************************************************************************)
(* 2^54 is a multiple of 2 * 1024: the ring of pending requests continues  *)
(* without a jump when the sequence number wraps.  NoKey, the null pointer *)
(* get, put and del reject, is not a key.                                  *)
(***************************************************************************)
ASSUME CommonAssumption ==
  /\ SeqMod \in Nat \ {0}
  /\ MaxPending \in Nat \ {0}
  /\ SeqMod % (2 * MaxPending) = 0
  /\ SeqThreshold \in Nat \ {0}
  /\ InitSeqs \subseteq 0 .. (SeqMod - 1)
  /\ ClientId \in Ids
  /\ AppOps \subseteq {"GET", "PUT", "DELETE"}
  /\ MaxRequests \in Nat
  /\ MaxDestroyFails \in Nat
  /\ CryptoMayFail \in BOOLEAN
  /\ NoKey \notin Keys

Seqs  == 0 .. (SeqMod - 1)
Slots == 0 .. (MaxPending - 1)

\* RDMA_GET, RDMA_PUT, RDMA_DELETE: what the application asks for.
KvOps == {"GET", "PUT", "DELETE"}
\* RDMA_ERR is the disconnect request, and the failure response.
Ops   == KvOps \cup {"ERR"}

(***************************************************************************)
(* The application numbers its calls: the number is the user_tag it passes *)
(* and, for a put, the value it stores, so that every put is recognisable. *)
(***************************************************************************)
Tags    == 1 .. MaxRequests
NoTag   == 0
Garbage == -1
Vals    == Tags \cup {NoTag}

(***************************************************************************)
(* Seeded fault: a NEXT_SEQ on an unbounded integer, with no wrap.         *)
(***************************************************************************)
NextSeqNoWrap(s) == s + 1

\* NEXT_SEQ and PREV_SEQ add and subtract 1 << 10 in 64-bit arithmetic.
NextSeq(s) == (s + 1) % SeqMod
PrevSeq(s) == (s - 1) % SeqMod

\* SEQ_FROM_SEQ_OP(a) - SEQ_FROM_SEQ_OP(b), cast to ssize_t: not modular.
AbsDiff(a, b) == IF a >= b THEN a - b ELSE b - a

\* encrypt_message and decrypt_message return 0, or -1 where they may fail.
CryptoOutcomes == IF CryptoMayFail THEN BOOLEAN ELSE {TRUE}

(***************************************************************************)
(* A decrypted request: header, key and value, and the call it comes from. *)
(***************************************************************************)
Requests == [id : Ids, seq : Seqs, op : Ops, key : Keys \cup {NoKey},
             val : Vals, tag : Vals]

(***************************************************************************)
(* A decrypted response: header and value (NoTag when there is none).      *)
(* Undecryptable stands for every response decrypt_message rejects.        *)
(***************************************************************************)
Responses     == [id : Ids, seq : Seqs, op : Ops, val : Vals]
Undecryptable == [garbled |-> TRUE]
===============================================================================
