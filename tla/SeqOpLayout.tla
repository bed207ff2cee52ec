------------------------------ MODULE SeqOpLayout -----------------------------
(***************************************************************************)
(* The packed seq_op word of client_server_common.h: the macros that shift *)
(* and mask one 64-bit unsigned integer,                                   *)
(*                                                                         *)
(*     | sequence number (54 bit) | id (8 bit) | op (2 bit) |              *)
(*                                                                         *)
(* and the three fields that the other modules use instead.  Masks and     *)
(* shifts by k bits are remainder and quotient by 2^k; the constants are   *)
(* the powers of two, not the numbers of bits.                             *)
(***************************************************************************)
EXTENDS Integers

CONSTANTS
  IdMod,     \* 2^8 in the code
  SeqMod     \* 2^54 in the code

OpMod   == 4                      \* RDMA_GET 0, RDMA_PUT 1, RDMA_DELETE 2, RDMA_ERR 3
LowMod  == OpMod * IdMod          \* 1 << 10
WordMod == LowMod * SeqMod        \* arithmetic on uint64_t is modulo this

\* The macros.
SEQ_FROM_SEQ_OP(w) == w \div LowMod
ID_FROM_SEQ_OP(w)  == (w % LowMod) \div OpMod
OP_FROM_SEQ_OP(w)  == w % OpMod
SEQ_PART(w)        == w - (w % LowMod)      \* w & SEQ_MASK
\* Seeded fault: the mask leaves out the id.
SEQ_ID_PART_NO_ID(w) == w - (w % LowMod)
SEQ_ID_PART(w)     == w - (w % OpMod)       \* w & (SEQ_MASK | ID_MASK)

\* Seeded fault: the increment is off by one bit of the sequence number.
NEXT_SEQ_SHORT(w) == (w + LowMod \div 2) % WordMod
NEXT_SEQ(w) == (w + LowMod) % WordMod
PREV_SEQ(w) == (w - LowMod) % WordMod
SET_OP(w, op) == SEQ_ID_PART(w) + op
SET_ID(w, id) == SEQ_PART(w) + id * OpMod

-------------------------------------------------------------------------------
Fields(w) == [seq |-> SEQ_FROM_SEQ_OP(w), id |-> ID_FROM_SEQ_OP(w),
              op |-> OP_FROM_SEQ_OP(w)]

IdRange == 0 .. (IdMod - 1)
OpRange == 0 .. (OpMod - 1)
Words   == 0 .. (WordMod - 1)

\* The word with these fields, made as PendingRequestQueue makes it: the number
\* from (the upper bits of) random bytes, then SET_ID, then SET_OP.
SeqOp(seq, id, op) == SET_OP(SET_ID(seq * LowMod, id), op)
===============================================================================
