------------------------------- MODULE MCClient -------------------------------
(***************************************************************************)
(* The client in an environment that answers anything, for TLC; and its    *)
(* sequence number as the packed word of the code.                         *)
(***************************************************************************)
EXTENDS Client

CONSTANT IdMod  \* ids of the seq_op word are 0 .. IdMod-1 (2^8 in the code)

ASSUME LayoutAssumption ==
  /\ IdMod \in Nat \ {0}
  /\ Ids \subseteq 0 .. (IdMod - 1)

Layout == INSTANCE SeqOpLayout

\* The words a request with the client's current number can be sent under.
CurrentWords ==
  {Layout!SeqOp(currentSeq, ClientId, op) : op \in Layout!OpRange}

-------------------------------------------------------------------------------
\* The macros act on the client's packed word as NextSeq and PrevSeq of
\* ClientServerCommon act on the sequence number alone: the number wraps on its
\* own and never spills into the id or the op, and setting the op or the id
\* changes nothing above it.
MacrosActOnFields ==
  \A w \in CurrentWords :
    LET f == Layout!Fields(w)
    IN  /\ f.seq = currentSeq
        /\ Layout!Fields(Layout!NEXT_SEQ(w)) = [f EXCEPT !.seq = NextSeq(@)]
        /\ Layout!Fields(Layout!PREV_SEQ(w)) = [f EXCEPT !.seq = PrevSeq(@)]
        /\ \A op \in Layout!OpRange :
             Layout!Fields(Layout!SET_OP(w, op)) = [f EXCEPT !.op = op]
        /\ \A id \in Layout!IdRange :
             Layout!Fields(Layout!SET_ID(w, id)) = [f EXCEPT !.id = id, !.op = 0]

\* Comparing the word of a response with the word of a request under
\* SEQ_MASK | ID_MASK, as decrypt_cont_func does, compares sequence number and
\* id whatever the op bits of either are: a response with op RDMA_ERR still
\* belongs to its request.
MaskedComparison ==
  \A w \in CurrentWords :
    LET expected == Layout!SEQ_ID_PART(Layout!NEXT_SEQ(w))
    IN  {r \in Layout!Words : Layout!SEQ_ID_PART(r) = expected}
          = {Layout!SeqOp(NextSeq(currentSeq), ClientId, op) :
               op \in Layout!OpRange}
===============================================================================
