----------------------------- MODULE SeqOpProofs ------------------------------
(***************************************************************************)
(* The seq_op macros act on the packed word as the other modules' operators*)
(* act on its fields, for every width of the id and of the sequence number *)
(* (8 and 54 bits in the code).                                            *)
(***************************************************************************)
EXTENDS MCClient, ClientProofs

Low  == Layout!LowMod
Word == Layout!WordMod

\* The word with sequence number s, id i and op o.
W(s, i, o) == Low * s + (4 * i + o)

-------------------------------------------------------------------------------
(***************************************************************************)
(* Quotients and remainders                                                *)
(***************************************************************************)
\* A number below the modulus is the remainder, what is above it the quotient.
LEMMA Split ==
  ASSUME NEW m \in Nat \ {0}, NEW a \in Int, NEW r \in 0 .. (m - 1)
  PROVE  (m * a + r) \div m = a /\ (m * a + r) % m = r
<1> PICK n : n = m * a + r
  OBVIOUS
<1>1. m * a \in Int /\ n \in Int
  OBVIOUS
<1>2. PICK q \in Int, s \in 0 .. (m - 1) :
        q = n \div m /\ s = n % m /\ n = m * q + s
  BY <1>1, DivMod
<1>3. m * a + r = m * q + s
  BY <1>2
<1>4. r = s
  BY <1>3, RemainderUnique
<1>5. m * a = m * q
  BY <1>1, <1>3, <1>4
<1>6. a = q
  <2>1. CASE a >= q + 1
    <3>1. m * a >= m * (q + 1) /\ m * (q + 1) = m * q + m
      BY <2>1
    <3> QED BY <1>5, <3>1
  <2>2. CASE q >= a + 1
    <3>1. m * q >= m * (a + 1) /\ m * (a + 1) = m * a + m
      BY <2>2
    <3> QED BY <1>5, <3>1
  <2> QED BY <2>1, <2>2
<1> QED BY <1>2, <1>4, <1>6

\* The moduli of the layout.
LEMMA Moduli ==
  /\ IdMod \in Nat \ {0} /\ SeqMod \in Nat \ {0}
  /\ Low \in Nat \ {0} /\ Low = 4 * IdMod
  /\ Word \in Nat \ {0} /\ Word = Low * SeqMod
  /\ Layout!OpMod = 4 /\ Layout!LowMod = Low /\ Layout!WordMod = Word
<1>1. IdMod \in Nat \ {0} /\ SeqMod \in Nat \ {0}
  BY CommonAssumption, LayoutAssumption
<1>2. Low = 4 * IdMod /\ Layout!OpMod = 4
  BY DEF Low, Layout!LowMod, Layout!OpMod
<1>3. Low \in Nat \ {0}
  BY <1>1, <1>2
<1>4. Word = Low * SeqMod
  BY DEF Word, Low, Layout!WordMod
<1>5. Word \in Nat \ {0}
  <2>1. PICK l \in Nat \ {0}, n \in Nat \ {0} : l = Low /\ n = SeqMod
    BY <1>1, <1>3
  <2>2. l * n >= l * 1
    BY <2>1
  <2>3. l * n \in Nat \ {0}
    BY <2>2
  <2> QED BY <1>4, <2>1, <2>3
<1> QED BY <1>1, <1>2, <1>3, <1>4, <1>5 DEF Low, Word

\* Id and op fit below the sequence number.
LEMMA LowPart ==
  ASSUME NEW i \in 0 .. (IdMod - 1), NEW o \in 0 .. 3
  PROVE  4 * i + o \in 0 .. (Low - 1)
BY Moduli

-------------------------------------------------------------------------------
(***************************************************************************)
(* The macros on the word with given fields                                *)
(***************************************************************************)
\* The masks and shifts of the macros give the fields back.
LEMMA FieldsOfWord ==
  ASSUME NEW s \in Nat, NEW i \in 0 .. (IdMod - 1), NEW o \in 0 .. 3
  PROVE  /\ Layout!Fields(W(s, i, o)) = [seq |-> s, id |-> i, op |-> o]
         /\ Layout!SEQ_PART(W(s, i, o)) = Low * s
         /\ Layout!SEQ_ID_PART(W(s, i, o)) = Low * s + 4 * i
<1> PICK w, l : w = W(s, i, o) /\ l = 4 * i + o
  OBVIOUS
<1>1. l \in 0 .. (Low - 1) /\ w = Low * s + l
  BY LowPart DEF W
<1>2. w \div Low = s /\ w % Low = l
  BY <1>1, Moduli, Split
<1>3. l \div 4 = i
  OBVIOUS
<1>4. w % 4 = o
  <2>1. Low * s = 4 * (IdMod * s) /\ IdMod * s \in Int
    BY Moduli
  <2>2. PICK k \in Int : k = IdMod * s
    BY <2>1
  <2>3. w = 4 * (k + i) + o
    BY <1>1, <2>1, <2>2
  <2> QED BY <2>3
<1>5. Low * s \in Int /\ w \in Int
  BY <1>1, Moduli
<1>6. Layout!Fields(w) = [seq |-> s, id |-> i, op |-> o]
  BY <1>2, <1>3, <1>4, Moduli
     DEF Layout!Fields, Layout!SEQ_FROM_SEQ_OP, Layout!ID_FROM_SEQ_OP,
         Layout!OP_FROM_SEQ_OP
<1>7. Layout!SEQ_PART(w) = Low * s
  BY <1>1, <1>2, <1>5, Moduli DEF Layout!SEQ_PART
<1>8. Layout!SEQ_ID_PART(w) = Low * s + 4 * i
  BY <1>1, <1>4, <1>5, Moduli DEF Layout!SEQ_ID_PART
<1> QED BY <1>6, <1>7, <1>8

\* SET_OP and SET_ID put their field in place, SET_ID clears the op.
LEMMA SettersOfWord ==
  ASSUME NEW s \in Nat, NEW i \in 0 .. (IdMod - 1), NEW o \in 0 .. 3,
         NEW j \in 0 .. (IdMod - 1), NEW p \in 0 .. 3
  PROVE  /\ Layout!SET_OP(W(s, i, o), p) = W(s, i, p)
         /\ Layout!SET_ID(W(s, i, o), j) = W(s, j, 0)
<1>1. Low * s \in Int
  BY Moduli
<1>2. Layout!SET_OP(W(s, i, o), p) = W(s, i, p)
  <2>1. Layout!SET_OP(W(s, i, o), p) = (Low * s + 4 * i) + p
    BY FieldsOfWord DEF Layout!SET_OP
  <2> QED BY <1>1, <2>1 DEF W
<1>3. Layout!SET_ID(W(s, i, o), j) = W(s, j, 0)
  <2>1. Layout!SET_ID(W(s, i, o), j) = Low * s + j * 4
    BY FieldsOfWord, Moduli DEF Layout!SET_ID
  <2> QED BY <1>1, <2>1 DEF W
<1> QED BY <1>2, <1>3

\* So the word PendingRequestQueue makes has the fields it is made from.
LEMMA SeqOpIsWord ==
  ASSUME NEW s \in Nat, NEW i \in 0 .. (IdMod - 1), NEW o \in 0 .. 3
  PROVE  Layout!SeqOp(s, i, o) = W(s, i, o)
<1>1. 0 \in 0 .. (IdMod - 1) /\ 0 \in 0 .. 3
  BY Moduli
<1>2. s * Low = W(s, 0, 0)
  BY Moduli DEF W
<1>3. PICK z \in 0 .. 3, y \in 0 .. (IdMod - 1) : z = 0 /\ y = 0
  BY <1>1
<1>4. Layout!SET_ID(W(s, y, z), i) = W(s, i, 0)
  BY SettersOfWord
<1>5. Layout!SET_OP(W(s, i, z), o) = W(s, i, o)
  BY SettersOfWord
<1> QED BY <1>2, <1>3, <1>4, <1>5, Moduli DEF Layout!SeqOp

\* A word with a 54-bit number fits in 64 bits.
LEMMA WordFits ==
  ASSUME NEW s \in Seqs, NEW i \in 0 .. (IdMod - 1), NEW o \in 0 .. 3
  PROVE  W(s, i, o) \in 0 .. (Word - 1)
<1>1. PICK l \in 0 .. (Low - 1) : l = 4 * i + o
  BY LowPart
<1>2. PICK L \in Nat \ {0}, n \in Nat \ {0} : L = Low /\ n = SeqMod
  BY Moduli
<1>3. s \in Nat /\ s + 1 <= n
  BY <1>2 DEF Seqs
<1>4. L * (s + 1) <= L * n /\ L * (s + 1) = L * s + L /\ L * s >= 0
  BY <1>2, <1>3
<1>5. L * s \in Int /\ L * n \in Int
  BY <1>2, <1>3
<1>6. L * s + l \in 0 .. (L * n - 1)
  BY <1>1, <1>2, <1>4, <1>5
<1> QED BY <1>1, <1>2, <1>6, Moduli DEF W

\* NEXT_SEQ and PREV_SEQ in 64-bit arithmetic change the number only, modulo
\* its own range.
LEMMA StepsOfWord ==
  ASSUME NEW s \in Seqs, NEW i \in 0 .. (IdMod - 1), NEW o \in 0 .. 3
  PROVE  /\ Layout!NEXT_SEQ(W(s, i, o)) = W(NextSeq(s), i, o)
         /\ Layout!PREV_SEQ(W(s, i, o)) = W(PrevSeq(s), i, o)
<1>1. PICK l \in 0 .. (Low - 1) : l = 4 * i + o
  BY LowPart
<1>2. PICK L \in Nat \ {0}, n \in Nat \ {0}, N \in Nat \ {0} :
        L = Low /\ n = SeqMod /\ N = Word /\ N = L * n
  BY Moduli
<1>3. s \in Nat /\ s < n
  BY <1>2 DEF Seqs
<1>4. \A t \in Seqs : W(t, i, o) = L * t + l /\ W(t, i, o) \in 0 .. (N - 1)
  BY <1>1, <1>2, WordFits DEF W
<1>5. L * s \in Int /\ l \in Int
  BY <1>1, <1>2, <1>3
<1>6. \A a \in 0 .. (N - 1), k \in Int : (a + N * k) % N = a
  <2> SUFFICES ASSUME NEW a \in 0 .. (N - 1), NEW k \in Int
               PROVE  (a + N * k) % N = a
    OBVIOUS
  <2>1. (N * k + a) % N = a
    BY <1>2, Split
  <2> QED BY <2>1
<1>7. Layout!NEXT_SEQ(W(s, i, o)) = W(NextSeq(s), i, o)
  <2>1. NextSeq(s) \in Seqs
    BY <1>2, <1>3 DEF NextSeq, Seqs
  <2>2. PICK t \in Seqs : t = NextSeq(s)
    BY <2>1
  <2>3. \E k \in Int : L * s + l + L = (L * t + l) + N * k
    <3>1. CASE s + 1 < n
      <4>1. t = s + 1
        BY <1>2, <1>3, <2>2, <3>1 DEF NextSeq
      <4>2. L * t = L * s + L /\ N * 0 = 0
        BY <1>2, <1>3, <4>1
      <4>3. L * s + l + L = (L * t + l) + N * 0
        BY <1>2, <1>5, <4>2
      <4> QED BY <4>3
    <3>2. CASE s + 1 = n
      <4>1. t = 0
        BY <1>2, <1>3, <2>2, <3>2 DEF NextSeq
      <4>2. L * t = 0 /\ N = L * s + L /\ N * 1 = N
        BY <1>2, <1>3, <3>2, <4>1
      <4>3. L * s + l + L = (L * t + l) + N * 1
        BY <1>2, <1>5, <4>2
      <4>4. PICK k \in Int : k = 1
        OBVIOUS
      <4> QED BY <4>3, <4>4
    <3> QED BY <1>2, <1>3, <3>1, <3>2
  <2>4. L * s + l + L = W(s, i, o) + Low
    BY <1>2, <1>4
  <2>5. (L * s + l + L) % N = L * t + l
    BY <1>4, <1>6, <2>3
  <2> QED BY <1>2, <1>4, <2>2, <2>4, <2>5, Moduli DEF Layout!NEXT_SEQ
<1>8. Layout!PREV_SEQ(W(s, i, o)) = W(PrevSeq(s), i, o)
  <2>1. PrevSeq(s) \in Seqs
    BY <1>2, <1>3 DEF PrevSeq, Seqs
  <2>2. PICK t \in Seqs : t = PrevSeq(s)
    BY <2>1
  <2>3. \E k \in Int : L * s + l - L = (L * t + l) + N * k
    <3>1. CASE s >= 1
      <4>1. t = s - 1
        BY <1>2, <1>3, <2>2, <3>1 DEF PrevSeq
      <4>2. L * t = L * s - L /\ N * 0 = 0
        BY <1>2, <1>3, <4>1
      <4>3. L * s + l - L = (L * t + l) + N * 0
        BY <1>2, <1>5, <4>2
      <4>4. PICK k \in Int : k = 0
        OBVIOUS
      <4> QED BY <4>3, <4>4
    <3>2. CASE s = 0
      <4>1. t = n - 1
        BY <1>2, <1>3, <2>2, <3>2 DEF PrevSeq
      <4>2. L * t = N - L /\ L * s = 0 /\ N * (-1) = -N
        BY <1>2, <1>3, <3>2, <4>1
      <4>3. L * s + l - L = (L * t + l) + N * (-1)
        BY <1>2, <1>5, <4>2
      <4> QED BY <4>3
    <3> QED BY <1>3, <3>1, <3>2
  <2>4. L * s + l - L = W(s, i, o) - Low
    BY <1>2, <1>3, <1>4 DEF Seqs
  <2>5. (L * s + l - L) % N = L * t + l
    BY <1>4, <1>6, <2>3
  <2> QED BY <1>2, <1>4, <2>2, <2>4, <2>5, Moduli DEF Layout!PREV_SEQ
<1> QED BY <1>7, <1>8

\* Every 64-bit word has fields, and number and id are what the masked
\* comparison compares.
LEMMA WordsHaveFields ==
  ASSUME NEW r \in 0 .. (Word - 1)
  PROVE  \E s \in Seqs, i \in 0 .. (IdMod - 1), o \in 0 .. 3 : r = W(s, i, o)
<1>1. PICK L \in Nat \ {0}, n \in Nat \ {0} :
        L = Low /\ n = SeqMod /\ Word = L * n /\ L = 4 * IdMod
  BY Moduli
<1>2. r \in Int /\ 0 <= r /\ r < L * n
  BY <1>1, Moduli
<1>3. PICK s \in Int, l \in 0 .. (L - 1) : r = L * s + l
  <2>1. /\ r \div L \in Int /\ r % L \in 0 .. (L - 1)
        /\ r = L * (r \div L) + (r % L)
    BY <1>2, DivMod
  <2> QED BY <2>1, Zenon
<1>4. s >= 0
  <2>1. CASE s <= -1
    <3>1. L * s <= L * (-1) /\ L * (-1) = -L
      BY <1>1, <2>1
    <3> QED BY <1>2, <1>3, <3>1
  <2> QED BY <2>1
<1>5. s < n
  <2>1. CASE s >= n
    <3>1. L * s >= L * n
      BY <1>1, <2>1
    <3> QED BY <1>2, <1>3, <3>1
  <2> QED BY <1>1, <2>1
<1>6. s \in Seqs
  BY <1>1, <1>4, <1>5 DEF Seqs
<1>7. PICK i \in Int, o \in 0 .. 3 : l = 4 * i + o
  <2>1. /\ l \div 4 \in Int /\ l % 4 \in 0 .. 3
        /\ l = 4 * (l \div 4) + (l % 4)
    BY <1>1
  <2> QED BY <2>1
<1>8. i \in 0 .. (IdMod - 1)
  BY <1>1, <1>7, Moduli
<1>9. r = W(s, i, o)
  BY <1>1, <1>3, <1>7 DEF W
<1> QED BY <1>6, <1>8, <1>9

-------------------------------------------------------------------------------
(***************************************************************************)
(* The words the client sends                                              *)
(***************************************************************************)
\* The client's word has its number and its id as fields.
LEMMA CurrentWordFields ==
  ASSUME currentSeq \in Seqs, NEW w \in CurrentWords
  PROVE  \E o \in 0 .. 3 : w = W(currentSeq, ClientId, o)
<1>1. ClientId \in 0 .. (IdMod - 1) /\ currentSeq \in Nat
  BY CommonAssumption, LayoutAssumption DEF Seqs
<1>2. Layout!OpRange = 0 .. 3
  BY DEF Layout!OpRange, Layout!OpMod
<1> QED BY <1>1, <1>2, SeqOpIsWord DEF CurrentWords

\* Incrementing the packed word wraps the sequence number on its own and never
\* spills into the id or the op, and SET_OP and SET_ID change nothing above
\* their field: the three separate fields of the other modules are faithful.
THEOREM MacrosTheorem == ClientSpec => []MacrosActOnFields
<1>1. TypeOK => MacrosActOnFields
  <2> SUFFICES ASSUME TypeOK, NEW w \in CurrentWords
               PROVE  LET f == Layout!Fields(w)
                      IN  /\ f.seq = currentSeq
                          /\ Layout!Fields(Layout!NEXT_SEQ(w))
                               = [f EXCEPT !.seq = NextSeq(@)]
                          /\ Layout!Fields(Layout!PREV_SEQ(w))
                               = [f EXCEPT !.seq = PrevSeq(@)]
                          /\ \A op \in Layout!OpRange :
                               Layout!Fields(Layout!SET_OP(w, op))
                                 = [f EXCEPT !.op = op]
                          /\ \A id \in Layout!IdRange :
                               Layout!Fields(Layout!SET_ID(w, id))
                                 = [f EXCEPT !.id = id, !.op = 0]
    BY DEF MacrosActOnFields
  <2>1. PICK s, i : s = currentSeq /\ i = ClientId
    OBVIOUS
  <2>2. /\ s \in Seqs /\ s \in Nat /\ i \in 0 .. (IdMod - 1)
        /\ NextSeq(s) \in Nat /\ PrevSeq(s) \in Nat
    BY <2>1, CommonAssumption, LayoutAssumption DEF TypeOK, Seqs, NextSeq, PrevSeq
  <2>3. PICK o \in 0 .. 3 : w = W(s, i, o)
    BY <2>1, CurrentWordFields DEF TypeOK
  <2>4. Layout!Fields(w) = [seq |-> s, id |-> i, op |-> o]
    BY <2>2, <2>3, FieldsOfWord
  <2>5. Layout!Fields(Layout!NEXT_SEQ(w))
          = [seq |-> NextSeq(s), id |-> i, op |-> o]
    BY <2>2, <2>3, StepsOfWord, FieldsOfWord
  <2>6. Layout!Fields(Layout!PREV_SEQ(w))
          = [seq |-> PrevSeq(s), id |-> i, op |-> o]
    BY <2>2, <2>3, StepsOfWord, FieldsOfWord
  <2>7. ASSUME NEW op \in 0 .. 3
        PROVE  Layout!Fields(Layout!SET_OP(w, op))
                 = [seq |-> s, id |-> i, op |-> op]
    BY <2>2, <2>3, SettersOfWord, FieldsOfWord
  <2>8. ASSUME NEW id \in 0 .. (IdMod - 1)
        PROVE  Layout!Fields(Layout!SET_ID(w, id))
                 = [seq |-> s, id |-> id, op |-> 0]
    <3>1. Layout!SET_ID(w, id) = W(s, id, 0)
      BY <2>2, <2>3, SettersOfWord
    <3>2. PICK z \in 0 .. 3 : z = 0
      OBVIOUS
    <3>3. Layout!Fields(W(s, id, z)) = [seq |-> s, id |-> id, op |-> z]
      BY <2>2, FieldsOfWord
    <3> QED BY <3>1, <3>2, <3>3
  <2>9. Layout!OpRange = 0 .. 3 /\ Layout!IdRange = 0 .. (IdMod - 1)
    BY DEF Layout!OpRange, Layout!OpMod, Layout!IdRange
  <2>10. PICK f : f = Layout!Fields(w)
    OBVIOUS
  <2>11. /\ f.seq = s
         /\ [f EXCEPT !.seq = NextSeq(@)]
              = [seq |-> NextSeq(s), id |-> i, op |-> o]
         /\ [f EXCEPT !.seq = PrevSeq(@)]
              = [seq |-> PrevSeq(s), id |-> i, op |-> o]
    BY <2>4, <2>10
  <2>12. \A op : [f EXCEPT !.op = op] = [seq |-> s, id |-> i, op |-> op]
    BY <2>4, <2>10
  <2>13. \A id : [f EXCEPT !.id = id, !.op = 0]
                   = [seq |-> s, id |-> id, op |-> 0]
    <3>1. ASSUME NEW id
          PROVE  [f EXCEPT !.id = id] = [seq |-> s, id |-> id, op |-> o]
      BY <2>4, <2>10
    <3>2. ASSUME NEW id, NEW g, g = [seq |-> s, id |-> id, op |-> o]
          PROVE  [g EXCEPT !.op = 0] = [seq |-> s, id |-> id, op |-> 0]
      BY <3>2
    <3> QED BY <3>1, <3>2
  <2> QED
    BY <2>1, <2>5, <2>6, <2>7, <2>8, <2>9, <2>10, <2>11, <2>12, <2>13
<1> QED BY <1>1, TypeCorrect, PTL

\* Comparing a response's word with the expected one under SEQ_MASK | ID_MASK
\* is comparing sequence number and id, for all words and whatever the op bits.
THEOREM MaskTheorem == ClientSpec => []MaskedComparison
<1>1. TypeOK => MaskedComparison
  <2> SUFFICES ASSUME TypeOK, NEW w \in CurrentWords
               PROVE  {r \in Layout!Words : Layout!SEQ_ID_PART(r)
                          = Layout!SEQ_ID_PART(Layout!NEXT_SEQ(w))}
                        = {Layout!SeqOp(NextSeq(currentSeq), ClientId, op) :
                             op \in Layout!OpRange}
    BY DEF MaskedComparison
  <2>1. PICK s, i : s = NextSeq(currentSeq) /\ i = ClientId
    OBVIOUS
  <2>2. /\ s \in Seqs /\ s \in Nat /\ i \in 0 .. (IdMod - 1)
        /\ currentSeq \in Seqs
    BY <2>1, CommonAssumption, LayoutAssumption DEF TypeOK, Seqs, NextSeq
  <2>3. PICK c \in 0 .. 3 : w = W(currentSeq, i, c)
    BY <2>1, <2>2, CurrentWordFields
  <2>4. Layout!SEQ_ID_PART(Layout!NEXT_SEQ(w)) = Low * s + 4 * i
    BY <2>1, <2>2, <2>3, StepsOfWord, FieldsOfWord
  <2>5. Layout!OpRange = 0 .. 3 /\ Layout!Words = 0 .. (Word - 1)
    BY DEF Layout!OpRange, Layout!OpMod, Layout!Words, Word
  <2>6. \A op \in 0 .. 3 : Layout!SeqOp(s, i, op) = W(s, i, op)
    BY <2>2, SeqOpIsWord
  <2>7. ASSUME NEW op \in 0 .. 3
        PROVE  /\ W(s, i, op) \in 0 .. (Word - 1)
               /\ Layout!SEQ_ID_PART(W(s, i, op)) = Low * s + 4 * i
    BY <2>2, WordFits, FieldsOfWord
  <2>8. ASSUME NEW r \in 0 .. (Word - 1),
               Layout!SEQ_ID_PART(r) = Low * s + 4 * i
        PROVE  \E op \in 0 .. 3 : r = W(s, i, op)
    <3>1. PICK t \in Seqs, j \in 0 .. (IdMod - 1), o \in 0 .. 3 : r = W(t, j, o)
      BY WordsHaveFields
    <3>2. t \in Nat
      BY Moduli DEF Seqs
    <3>3. Low * t + 4 * j = Low * s + 4 * i
      BY <2>8, <3>1, <3>2, FieldsOfWord
    <3>4. PICK x \in 0 .. (Low - 1), y \in 0 .. (Low - 1) : x = 4 * j /\ y = 4 * i
      BY <2>2, Moduli
    <3>5. /\ (Low * t + x) \div Low = t /\ (Low * t + x) % Low = x
          /\ (Low * s + y) \div Low = s /\ (Low * s + y) % Low = y
      BY <2>2, <3>2, Moduli, Split
    <3>6. t = s /\ x = y
      BY <3>3, <3>4, <3>5
    <3>7. j = i
      BY <2>2, <3>4, <3>6
    <3> QED BY <3>1, <3>6, <3>7
  <2> QED BY <2>1, <2>4, <2>5, <2>6, <2>7, <2>8
<1> QED BY <1>1, TypeCorrect, PTL
===============================================================================
