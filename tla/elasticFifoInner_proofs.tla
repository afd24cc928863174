----------------------- MODULE elasticFifoInner_proofs -----------------------
(***************************************************************************)
(* The ring buffer and the two FIFOs around it, for every depth and every   *)
(* set of data words: the indices and flags are right, and what is stored   *)
(* is a queue.                                                              *)
(***************************************************************************)
EXTENDS elasticFifoInner, SequenceTheorems, TLAPS

\* An index is incremented inside the memory and wraps at its end.
LEMMA NextWraps ==
  ASSUME NEW i \in Slot
  PROVE  next(i) = IF i = FIFO_DEPTH - 1 THEN 0 ELSE i + 1
<1>1. CASE i = FIFO_DEPTH - 1
      BY <1>1, DepthAssumption, SMT DEF next, Slot
<1>2. CASE i # FIFO_DEPTH - 1
      BY <1>2, DepthAssumption, SMT DEF next, Slot
<1> QED BY <1>1, <1>2

\* Advancing an index keeps it inside the memory.
LEMMA NextInSlot == \A i \in Slot : next(i) \in Slot
BY NextWraps, DepthAssumption DEF Slot

\* The registers of the ring, without the observed wires.
RegsOK ==
  /\ Memory \in [Slot -> Data]
  /\ Head_ \in Slot /\ Tail_ \in Slot
  /\ Full \in BOOLEAN /\ Empty \in BOOLEAN
  /\ FlagsAgree

\* Reset leaves an empty ring.
LEMMA ResetRegs == Reset => RegsOK
<1>1. 0 \in Slot
      BY DepthAssumption DEF Slot
<1> QED BY <1>1 DEF Reset, RegsOK, FlagsAgree

\* A clock edge keeps every register in its type and the flags in agreement
\* with the indices, by cases of what is written and read in it.
LEMMA ClockKeepsRegs ==
  ASSUME RegsOK,
         NEW pValid \in BOOLEAN, NEW nReady \in BOOLEAN, NEW dataIn \in Data,
         Clock(pValid, dataIn, nReady)
  PROVE  RegsOK'
<1> DEFINE write == WriteEn(pValid, nReady)
           read  == ReadEn(nReady)
<1>1. /\ Memory' = IF write THEN [Memory EXCEPT ![Tail_] = dataIn] ELSE Memory
      /\ Tail_' = IF write THEN next(Tail_) ELSE Tail_
      /\ Head_' = IF read THEN next(Head_) ELSE Head_
      /\ Full' = ((Full /\ ~(read /\ ~write))
                   \/ (write /\ ~read /\ next(Tail_) = Head_))
      /\ Empty' = ((Empty /\ ~(write /\ ~read))
                    \/ (read /\ ~write /\ next(Head_) = Tail_))
      BY DEF Clock, TailUpdate_proc, HeadUpdate_proc, FullUpdate_proc,
         EmptyUpdate_proc, fifo_proc
<1>2. Memory' \in [Slot -> Data]
      BY <1>1 DEF RegsOK
<1>3. Head_' \in Slot /\ Tail_' \in Slot
      BY <1>1, NextInSlot DEF RegsOK
<1>4. Full' \in BOOLEAN /\ Empty' \in BOOLEAN
      BY <1>1 DEF RegsOK
<1>5. FlagsAgree'
  <2>1. (read => ~Empty) /\ (write /\ ~read => ~Full)
        BY DEF WriteEn, ReadEn, RegsOK, FlagsAgree
  <2>2. /\ next(Head_) = next(Tail_) <=> Head_ = Tail_
        /\ next(Tail_) = Head_ /\ Head_ = Tail_ => next(Head_) = Tail_
        BY NextWraps DEF RegsOK, Slot
  <2> HIDE DEF write, read
  <2>3. CASE write /\ read
        BY <2>3, <1>1, <2>1, <2>2 DEF RegsOK, FlagsAgree
  <2>4. CASE write /\ ~read
        BY <2>4, <1>1, <2>1, <2>2 DEF RegsOK, FlagsAgree
  <2>5. CASE ~write /\ read
        BY <2>5, <1>1, <2>1, <2>2 DEF RegsOK, FlagsAgree
  <2>6. CASE ~write /\ ~read
        BY <2>6, <1>1, <2>1, <2>2 DEF RegsOK, FlagsAgree
  <2> QED BY <2>3, <2>4, <2>5, <2>6
<1> QED BY <1>2, <1>3, <1>4, <1>5 DEF RegsOK

\* In every reachable state of the ring, its registers are as they should be
\* and the observed wires have their types.
LEMMA SpecRegs == Spec => [](RegsOK /\ edge \in EdgeType)
<1>1. Init => RegsOK /\ edge \in EdgeType
  <2>1. Idle \in EdgeType
        BY DEF Idle, EdgeType, Token
  <2> QED BY <2>1, ResetRegs DEF Init
<1>2. RegsOK /\ edge \in EdgeType /\ [Next]_vars => (RegsOK /\ edge \in EdgeType)'
  <2> SUFFICES ASSUME RegsOK, edge \in EdgeType, [Next]_vars
               PROVE  RegsOK' /\ edge' \in EdgeType
      OBVIOUS
  <2>1. CASE UNCHANGED vars
        BY <2>1 DEF vars, RegsOK, FlagsAgree
  <2>2. ASSUME NEW pValid \in BOOLEAN, NEW nReady \in BOOLEAN, NEW dataIn \in Data,
               Cycle(pValid, dataIn, nReady)
        PROVE  RegsOK' /\ edge' \in EdgeType
    <3>1. RegsOK'
          BY <2>2, ClockKeepsRegs DEF Cycle
    <3>2. dataOut \in Data
          BY DEF RegsOK, dataOut
    <3>3. edge' \in EdgeType
          BY <2>2, <3>2 DEF RegsOK, Cycle, EdgeType, Token, Offer, ready, valid
    <3> QED BY <3>1, <3>3
  <2> QED BY <2>1, <2>2 DEF Next
<1> QED BY <1>1, <1>2, PTL DEF Spec

\* The indices of the ring stay inside its memory, and every register and
\* observed wire has its type.
THEOREM TypeCorrect == Spec => []TypeOK
<1>1. RegsOK /\ edge \in EdgeType => TypeOK
      BY DEF RegsOK, TypeOK
<1> QED BY <1>1, SpecRegs, PTL

\* Full and Empty are never set together, and one of them is set exactly when
\* the indices meet: also when a full ring is written while it is read, and in
\* a ring of depth one.
THEOREM FlagsCorrect == Spec => []FlagsAgree
<1>1. RegsOK => FlagsAgree
      BY DEF RegsOK
<1> QED BY <1>1, SpecRegs, PTL
------------------------------------------------------------------------------
\* How the ring computes indices: below twice its depth, wrapping is a
\* subtraction.
LEMMA IndexWraps ==
  ASSUME NEW a \in Nat, a < 2 * FIFO_DEPTH
  PROVE  a % FIFO_DEPTH = IF a < FIFO_DEPTH THEN a ELSE a - FIFO_DEPTH
<1>1. CASE a < FIFO_DEPTH
      BY <1>1, DepthAssumption, SMT
<1>2. CASE ~(a < FIFO_DEPTH)
      BY <1>2, DepthAssumption, SMT
<1> QED BY <1>1, <1>2

\* The i-th of the words from index h on, and the n words from there.
place(h, i) == IF h + i - 1 < FIFO_DEPTH THEN h + i - 1 ELSE h + i - 1 - FIFO_DEPTH
held(M, h, n) == [i \in 1 .. n |-> M[(h + i - 1) % FIFO_DEPTH]]

\* The words between two indices of the ring are a sequence, also across the
\* end of the memory.
LEMMA HeldWords ==
  ASSUME NEW M \in [Slot -> Data], NEW h \in Slot, NEW n \in 0 .. FIFO_DEPTH
  PROVE  /\ held(M, h, n) \in Seq(Data)
         /\ Len(held(M, h, n)) = n
         /\ \A i \in 1 .. n : /\ place(h, i) \in Slot
                              /\ held(M, h, n)[i] = M[place(h, i)]
<1>1. \A i \in 1 .. n : (h + i - 1) % FIFO_DEPTH = place(h, i)
  <2> TAKE i \in 1 .. n
  <2> DEFINE a == h + i - 1
  <2>1. a \in Nat /\ a < 2 * FIFO_DEPTH
        BY DepthAssumption DEF Slot
  <2> HIDE DEF a
  <2>2. a % FIFO_DEPTH = IF a < FIFO_DEPTH THEN a ELSE a - FIFO_DEPTH
        BY <2>1, IndexWraps
  <2> QED BY <2>2, DepthAssumption DEF place, a, Slot
<1>2. \A i \in 1 .. n : place(h, i) \in Slot
      BY DepthAssumption DEF place, Slot
<1>3. \A i \in 1 .. n : held(M, h, n)[i] = M[place(h, i)]
      BY <1>1 DEF held
<1>4. held(M, h, n) \in [1 .. n -> Data]
      BY <1>1, <1>2 DEF held
<1>5. n \in Nat
      BY DepthAssumption
<1>6. held(M, h, n) \in Seq(Data) /\ Len(held(M, h, n)) = n
      BY <1>4, <1>5
<1> QED BY <1>2, <1>3, <1>6

\* Writing behind the held words appends one.
LEMMA WriteAppends ==
  ASSUME NEW M \in [Slot -> Data], NEW h \in Slot, NEW n \in 0 .. FIFO_DEPTH - 1,
         NEW d \in Data
  PROVE  held([M EXCEPT ![place(h, n + 1)] = d], h, n + 1) = Append(held(M, h, n), d)
<1> DEFINE W == [M EXCEPT ![place(h, n + 1)] = d]
           s == held(M, h, n)
           t == held(W, h, n + 1)
<1>1. W \in [Slot -> Data]
      OBVIOUS
<1>2. n \in 0 .. FIFO_DEPTH /\ n + 1 \in 0 .. FIFO_DEPTH
      BY DepthAssumption
<1>3. /\ s \in Seq(Data) /\ Len(s) = n
      /\ \A i \in 1 .. n : place(h, i) \in Slot /\ s[i] = M[place(h, i)]
      BY <1>2, HeldWords
<1>4. /\ t \in Seq(Data) /\ Len(t) = n + 1
      /\ \A i \in 1 .. n + 1 : place(h, i) \in Slot /\ t[i] = W[place(h, i)]
      BY <1>1, <1>2, HeldWords
<1>5. \A i \in 1 .. n : place(h, i) # place(h, n + 1)
      BY DepthAssumption DEF place, Slot
<1>6. /\ Append(s, d) \in Seq(Data) /\ Len(Append(s, d)) = n + 1
      /\ \A i \in 1 .. n : Append(s, d)[i] = s[i]
      /\ Append(s, d)[n + 1] = d
      BY <1>3, AppendProperties
<1>7. \A i \in 1 .. n + 1 : t[i] = Append(s, d)[i]
  <2> SUFFICES ASSUME NEW i \in 1 .. n + 1 PROVE t[i] = Append(s, d)[i]
      OBVIOUS
  <2>1. CASE i = n + 1
        BY <2>1, <1>4, <1>6
  <2>2. CASE i # n + 1
    <3>1. i \in 1 .. n
          BY <2>2, DepthAssumption
    <3> QED BY <3>1, <1>3, <1>4, <1>5, <1>6
  <2> QED BY <2>1, <2>2
<1> HIDE DEF s, t
<1> QED BY <1>4, <1>6, <1>7, SeqEqual DEF s, t

\* Advancing the read index drops the first of the held words.
LEMMA ReadDrops ==
  ASSUME NEW M \in [Slot -> Data], NEW h \in Slot, NEW n \in 1 .. FIFO_DEPTH
  PROVE  /\ held(M, next(h), n - 1) = Tail(held(M, h, n))
         /\ held(M, h, n) # <<>>
         /\ Head(held(M, h, n)) = M[h]
<1> DEFINE s == held(M, h, n)
           t == held(M, next(h), n - 1)
<1>1. n \in 0 .. FIFO_DEPTH /\ n - 1 \in 0 .. FIFO_DEPTH /\ next(h) \in Slot
      BY DepthAssumption, NextInSlot
<1>2. /\ s \in Seq(Data) /\ Len(s) = n
      /\ \A i \in 1 .. n : place(h, i) \in Slot /\ s[i] = M[place(h, i)]
      BY <1>1, HeldWords
<1>3. /\ t \in Seq(Data) /\ Len(t) = n - 1
      /\ \A i \in 1 .. n - 1 : t[i] = M[place(next(h), i)]
      BY <1>1, HeldWords
<1>4. \A i \in 1 .. n - 1 : place(next(h), i) = place(h, i + 1)
  <2>1. next(h) = IF h = FIFO_DEPTH - 1 THEN 0 ELSE h + 1
        BY NextWraps
  <2> QED BY <2>1, DepthAssumption DEF place, Slot
<1>5. s # <<>> /\ Head(s) = s[1]
      BY <1>2
<1>6. /\ Tail(s) \in Seq(Data) /\ Len(Tail(s)) = n - 1
      /\ \A i \in 1 .. n - 1 : Tail(s)[i] = s[i + 1]
      BY <1>2, <1>5, HeadTailProperties
<1>7. \A i \in 1 .. n - 1 : t[i] = Tail(s)[i]
  <2> SUFFICES ASSUME NEW i \in 1 .. n - 1 PROVE t[i] = Tail(s)[i]
      OBVIOUS
  <2>1. i + 1 \in 1 .. n
        BY DepthAssumption
  <2> QED BY <2>1, <1>2, <1>3, <1>4, <1>6
<1>8. place(h, 1) = h
      BY DepthAssumption DEF place, Slot
<1>9. s[1] = M[h]
      BY <1>2, <1>8
<1> HIDE DEF s, t
<1>10. t = Tail(s)
      BY <1>3, <1>6, <1>7, SeqEqual
<1> QED BY <1>5, <1>9, <1>10 DEF s, t

\* Writing behind the held words while the first is read drops it and appends
\* one, also when the ring is full and the word goes where the first one was.
LEMMA WriteWhileRead ==
  ASSUME NEW M \in [Slot -> Data], NEW h \in Slot, NEW n \in 1 .. FIFO_DEPTH,
         NEW d \in Data
  PROVE  held([M EXCEPT ![place(h, n + 1)] = d], next(h), n)
           = Tail(Append(held(M, h, n), d))
<1> DEFINE s == held(M, h, n)
           W == [M EXCEPT ![place(next(h), n)] = d]
<1>1. /\ n \in 0 .. FIFO_DEPTH /\ n - 1 \in 0 .. FIFO_DEPTH - 1 /\ next(h) \in Slot
      /\ n - 1 + 1 = n
      BY DepthAssumption, NextInSlot
<1>2. place(h, n + 1) = place(next(h), n)
      BY NextWraps, DepthAssumption DEF place, Slot
<1>3. held(W, next(h), n) = Append(held(M, next(h), n - 1), d)
      BY <1>1, WriteAppends
<1>4. held(M, next(h), n - 1) = Tail(s) /\ s # <<>>
      BY ReadDrops
<1>5. s \in Seq(Data)
      BY <1>1, HeldWords
<1> HIDE DEF s
<1>6. Tail(Append(s, d)) = Append(Tail(s), d)
      BY <1>4, <1>5, HeadTailAppend
<1> QED BY <1>2, <1>3, <1>4, <1>6 DEF s
------------------------------------------------------------------------------
\* The write index stands behind the words counted from the read index.
CountFits ==
  /\ count \in 0 .. FIFO_DEPTH
  /\ Full <=> count = FIFO_DEPTH
  /\ Empty <=> count = 0
  /\ Tail_ = place(Head_, count + 1)

LEMMA CountOfRegs == RegsOK => CountFits
<1> SUFFICES ASSUME RegsOK PROVE CountFits
    OBVIOUS
<1>1. Head_ \in 0 .. FIFO_DEPTH - 1 /\ Tail_ \in 0 .. FIFO_DEPTH - 1
      BY DEF RegsOK, Slot
<1>2. CASE Full
  <2>1. count = FIFO_DEPTH /\ Head_ = Tail_ /\ ~Empty
        BY <1>2 DEF count, RegsOK, FlagsAgree
  <2> QED BY <1>1, <1>2, <2>1, DepthAssumption DEF CountFits, place
<1>3. CASE Empty
  <2>1. count = 0 /\ Head_ = Tail_ /\ ~Full
        BY <1>3 DEF count, RegsOK, FlagsAgree
  <2> QED BY <1>1, <1>3, <2>1, DepthAssumption DEF CountFits, place
<1>4. CASE ~Full /\ ~Empty
  <2>1. Head_ # Tail_
        BY <1>4 DEF RegsOK, FlagsAgree
  <2>2. count = IF Tail_ > Head_ THEN Tail_ - Head_ ELSE FIFO_DEPTH - Head_ + Tail_
        BY <1>4 DEF count
  <2> QED BY <1>1, <1>4, <2>1, <2>2, DepthAssumption DEF CountFits, place
<1> QED BY <1>2, <1>3, <1>4

\* The place of the write index tells how many words are held, when it is
\* known whether none or all places are: after a write, after a read, after both.
LEMMA CountAfterWrite ==
  ASSUME NEW h \in Slot, NEW n \in 0 .. FIFO_DEPTH - 1, NEW m \in 1 .. FIFO_DEPTH,
         next(place(h, n + 1)) = place(h, m + 1)
  PROVE  m = n + 1
<1>1. place(h, n + 1) \in Slot
      BY DepthAssumption DEF place, Slot
<1>2. next(place(h, n + 1)) = place(h, n + 2)
  <2>1. next(place(h, n + 1)) = IF place(h, n + 1) = FIFO_DEPTH - 1
                                THEN 0 ELSE place(h, n + 1) + 1
        BY <1>1, NextWraps
  <2> QED BY <2>1, DepthAssumption DEF place, Slot
<1> QED BY <1>2, DepthAssumption DEF place, Slot

LEMMA CountAfterRead ==
  ASSUME NEW h \in Slot, NEW n \in 1 .. FIFO_DEPTH, NEW m \in 0 .. FIFO_DEPTH - 1,
         place(h, n + 1) = place(next(h), m + 1)
  PROVE  m = n - 1
<1>1. place(next(h), m + 1) = place(h, m + 2)
  <2>1. next(h) = IF h = FIFO_DEPTH - 1 THEN 0 ELSE h + 1
        BY NextWraps
  <2> QED BY <2>1, DepthAssumption DEF place, Slot
<1> QED BY <1>1, DepthAssumption DEF place, Slot

LEMMA CountAfterBoth ==
  ASSUME NEW h \in Slot, NEW n \in 1 .. FIFO_DEPTH, NEW m \in 1 .. FIFO_DEPTH,
         n = FIFO_DEPTH <=> m = FIFO_DEPTH,
         next(place(h, n + 1)) = place(next(h), m + 1)
  PROVE  m = n
<1>1. next(h) \in Slot /\ n - 1 \in 0 .. FIFO_DEPTH - 1 /\ n - 1 + 1 = n
      BY NextInSlot, DepthAssumption
<1>2. place(h, n + 1) = place(next(h), n)
  <2>1. next(h) = IF h = FIFO_DEPTH - 1 THEN 0 ELSE h + 1
        BY NextWraps
  <2> QED BY <2>1, DepthAssumption DEF place, Slot
<1> QED BY <1>1, <1>2, CountAfterWrite

\* What a clock edge of the ring does to the stored tokens: it appends the one
\* it writes and drops the one it reads.
LEMMA ClockMovesTokens ==
  ASSUME RegsOK, RegsOK',
         NEW pValid \in BOOLEAN, NEW nReady \in BOOLEAN, NEW dataIn \in Data,
         Clock(pValid, dataIn, nReady)
  PROVE  LET filled == IF WriteEn(pValid, nReady) THEN Append(contents, dataIn)
                                                  ELSE contents
         IN  contents' = IF ReadEn(nReady) THEN Tail(filled) ELSE filled
<1> DEFINE write == WriteEn(pValid, nReady)
           read  == ReadEn(nReady)
<1>1. CountFits /\ CountFits'
      BY CountOfRegs, PTL
<1>2. contents = held(Memory, Head_, count) /\ contents' = held(Memory', Head_', count')
      BY DEF contents, held
<1>3. /\ Memory' = IF write THEN [Memory EXCEPT ![Tail_] = dataIn] ELSE Memory
      /\ Tail_' = IF write THEN next(Tail_) ELSE Tail_
      /\ Head_' = IF read THEN next(Head_) ELSE Head_
      /\ Full' = ((Full /\ ~(read /\ ~write))
                   \/ (write /\ ~read /\ next(Tail_) = Head_))
      /\ Empty' = ((Empty /\ ~(write /\ ~read))
                    \/ (read /\ ~write /\ next(Head_) = Tail_))
      BY DEF Clock, TailUpdate_proc, HeadUpdate_proc, FullUpdate_proc,
         EmptyUpdate_proc, fifo_proc
<1>4. read => count # 0
      BY <1>1 DEF ReadEn, CountFits
<1>5. write /\ ~read => count # FIFO_DEPTH
  <2>1. Full /\ Empty => FALSE
        BY DEF RegsOK, FlagsAgree
  <2> QED BY <2>1, <1>1 DEF WriteEn, ReadEn, CountFits
<1> HIDE DEF write, read
<1>6. /\ Memory \in [Slot -> Data] /\ Head_ \in Slot /\ Tail_ \in Slot
      /\ count \in 0 .. FIFO_DEPTH /\ count' \in 0 .. FIFO_DEPTH
      /\ Tail_ = place(Head_, count + 1) /\ Tail_' = place(Head_', count' + 1)
      /\ (Full <=> count = FIFO_DEPTH) /\ (Empty <=> count = 0)
      /\ (Full' <=> count' = FIFO_DEPTH) /\ (Empty' <=> count' = 0)
      BY <1>1 DEF CountFits, RegsOK
<1>7. CASE write /\ read
  <2>1. Full' = Full /\ Empty' = Empty /\ Tail_' = next(Tail_) /\ Head_' = next(Head_)
        BY <1>3, <1>7, <1>6 DEF RegsOK
  <2>2. count \in 1 .. FIFO_DEPTH
        BY <1>4, <1>6, <1>7, DepthAssumption
  <2>3. /\ count' \in 1 .. FIFO_DEPTH
        /\ count = FIFO_DEPTH <=> count' = FIFO_DEPTH
        BY <2>1, <2>2, <1>6, DepthAssumption
  <2>4. count' = count
        BY <2>1, <2>2, <2>3, <1>6, CountAfterBoth
  <2>5. held([Memory EXCEPT ![Tail_] = dataIn], next(Head_), count)
          = Tail(Append(contents, dataIn))
        BY <2>2, <1>2, <1>6, WriteWhileRead
  <2> QED BY <2>1, <2>4, <2>5, <1>2, <1>3, <1>7 DEF write, read
<1>8. CASE write /\ ~read
  <2>1. /\ Full' = (Full \/ next(Tail_) = Head_) /\ Empty' = FALSE
        /\ Tail_' = next(Tail_) /\ Head_' = Head_
        BY <1>3, <1>8, <1>6 DEF RegsOK
  <2>2. count \in 0 .. FIFO_DEPTH - 1 /\ count' \in 1 .. FIFO_DEPTH
        BY <2>1, <1>5, <1>6, <1>8, DepthAssumption
  <2>3. count' = count + 1
        BY <2>1, <2>2, <1>6, CountAfterWrite
  <2>4. held([Memory EXCEPT ![Tail_] = dataIn], Head_, count + 1)
          = Append(contents, dataIn)
        BY <2>2, <1>2, <1>6, WriteAppends
  <2> QED BY <2>1, <2>3, <2>4, <1>2, <1>3, <1>8 DEF write, read
<1>9. CASE ~write /\ read
  <2>1. /\ Empty' = (Empty \/ next(Head_) = Tail_) /\ Full' = FALSE
        /\ Tail_' = Tail_ /\ Head_' = next(Head_) /\ Memory' = Memory
        BY <1>3, <1>9, <1>6 DEF RegsOK
  <2>2. count \in 1 .. FIFO_DEPTH /\ count' \in 0 .. FIFO_DEPTH - 1
        BY <2>1, <1>4, <1>6, <1>9, DepthAssumption
  <2>3. count' = count - 1
        BY <2>1, <2>2, <1>6, CountAfterRead
  <2> QED BY <2>1, <2>2, <2>3, <1>2, <1>3, <1>6, <1>9, ReadDrops
             DEF write, read
<1>10. CASE ~write /\ ~read
  <2>1. /\ Empty' = Empty /\ Full' = Full
        /\ Tail_' = Tail_ /\ Head_' = Head_ /\ Memory' = Memory
        BY <1>3, <1>10, <1>6 DEF RegsOK
  <2>2. count' = count
        BY <2>1 DEF count
  <2> QED BY <2>1, <2>2, <1>2, <1>10 DEF write, read
<1> QED BY <1>7, <1>8, <1>9, <1>10

\* The stored tokens as the flags and the output port show them.
TokensFit ==
  /\ contents \in Seq(Data) /\ Len(contents) \in 0 .. FIFO_DEPTH
  /\ contents = <<>> <=> Empty
  /\ Full <=> Len(contents) = FIFO_DEPTH
  /\ ~Empty => Head(contents) = dataOut

LEMMA TokensOfRegs == RegsOK => TokensFit
<1> SUFFICES ASSUME RegsOK PROVE TokensFit
    OBVIOUS
<1>1. CountFits
      BY CountOfRegs
<1>2. Memory \in [Slot -> Data] /\ Head_ \in Slot /\ count \in 0 .. FIFO_DEPTH
      BY <1>1 DEF RegsOK, CountFits
<1>3. contents = held(Memory, Head_, count)
      BY DEF contents, held
<1>4. contents \in Seq(Data) /\ Len(contents) = count
      BY <1>2, <1>3, HeldWords
<1>5. contents = <<>> <=> count = 0
      BY <1>4
<1>6. count # 0 => Head(contents) = Memory[Head_]
  <2> SUFFICES ASSUME count # 0 PROVE Head(contents) = Memory[Head_]
      OBVIOUS
  <2>1. count \in 1 .. FIFO_DEPTH
        BY <1>2, DepthAssumption
  <2> QED BY <2>1, <1>2, <1>3, ReadDrops
<1> QED BY <1>1, <1>2, <1>4, <1>5, <1>6 DEF CountFits, TokensFit, dataOut

\* Every clock cycle of the ring is a cycle of the abstract queue.
LEMMA CycleImplements ==
  ASSUME RegsOK, RegsOK',
         NEW pValid \in BOOLEAN, NEW nReady \in BOOLEAN, NEW dataIn \in Data,
         Cycle(pValid, dataIn, nReady)
  PROVE  stream!Cycle(Offer(pValid, dataIn), ready(nReady), nReady)
<1> DEFINE in  == Offer(pValid, dataIn)
           out == Offer(valid, dataOut)
           filled == IF ready(nReady) THEN contents \o stream!Arriving(in)
                                      ELSE contents
<1>1. TokensFit /\ TokensFit'
      BY TokensOfRegs, PTL
<1>2. Len(contents') <= FIFO_DEPTH
      BY <1>1, DepthAssumption DEF TokensFit
<1>3. ~Empty => dataOut \in Data
      BY DEF RegsOK, dataOut
<1>4. stream!Front(contents) = out
      BY <1>1 DEF TokensFit, stream!Front, Offer, valid
<1>5. (out # NoToken) <=> ~Empty
      BY <1>3, DataAssumption DEF Offer, valid
<1>6. filled = IF WriteEn(pValid, nReady) THEN Append(contents, dataIn) ELSE contents
  <2>1. contents \o <<dataIn>> = Append(contents, dataIn) /\ contents \o <<>> = contents
        BY <1>1, AppendIsConcat, ConcatEmptySeq DEF TokensFit
  <2>2. stream!Arriving(in) = IF pValid THEN <<dataIn>> ELSE <<>>
        BY DataAssumption DEF stream!Arriving, Offer
  <2> QED BY <2>1, <2>2 DEF ready, WriteEn
<1>7. contents' = IF ReadEn(nReady) THEN Tail(filled) ELSE filled
  <2>1. Clock(pValid, dataIn, nReady)
        BY DEF Cycle
  <2> QED BY <2>1, <1>6, ClockMovesTokens
<1>8. ReadEn(nReady) <=> out # NoToken /\ nReady
      BY <1>5 DEF ReadEn
<1>9. Len(contents) < FIFO_DEPTH => ready(nReady)
      BY <1>1, DepthAssumption DEF TokensFit, ready
<1>10. edge' = [in |-> in, ready |-> ready(nReady), out |-> out, nReady |-> nReady]
      BY DEF Cycle
<1> HIDE DEF in, out, filled
<1>11. contents' = IF out # NoToken /\ nReady THEN Tail(filled) ELSE filled
      BY <1>7, <1>8
<1> QED BY <1>2, <1>4, <1>9, <1>10, <1>11 DEF stream!Cycle, stream!Visible, in, out, filled

\* The ring implements a queue of FIFO_DEPTH tokens, for every depth and every
\* set of words: also while its indices wrap, and when a full ring is written
\* in the cycle in which it is read, no token is lost, repeated or overtaken.
THEOREM Implements == Spec => IsStreamBuffer
<1>1. Init => stream!Init
  <2> SUFFICES ASSUME Init PROVE stream!Init
      OBVIOUS
  <2>1. RegsOK
        BY ResetRegs DEF Init
  <2>2. contents = <<>>
        BY <2>1, TokensOfRegs DEF Init, Reset, TokensFit
  <2>3. edge = stream!Idle
        BY DEF Init, Idle, stream!Idle
  <2> QED BY <2>2, <2>3 DEF stream!Init
<1>2. RegsOK /\ RegsOK' /\ [Next]_vars => [stream!Next]_(stream!vars)
  <2> SUFFICES ASSUME RegsOK, RegsOK', [Next]_vars
               PROVE  [stream!Next]_(stream!vars)
      OBVIOUS
  <2>1. CASE UNCHANGED vars
        BY <2>1 DEF vars, stream!vars, contents, count
  <2>2. ASSUME NEW pValid \in BOOLEAN, NEW nReady \in BOOLEAN,
               NEW dataIn \in Data, Cycle(pValid, dataIn, nReady)
        PROVE  stream!Next
    <3>1. stream!Cycle(Offer(pValid, dataIn), ready(nReady), nReady)
          BY <2>2, CycleImplements
    <3>2. Offer(pValid, dataIn) \in stream!Token /\ ready(nReady) \in BOOLEAN
          BY DEF Offer, stream!Token, ready, RegsOK
    <3> QED BY <3>1, <3>2 DEF stream!Next
  <2> QED BY <2>1, <2>2 DEF Next
<1>3. Spec => []RegsOK
      BY SpecRegs, PTL
<1> QED BY <1>1, <1>2, <1>3, PTL DEF Spec, IsStreamBuffer, stream!Spec
------------------------------------------------------------------------------
VARIABLES tehb_full, tehb_data    \* the TEHB of nontranspFifo

nFifo == INSTANCE nontranspFifo
tFifo == INSTANCE transpFIFO

\* The ring inside the two FIFOs is the ring above.
LEMMA SameContents ==
  /\ nFifo!fifo!contents = contents /\ tFifo!fifo!contents = contents
  /\ nFifo!fifo!contents' = contents' /\ tFifo!fifo!contents' = contents'
BY DEF nFifo!fifo!contents, nFifo!fifo!count, tFifo!fifo!contents,
   tFifo!fifo!count, contents, count

LEMMA SameRing ==
  /\ nFifo!fifo!Reset = Reset /\ tFifo!fifo!Reset = Reset
  /\ \A pValid, nReady \in BOOLEAN, dataIn \in Data :
       /\ nFifo!fifo!Clock(pValid, dataIn, nReady) = Clock(pValid, dataIn, nReady)
       /\ tFifo!fifo!Clock(pValid, dataIn, nReady) = Clock(pValid, dataIn, nReady)
<1>1. nFifo!fifo!Reset = Reset /\ tFifo!fifo!Reset = Reset
      BY DEF nFifo!fifo!Reset, nFifo!fifo!Slot, tFifo!fifo!Reset, tFifo!fifo!Slot,
         Reset, Slot
<1>2. ASSUME NEW pValid \in BOOLEAN, NEW nReady \in BOOLEAN, NEW dataIn \in Data
      PROVE  nFifo!fifo!Clock(pValid, dataIn, nReady) = Clock(pValid, dataIn, nReady)
      BY DEF nFifo!fifo!Clock, nFifo!fifo!WriteEn, nFifo!fifo!ReadEn,
         nFifo!fifo!fifo_proc, nFifo!fifo!TailUpdate_proc,
         nFifo!fifo!HeadUpdate_proc, nFifo!fifo!FullUpdate_proc,
         nFifo!fifo!EmptyUpdate_proc, nFifo!fifo!next, Clock, WriteEn, ReadEn,
         fifo_proc, TailUpdate_proc, HeadUpdate_proc, FullUpdate_proc,
         EmptyUpdate_proc, next
<1>3. ASSUME NEW pValid \in BOOLEAN, NEW nReady \in BOOLEAN, NEW dataIn \in Data
      PROVE  tFifo!fifo!Clock(pValid, dataIn, nReady) = Clock(pValid, dataIn, nReady)
      BY DEF tFifo!fifo!Clock, tFifo!fifo!WriteEn, tFifo!fifo!ReadEn,
         tFifo!fifo!fifo_proc, tFifo!fifo!TailUpdate_proc,
         tFifo!fifo!HeadUpdate_proc, tFifo!fifo!FullUpdate_proc,
         tFifo!fifo!EmptyUpdate_proc, tFifo!fifo!next, Clock, WriteEn, ReadEn,
         fifo_proc, TailUpdate_proc, HeadUpdate_proc, FullUpdate_proc,
         EmptyUpdate_proc, next
<1> QED BY <1>1, <1>2, <1>3

\* A token waits in the TEHB of nontranspFifo only while the ring is full:
\* otherwise the queue would have a gap, or refuse a token while it has room.
TEHBBehindRing ==
  /\ RegsOK
  /\ tehb_full \in BOOLEAN /\ tehb_data \in Data
  /\ tehb_full => Full

\* A clock edge of nontranspFifo is one of its ring, fed by the TEHB.
LEMMA NFifoEdge ==
  ASSUME TEHBBehindRing,
         NEW pValid \in BOOLEAN, NEW nReady \in BOOLEAN, NEW dataIn \in Data,
         nFifo!Cycle(pValid, dataIn, nReady)
  PROVE  /\ Clock(pValid \/ tehb_full, IF tehb_full THEN tehb_data ELSE dataIn, nReady)
         /\ tehb_full' = ((pValid \/ tehb_full) /\ ~ready(nReady))
         /\ tehb_data' = IF ~tehb_full /\ pValid /\ ~ready(nReady)
                         THEN dataIn ELSE tehb_data
         /\ edge' = [in |-> Offer(pValid, dataIn), ready |-> ~tehb_full,
                     out |-> Offer(valid, dataOut), nReady |-> nReady]
<1> DEFINE pv == pValid \/ tehb_full
           pd == IF tehb_full THEN tehb_data ELSE dataIn
<1>1. nFifo!fifo!Clock(pv, pd, nReady)
      BY DEF nFifo!Cycle, nFifo!Clock, nFifo!tehb!valid, nFifo!tehb!dataOut
<1>2. pv \in BOOLEAN /\ pd \in Data
      BY DEF TEHBBehindRing
<1> HIDE DEF pv, pd
<1>3. Clock(pv, pd, nReady)
      BY <1>1, <1>2, SameRing
<1>4. /\ tehb_full' = ((pValid \/ tehb_full) /\ ~ready(nReady))
      /\ tehb_data' = IF ~tehb_full /\ pValid /\ ~ready(nReady)
                      THEN dataIn ELSE tehb_data
      BY DEF nFifo!Cycle, nFifo!Clock, nFifo!tehb!Clock, nFifo!tehb!full_next,
         nFifo!tehb!data_next, nFifo!tehb!reg_en, nFifo!tehb!valid,
         nFifo!tehb!ready, nFifo!fifo!ready, ready
<1>5. edge' = [in |-> Offer(pValid, dataIn), ready |-> ~tehb_full,
               out |-> Offer(valid, dataOut), nReady |-> nReady]
      BY DEF nFifo!Cycle, nFifo!Offer, Offer, nFifo!tehb!ready, nFifo!fifo!valid,
         nFifo!fifo!dataOut, valid, dataOut
<1> QED BY <1>3, <1>4, <1>5 DEF pv, pd

\* nontranspFifo keeps its TEHB behind a full ring.
LEMMA NFifoKeepsRegs ==
  ASSUME TEHBBehindRing,
         NEW pValid \in BOOLEAN, NEW nReady \in BOOLEAN, NEW dataIn \in Data,
         nFifo!Cycle(pValid, dataIn, nReady)
  PROVE  TEHBBehindRing'
<1> DEFINE pv == pValid \/ tehb_full
           pd == IF tehb_full THEN tehb_data ELSE dataIn
<1>1. pv \in BOOLEAN /\ pd \in Data
      BY DEF TEHBBehindRing
<1>2. Clock(pv, pd, nReady)
      BY NFifoEdge
<1>3. RegsOK'
  <2> HIDE DEF pv, pd
  <2> QED BY <1>1, <1>2, ClockKeepsRegs DEF TEHBBehindRing
<1>4. tehb_full' \in BOOLEAN /\ tehb_data' \in Data
      BY NFifoEdge DEF TEHBBehindRing
<1>5. tehb_full' => Full'
  <2>1. tehb_full' => Full /\ ~nReady
        BY NFifoEdge DEF ready
  <2>2. Full /\ ~nReady => Full'
        BY <1>2 DEF Clock, FullUpdate_proc, ReadEn
  <2> QED BY <2>1, <2>2
<1> QED BY <1>3, <1>4, <1>5 DEF TEHBBehindRing

\* Every clock cycle of nontranspFifo is a cycle of the abstract queue.
LEMMA NFifoCycleImplements ==
  ASSUME TEHBBehindRing, TEHBBehindRing',
         NEW pValid \in BOOLEAN, NEW nReady \in BOOLEAN, NEW dataIn \in Data,
         nFifo!Cycle(pValid, dataIn, nReady)
  PROVE  nFifo!stream!Cycle(Offer(pValid, dataIn), ~tehb_full, nReady)
<1> DEFINE in   == Offer(pValid, dataIn)
           out  == Offer(valid, dataOut)
           q    == nFifo!contents
           T    == IF tehb_full THEN <<tehb_data>> ELSE <<>>
           pv   == pValid \/ tehb_full
           pd   == IF tehb_full THEN tehb_data ELSE dataIn
           ring == IF WriteEn(pv, nReady) THEN Append(contents, pd) ELSE contents
           filled == IF ~tehb_full THEN q \o nFifo!stream!Arriving(in) ELSE q
<1>1. TokensFit /\ TokensFit'
      BY TokensOfRegs, PTL DEF TEHBBehindRing
<1>2. /\ pv \in BOOLEAN /\ pd \in Data /\ T \in Seq(Data) /\ T' \in Seq(Data)
      /\ contents \in Seq(Data) /\ contents' \in Seq(Data) /\ ring \in Seq(Data)
      BY <1>1, AppendProperties DEF TEHBBehindRing, TokensFit
<1>3. q = contents \o T /\ q' = contents' \o T'
      BY SameContents DEF nFifo!contents
<1>4. contents' = IF ReadEn(nReady) THEN Tail(ring) ELSE ring
  <2>1. Clock(pv, pd, nReady)
        BY NFifoEdge
  <2> HIDE DEF pv, pd
  <2> QED BY <2>1, <1>2, ClockMovesTokens DEF TEHBBehindRing
<1>5. T' = IF pv /\ ~ready(nReady) THEN <<pd>> ELSE <<>>
      BY NFifoEdge
<1>6. filled = ring \o T'
  <2>1. nFifo!stream!Arriving(in) = IF pValid THEN <<dataIn>> ELSE <<>>
        BY DataAssumption DEF nFifo!stream!Arriving, Offer
  <2>2. /\ contents \o <<pd>> = Append(contents, pd)
        /\ contents \o <<>> = contents /\ ring \o <<>> = ring
        BY <1>2, AppendIsConcat, ConcatEmptySeq
  <2>3. CASE tehb_full
        BY <2>2, <2>3, <1>3, <1>5 DEF WriteEn, ready
  <2>4. CASE ~tehb_full
        BY <2>1, <2>2, <2>4, <1>3, <1>5 DEF WriteEn, ready
  <2> QED BY <2>3, <2>4
<1>7. q' = IF ReadEn(nReady) THEN Tail(filled) ELSE filled
  <2>1. CASE ReadEn(nReady)
    <3>1. T' = <<>>
          BY <2>1, <1>5 DEF ReadEn, ready
    <3>2. ring \o <<>> = ring /\ contents' \o <<>> = contents'
          BY <1>2, ConcatEmptySeq
    <3> QED BY <2>1, <3>1, <3>2, <1>3, <1>4, <1>6
  <2>2. CASE ~ReadEn(nReady)
        BY <2>2, <1>3, <1>4, <1>6
  <2> QED BY <2>1, <2>2
<1>8. /\ nFifo!stream!Front(q) = out
      /\ out # NoToken <=> ~Empty
  <2>1. ~Empty => dataOut \in Data
        BY DEF TEHBBehindRing, RegsOK, dataOut
  <2>2. CASE Empty
    <3>1. ~tehb_full
          BY <2>2 DEF TEHBBehindRing, RegsOK, FlagsAgree
    <3>2. q = <<>>
          BY <2>2, <3>1, <1>1, <1>3 DEF TokensFit
    <3> QED BY <2>2, <3>2 DEF nFifo!stream!Front, Offer, valid
  <2>3. CASE ~Empty
    <3>1. contents # <<>> /\ Head(contents) = dataOut
          BY <2>3, <1>1 DEF TokensFit
    <3>2. q \in Seq(Data) /\ q # <<>> /\ Head(q) = Head(contents)
          BY <3>1, <1>2, <1>3, ConcatProperties
    <3> QED BY <2>1, <2>3, <3>1, <3>2, DataAssumption
               DEF nFifo!stream!Front, Offer, valid
  <2> QED BY <2>2, <2>3
<1>9. /\ Len(q) < FIFO_DEPTH + 1 => ~tehb_full
      /\ Len(q') <= FIFO_DEPTH + 1
  <2>1. /\ Len(q) = Len(contents) + (IF tehb_full THEN 1 ELSE 0)
        /\ Len(q') = Len(contents') + (IF tehb_full' THEN 1 ELSE 0)
        BY <1>2, <1>3, ConcatProperties
  <2> QED BY <2>1, <1>1, DepthAssumption DEF TEHBBehindRing, TokensFit
<1>10. edge' = [in |-> in, ready |-> ~tehb_full, out |-> out, nReady |-> nReady]
      BY NFifoEdge
<1> HIDE DEF in, out, q, T, filled
<1>11. q' = IF out # NoToken /\ nReady THEN Tail(filled) ELSE filled
      BY <1>7, <1>8 DEF ReadEn
<1> QED BY <1>8, <1>9, <1>10, <1>11
           DEF nFifo!stream!Cycle, nFifo!stream!Visible, in, out, q, filled

\* nontranspFifo implements an opaque queue one token deeper than its ring:
\* between its TEHB and its ring no token is lost, repeated or overtaken, and
\* none is refused while there is room.
THEOREM NontranspImplements == nFifo!Spec => nFifo!IsStreamBuffer
<1>1. nFifo!Init => TEHBBehindRing /\ nFifo!stream!Init
  <2> SUFFICES ASSUME nFifo!Init PROVE TEHBBehindRing /\ nFifo!stream!Init
      OBVIOUS
  <2>1. Reset /\ tehb_full = FALSE /\ tehb_data = Zero
        BY SameRing DEF nFifo!Init, nFifo!tehb!Reset
  <2>2. TEHBBehindRing
        BY <2>1, ResetRegs, DataAssumption DEF TEHBBehindRing
  <2>3. contents = <<>>
        BY <2>1, <2>2, TokensOfRegs DEF TEHBBehindRing, TokensFit, Reset
  <2>4. nFifo!contents = <<>>
        BY <2>1, <2>3, SameContents DEF nFifo!contents
  <2>5. edge = nFifo!stream!Idle
        BY DEF nFifo!Init, nFifo!Idle, nFifo!stream!Idle
  <2> QED BY <2>2, <2>4, <2>5 DEF nFifo!stream!Init
<1>2. TEHBBehindRing /\ [nFifo!Next]_(nFifo!vars) => TEHBBehindRing'
  <2>1. TEHBBehindRing /\ UNCHANGED nFifo!vars => TEHBBehindRing'
        BY DEF nFifo!vars, nFifo!regs, TEHBBehindRing, RegsOK, FlagsAgree
  <2> QED BY <2>1, NFifoKeepsRegs DEF nFifo!Next
<1>3. TEHBBehindRing /\ TEHBBehindRing' /\ [nFifo!Next]_(nFifo!vars)
        => [nFifo!stream!Next]_(nFifo!stream!vars)
  <2> SUFFICES ASSUME TEHBBehindRing, TEHBBehindRing', [nFifo!Next]_(nFifo!vars)
               PROVE  [nFifo!stream!Next]_(nFifo!stream!vars)
      OBVIOUS
  <2>1. CASE UNCHANGED nFifo!vars
        BY <2>1 DEF nFifo!vars, nFifo!regs, nFifo!stream!vars, nFifo!contents,
           nFifo!fifo!contents, nFifo!fifo!count
  <2>2. ASSUME NEW pValid \in BOOLEAN, NEW nReady \in BOOLEAN,
               NEW dataIn \in Data, nFifo!Cycle(pValid, dataIn, nReady)
        PROVE  nFifo!stream!Next
    <3>1. nFifo!stream!Cycle(Offer(pValid, dataIn), ~tehb_full, nReady)
          BY <2>2, NFifoCycleImplements
    <3>2. Offer(pValid, dataIn) \in nFifo!stream!Token /\ (~tehb_full) \in BOOLEAN
          BY DEF Offer, nFifo!stream!Token
    <3> QED BY <3>1, <3>2 DEF nFifo!stream!Next
  <2> QED BY <2>1, <2>2 DEF nFifo!Next
<1> QED BY <1>1, <1>2, <1>3, PTL DEF nFifo!Spec, nFifo!IsStreamBuffer, nFifo!stream!Spec
------------------------------------------------------------------------------
\* A clock edge of transpFIFO is one of its ring, which is offered a token
\* unless that goes straight to the consumer.
LEMMA TFifoEdge ==
  ASSUME RegsOK,
         NEW pValid \in BOOLEAN, NEW nReady \in BOOLEAN, NEW dataIn \in Data,
         tFifo!Cycle(pValid, dataIn, nReady)
  PROVE  /\ Clock(pValid /\ (~nReady \/ ~Empty), dataIn, nReady)
         /\ edge' = [in  |-> Offer(pValid, dataIn), ready |-> ready(nReady),
                     out |-> Offer(pValid \/ ~Empty, IF Empty THEN dataIn ELSE dataOut),
                     nReady |-> nReady]
<1> DEFINE pv == pValid /\ (~nReady \/ ~Empty)
<1>1. tFifo!fifo!Clock(pv, dataIn, nReady) /\ pv \in BOOLEAN
      BY DEF tFifo!Cycle, tFifo!Clock, tFifo!fifo_pvalid, tFifo!fifo!valid
<1> HIDE DEF pv
<1>2. Clock(pv, dataIn, nReady)
      BY <1>1, SameRing
<1>3. tFifo!ready(nReady) = ready(nReady)
      BY DEF tFifo!ready, tFifo!fifo!ready, ready, RegsOK
<1>4. tFifo!valid(pValid) = (pValid \/ ~Empty)
      BY DEF tFifo!valid, tFifo!fifo!valid
<1>5. tFifo!dataOut(dataIn) = IF Empty THEN dataIn ELSE dataOut
      BY DEF tFifo!dataOut, tFifo!mux_sel, tFifo!fifo!valid, tFifo!fifo!dataOut,
         dataOut, RegsOK
<1> QED BY <1>2, <1>3, <1>4, <1>5 DEF tFifo!Cycle, tFifo!Offer, Offer, pv

\* Every clock cycle of transpFIFO is a cycle of the abstract queue.
LEMMA TFifoCycleImplements ==
  ASSUME RegsOK, RegsOK',
         NEW pValid \in BOOLEAN, NEW nReady \in BOOLEAN, NEW dataIn \in Data,
         tFifo!Cycle(pValid, dataIn, nReady)
  PROVE  tFifo!stream!Cycle(Offer(pValid, dataIn), ready(nReady), nReady)
<1> DEFINE in      == Offer(pValid, dataIn)
           out     == Offer(pValid \/ ~Empty, IF Empty THEN dataIn ELSE dataOut)
           pv      == pValid /\ (~nReady \/ ~Empty)
           arrived == contents \o tFifo!stream!Arriving(in)
           ring    == IF WriteEn(pv, nReady) THEN Append(contents, dataIn) ELSE contents
           filled  == IF ready(nReady) THEN arrived ELSE contents
<1>1. TokensFit /\ TokensFit'
      BY TokensOfRegs, PTL
<1>2. contents' = IF ReadEn(nReady) THEN Tail(ring) ELSE ring
  <2>1. Clock(pv, dataIn, nReady) /\ pv \in BOOLEAN
        BY TFifoEdge
  <2> HIDE DEF pv
  <2> QED BY <2>1, ClockMovesTokens
<1>3. arrived = IF pValid THEN Append(contents, dataIn) ELSE contents
  <2>1. contents \o <<dataIn>> = Append(contents, dataIn) /\ contents \o <<>> = contents
        BY <1>1, AppendIsConcat, ConcatEmptySeq DEF TokensFit
  <2>2. tFifo!stream!Arriving(in) = IF pValid THEN <<dataIn>> ELSE <<>>
        BY DataAssumption DEF tFifo!stream!Arriving, Offer
  <2> QED BY <2>1, <2>2
<1>4. ~Empty => dataOut \in Data
      BY DEF RegsOK, dataOut
<1>5. out # NoToken <=> pValid \/ ~Empty
      BY <1>4, DataAssumption DEF Offer
<1>6. contents \in Seq(Data) /\ (contents = <<>> <=> Empty)
      BY <1>1 DEF TokensFit
<1>7. /\ Append(contents, dataIn) # <<>>
      /\ Head(Append(contents, dataIn)) = IF Empty THEN dataIn ELSE Head(contents)
      /\ Empty => Tail(Append(contents, dataIn)) = <<>>
      BY <1>6, AppendProperties, HeadTailAppend
<1>8. tFifo!stream!Front(arrived) = out
  <2>1. ~Empty => Head(contents) = dataOut
        BY <1>1 DEF TokensFit
  <2>2. arrived = <<>> <=> Empty /\ ~pValid
        BY <1>3, <1>6, <1>7
  <2>3. arrived # <<>> => Head(arrived) = IF Empty THEN dataIn ELSE dataOut
        BY <2>1, <2>2, <1>3, <1>7
  <2> HIDE DEF arrived
  <2> QED BY <2>2, <2>3 DEF tFifo!stream!Front, Offer
<1>9. contents' = IF out # NoToken /\ nReady THEN Tail(filled) ELSE filled
  <2>1. CASE Empty
    <3>1. ~Full
          BY <2>1 DEF RegsOK, FlagsAgree
    <3>2. ~ReadEn(nReady) /\ (WriteEn(pv, nReady) <=> pValid /\ ~nReady) /\ ready(nReady)
          BY <2>1, <3>1 DEF ReadEn, WriteEn, ready
    <3>3. contents' = IF pValid /\ ~nReady THEN Append(contents, dataIn) ELSE contents
          BY <3>2, <1>2
    <3> QED BY <2>1, <3>2, <3>3, <1>3, <1>5, <1>6, <1>7
  <2>2. CASE ~Empty
    <3>1. (ReadEn(nReady) <=> nReady) /\ (WriteEn(pv, nReady) <=> pValid /\ ready(nReady))
          BY <2>2 DEF ReadEn, WriteEn, ready
    <3>2. ring = filled
          BY <3>1, <1>3
    <3> HIDE DEF ring, filled
    <3> QED BY <2>2, <3>1, <3>2, <1>2, <1>5
  <2> QED BY <2>1, <2>2
<1>10. /\ Len(contents) < FIFO_DEPTH => ready(nReady)
       /\ Len(contents') <= FIFO_DEPTH
      BY <1>1, DepthAssumption DEF TokensFit, ready
<1>11. edge' = [in |-> in, ready |-> ready(nReady), out |-> out, nReady |-> nReady]
      BY TFifoEdge
<1> HIDE DEF in, out
<1> QED BY <1>8, <1>9, <1>10, <1>11, SameContents
           DEF tFifo!stream!Cycle, tFifo!stream!Visible, in, out

\* transpFIFO implements a transparent queue: the token that finds the ring
\* empty and the consumer ready is not stored as well, and none overtakes one
\* that is stored.
THEOREM TranspImplements == tFifo!Spec => tFifo!IsStreamBuffer
<1>1. tFifo!Init => RegsOK /\ tFifo!stream!Init
  <2> SUFFICES ASSUME tFifo!Init PROVE RegsOK /\ tFifo!stream!Init
      OBVIOUS
  <2>1. Reset
        BY SameRing DEF tFifo!Init, tFifo!Reset
  <2>2. RegsOK
        BY <2>1, ResetRegs
  <2>3. tFifo!fifo!contents = <<>>
        BY <2>1, <2>2, TokensOfRegs, SameContents DEF TokensFit, Reset
  <2>4. edge = tFifo!stream!Idle
        BY DEF tFifo!Init, tFifo!Idle, tFifo!stream!Idle
  <2> QED BY <2>2, <2>3, <2>4 DEF tFifo!stream!Init
<1>2. RegsOK /\ [tFifo!Next]_(tFifo!vars) => RegsOK'
  <2> SUFFICES ASSUME RegsOK, [tFifo!Next]_(tFifo!vars) PROVE RegsOK'
      OBVIOUS
  <2>1. CASE UNCHANGED tFifo!vars
        BY <2>1 DEF tFifo!vars, tFifo!regs, RegsOK, FlagsAgree
  <2>2. ASSUME NEW pValid \in BOOLEAN, NEW nReady \in BOOLEAN,
               NEW dataIn \in Data, tFifo!Cycle(pValid, dataIn, nReady)
        PROVE  RegsOK'
    <3>1. Clock(pValid /\ (~nReady \/ ~Empty), dataIn, nReady)
          BY <2>2, TFifoEdge
    <3> QED BY <3>1, ClockKeepsRegs
  <2> QED BY <2>1, <2>2 DEF tFifo!Next
<1>3. RegsOK /\ RegsOK' /\ [tFifo!Next]_(tFifo!vars)
        => [tFifo!stream!Next]_(tFifo!stream!vars)
  <2> SUFFICES ASSUME RegsOK, RegsOK', [tFifo!Next]_(tFifo!vars)
               PROVE  [tFifo!stream!Next]_(tFifo!stream!vars)
      OBVIOUS
  <2>1. CASE UNCHANGED tFifo!vars
        BY <2>1 DEF tFifo!vars, tFifo!regs, tFifo!stream!vars,
           tFifo!fifo!contents, tFifo!fifo!count
  <2>2. ASSUME NEW pValid \in BOOLEAN, NEW nReady \in BOOLEAN,
               NEW dataIn \in Data, tFifo!Cycle(pValid, dataIn, nReady)
        PROVE  tFifo!stream!Next
    <3>1. tFifo!stream!Cycle(Offer(pValid, dataIn), ready(nReady), nReady)
          BY <2>2, TFifoCycleImplements
    <3>2. Offer(pValid, dataIn) \in tFifo!stream!Token /\ ready(nReady) \in BOOLEAN
          BY DEF Offer, tFifo!stream!Token, ready, RegsOK
    <3> QED BY <3>1, <3>2 DEF tFifo!stream!Next
  <2> QED BY <2>1, <2>2 DEF tFifo!Next
<1> QED BY <1>1, <1>2, <1>3, PTL DEF tFifo!Spec, tFifo!IsStreamBuffer, tFifo!stream!Spec
==============================================================================
