---------------------------- MODULE Storage_proofs ----------------------------
(***************************************************************************)
(* What keeps words, in the bench of MCStorage: the elastic buffer, for     *)
(* every set of data words; the load side of the memory controller, for     *)
(* every number of ports; and what is proved of the FIFOs and of the store   *)
(* side alone, of each in the bench.                                        *)
(***************************************************************************)
EXTENDS MCStorage, SequenceTheorems, TLAPS

\* The registers keep their types.
LEMMA EBufInitTypeOK == eBuf!Init => eBuf!TypeOK
<1> SUFFICES ASSUME eBuf!Init PROVE eBuf!TypeOK
    OBVIOUS
<1>1. eBuf!Idle \in eBuf!EdgeType
      BY DEF eBuf!Idle, eBuf!EdgeType, eBuf!Token
<1> QED BY <1>1, DataAssumption DEF eBuf!Init, eBuf!Reset, eBuf!tehb1!Reset,
    eBuf!oehb1!Reset, eBuf!TypeOK

\* A clock edge keeps every register and wire in its type.
LEMMA EBufNextTypeOK == eBuf!TypeOK /\ [eBuf!Next]_(eBuf!vars) => eBuf!TypeOK'
<1> SUFFICES ASSUME eBuf!TypeOK, [eBuf!Next]_(eBuf!vars) PROVE eBuf!TypeOK'
    OBVIOUS
<1>1. CASE UNCHANGED eBuf!vars
      BY <1>1 DEF eBuf!vars, eBuf!TypeOK
<1>2. ASSUME NEW pValid \in BOOLEAN, NEW nReady \in BOOLEAN, NEW dataIn \in Data,
             eBuf!Cycle(pValid, dataIn, nReady)
      PROVE eBuf!TypeOK'
  <2>1. eFull' \in BOOLEAN /\ eValid' \in BOOLEAN
        BY <1>2 DEF eBuf!TypeOK, eBuf!Cycle, eBuf!Clock, eBuf!tehb1!Clock,
           eBuf!tehb1!full_next,
           eBuf!tehb1!valid, eBuf!oehb1!Clock, eBuf!oehb1!valid_next, eBuf!oehb1!ready
  <2>2. eWaiting' \in Data
        BY <1>2 DEF eBuf!TypeOK, eBuf!Cycle, eBuf!Clock, eBuf!tehb1!Clock,
           eBuf!tehb1!data_next
  <2>3. eData' \in Data
        BY <1>2 DEF eBuf!TypeOK, eBuf!Cycle, eBuf!Clock, eBuf!oehb1!Clock,
           eBuf!oehb1!data_next,
           eBuf!tehb1!dataOut
  <2>4. eEdge' \in eBuf!EdgeType
        BY <1>2 DEF eBuf!TypeOK, eBuf!Cycle, eBuf!EdgeType, eBuf!Token, eBuf!Offer,
           eBuf!ready, eBuf!valid, eBuf!dataOut,
           eBuf!tehb1!ready
  <2> QED BY <2>1, <2>2, <2>3, <2>4 DEF eBuf!TypeOK
<1> QED BY <1>1, <1>2 DEF eBuf!Next

\* Every register and every observed wire of the buffer has its type.
THEOREM EBufTypeCorrect == eBuf!Spec => []eBuf!TypeOK
BY EBufInitTypeOK, EBufNextTypeOK, PTL DEF eBuf!Spec

\* The TEHB stores a token only in a cycle that leaves one in the OEHB.
LEMMA EBufNextOEHBFirst == eBuf!TypeOK /\ eBuf!OEHBFirst /\ [eBuf!Next]_(eBuf!vars)
=> eBuf!OEHBFirst'
<1> SUFFICES ASSUME eBuf!TypeOK, eBuf!OEHBFirst, [eBuf!Next]_(eBuf!vars) PROVE
eBuf!OEHBFirst'
    OBVIOUS
<1>1. CASE UNCHANGED eBuf!vars
      BY <1>1 DEF eBuf!vars, eBuf!OEHBFirst
<1>2. ASSUME NEW pValid \in BOOLEAN, NEW nReady \in BOOLEAN, NEW dataIn \in Data,
             eBuf!Cycle(pValid, dataIn, nReady)
      PROVE eBuf!OEHBFirst'
      BY <1>2 DEF eBuf!TypeOK, eBuf!OEHBFirst, eBuf!Cycle, eBuf!Clock,
         eBuf!tehb1!Clock, eBuf!tehb1!full_next,
         eBuf!tehb1!valid, eBuf!oehb1!Clock, eBuf!oehb1!valid_next, eBuf!oehb1!ready
<1> QED BY <1>1, <1>2 DEF eBuf!Next

\* The TEHB of an elasticBuffer never holds a token while its OEHB is empty.
THEOREM EBufOrderKept == eBuf!Spec => []eBuf!OEHBFirst
<1>1. eBuf!Init => eBuf!OEHBFirst
      BY DEF eBuf!Init, eBuf!Reset, eBuf!tehb1!Reset, eBuf!OEHBFirst
<1> QED BY <1>1, EBufNextOEHBFirst, EBufTypeCorrect, PTL DEF eBuf!Spec
------------------------------------------------------------------------------
\* Two one-token queues make a two-token queue.
LEMMA ConcatOfSingles ==
  ASSUME NEW S, NEW a \in S, NEW b \in S
  PROVE  <<a>> \o <<b>> = <<a, b>>
<1> DEFINE s == <<a>> \o <<b>>
           t == <<a, b>>
<1>1. <<a>> \in Seq(S) /\ <<b>> \in Seq(S) /\ t \in Seq(S)
      OBVIOUS
<1>2. s \in Seq(S) /\ Len(s) = 2 /\ s[1] = a /\ s[2] = b
      BY <1>1, ConcatProperties
<1>3. Len(t) = 2 /\ t[1] = a /\ t[2] = b
      OBVIOUS
<1> HIDE DEF s, t
<1>4. \A i \in 1 .. Len(s) : s[i] = t[i]
      BY <1>2, <1>3
<1>5. s = t
      BY <1>1, <1>2, <1>3, <1>4, SeqEqual
<1> QED BY <1>5 DEF s, t

\* The queue that registers of these values stand for.
Queue(ov, od, tf, td) == (IF ov THEN <<od>> ELSE <<>>) \o (IF tf THEN <<td>> ELSE
<<>>)
Stored(ov, od, tf, td) == IF tf THEN <<od, td>> ELSE IF ov THEN <<od>> ELSE <<>>

\* With a token in the TEHB only behind one in the OEHB, the concatenation of
\* what the two registers store is one of three sequences.
LEMMA StoredTokens ==
  ASSUME NEW ov \in BOOLEAN, NEW od \in Data, NEW tf \in BOOLEAN,
         NEW td \in Data, tf => ov
  PROVE  Queue(ov, od, tf, td) = Stored(ov, od, tf, td)
<1>1. <<od>> \o <<td>> = <<od, td>>
      BY ConcatOfSingles
<1>2. <<od>> \o <<>> = <<od>> /\ <<>> \o <<>> = <<>>
      OBVIOUS
<1> QED BY <1>1, <1>2 DEF Queue, Stored

\* Every clock cycle of the buffer is a cycle of the abstract queue.
LEMMA EBufCycleImplements ==
  ASSUME eBuf!TypeOK, eBuf!OEHBFirst, eBuf!TypeOK', eBuf!OEHBFirst',
         NEW pValid \in BOOLEAN, NEW nReady \in BOOLEAN, NEW dataIn \in Data,
         eBuf!Cycle(pValid, dataIn, nReady)
  PROVE  eBuf!stream!Cycle(eBuf!Offer(pValid, dataIn), eBuf!ready, nReady)
<1> DEFINE in == eBuf!Offer(pValid, dataIn)
           arriving == eBuf!stream!Arriving(in)
           filled == IF eBuf!ready THEN eBuf!contents \o arriving ELSE eBuf!contents
           out == eBuf!Offer(eBuf!valid, eBuf!dataOut)
<1>1. eBuf!contents = Stored(eValid, eData, eFull, eWaiting)
  <2>1. eBuf!contents = Queue(eValid, eData, eFull, eWaiting)
        BY DEF eBuf!contents, Queue
  <2> QED BY <2>1, StoredTokens DEF eBuf!TypeOK, eBuf!OEHBFirst
<1>2. eBuf!contents' = Stored(eValid', eData', eFull', eWaiting')
  <2>1. eBuf!contents' = Queue(eValid', eData', eFull', eWaiting')
        BY DEF eBuf!contents, Queue
  <2> QED BY <2>1, StoredTokens DEF eBuf!TypeOK, eBuf!OEHBFirst
<1>3. arriving = IF pValid THEN <<dataIn>> ELSE <<>>
      BY DataAssumption DEF eBuf!stream!Arriving, eBuf!Offer
<1>4. eBuf!stream!Front(eBuf!contents) = out
      BY <1>1 DEF eBuf!stream!Front, Stored, eBuf!Offer, eBuf!valid, eBuf!dataOut,
         eBuf!TypeOK, eBuf!OEHBFirst
<1>5. filled = Stored(eValid \/ pValid,
                      IF eValid THEN eData ELSE dataIn,
                      eFull \/ (eValid /\ pValid),
                      IF eFull THEN eWaiting ELSE dataIn)
  <2>1. CASE eFull
        BY <2>1, <1>1 DEF eBuf!ready, eBuf!tehb1!ready, Stored, eBuf!OEHBFirst
  <2>2. CASE ~eFull /\ ~pValid
        BY <2>2, <1>1, <1>3 DEF eBuf!ready, eBuf!tehb1!ready, Stored, eBuf!TypeOK
  <2>3. CASE ~eFull /\ pValid /\ eValid
        BY <2>3, <1>1, <1>3, ConcatOfSingles DEF eBuf!ready, eBuf!tehb1!ready,
           Stored, eBuf!TypeOK
  <2>4. CASE ~eFull /\ pValid /\ ~eValid
    <3>1. <<>> \o <<dataIn>> = <<dataIn>>
          OBVIOUS
    <3> QED BY <3>1, <2>4, <1>1, <1>3 DEF eBuf!ready, eBuf!tehb1!ready, Stored,
        eBuf!TypeOK
  <2> QED BY <2>1, <2>2, <2>3, <2>4 DEF eBuf!TypeOK
<1>6. /\ eFull' = ((pValid \/ eFull) /\ ~(~eValid \/ nReady))
      /\ eWaiting' = IF ~eFull /\ pValid /\ ~(~eValid \/ nReady)
                       THEN dataIn ELSE eWaiting
      /\ eValid' = (pValid \/ eFull \/ ~(~eValid \/ nReady))
      /\ eData' = IF (~eValid \/ nReady) /\ (pValid \/ eFull)
                       THEN IF eFull THEN eWaiting ELSE dataIn
                       ELSE eData
      BY DEF eBuf!Cycle, eBuf!Clock, eBuf!tehb1!Clock, eBuf!tehb1!full_next,
         eBuf!tehb1!data_next,
         eBuf!tehb1!reg_en, eBuf!tehb1!valid, eBuf!tehb1!ready, eBuf!tehb1!dataOut,
         eBuf!oehb1!Clock,
         eBuf!oehb1!valid_next, eBuf!oehb1!data_next, eBuf!oehb1!reg_en,
         eBuf!oehb1!ready, eBuf!TypeOK
<1>7. eBuf!contents' = IF out # NoToken /\ nReady THEN Tail(filled) ELSE filled
  <2>1. (out # NoToken) = eValid
        BY DataAssumption DEF eBuf!Offer, eBuf!valid, eBuf!dataOut, eBuf!TypeOK
  <2>2. CASE eValid /\ nReady
    <3>1. \A a, b \in Data : Tail(<<a, b>>) = <<b>> /\ Tail(<<a>>) = <<>>
          OBVIOUS
    <3>2. filled = IF eFull THEN <<eData, eWaiting>>
                   ELSE IF pValid THEN <<eData, dataIn>> ELSE <<eData>>
          BY <2>2, <1>5 DEF Stored, eBuf!TypeOK
    <3>3. eBuf!contents' = IF eFull THEN <<eWaiting>>
                      ELSE IF pValid THEN <<dataIn>> ELSE <<>>
          BY <2>2, <1>2, <1>6 DEF Stored, eBuf!TypeOK
    <3> HIDE DEF filled, out
    <3> QED BY <2>1, <2>2, <3>1, <3>2, <3>3 DEF eBuf!TypeOK
  <2>3. CASE ~(eValid /\ nReady)
        BY <2>1, <2>3, <1>2, <1>5, <1>6 DEF Stored, eBuf!TypeOK, eBuf!OEHBFirst
  <2> QED BY <2>2, <2>3
<1>8. Len(eBuf!contents) < 2 => eBuf!ready
      BY <1>1 DEF Stored, eBuf!ready, eBuf!tehb1!ready
<1>9. Len(eBuf!contents') <= 2
      BY <1>2 DEF Stored
<1>10. eEdge' = [in |-> in, ready |-> eBuf!ready, out |-> out, nReady |-> nReady]
      BY DEF eBuf!Cycle
<1> QED BY <1>4, <1>7, <1>8, <1>9, <1>10 DEF eBuf!stream!Cycle, eBuf!stream!Visible

\* The pair of half buffers implements a queue of two tokens: whatever the
\* producer offers and whenever the consumer is ready, no token is lost,
\* duplicated or overtaken, and none is refused while there is room.
THEOREM EBufImplements == eBuf!Spec => IsElasticQueue
<1>1. eBuf!Init => eBuf!stream!Init
  <2> SUFFICES ASSUME eBuf!Init PROVE eBuf!stream!Init
      OBVIOUS
  <2>1. eBuf!contents = <<>>
        BY DEF eBuf!Init, eBuf!Reset, eBuf!tehb1!Reset, eBuf!oehb1!Reset,
           eBuf!contents
  <2>2. eEdge = eBuf!stream!Idle
        BY DEF eBuf!Init, eBuf!Idle, eBuf!stream!Idle
  <2> QED BY <2>1, <2>2 DEF eBuf!stream!Init
<1>2. eBuf!TypeOK /\ eBuf!OEHBFirst /\ eBuf!TypeOK' /\ eBuf!OEHBFirst' /\
[eBuf!Next]_(eBuf!vars)
        => [eBuf!stream!Next]_(eBuf!stream!vars)
  <2> SUFFICES ASSUME eBuf!TypeOK, eBuf!OEHBFirst, eBuf!TypeOK', eBuf!OEHBFirst',
  [eBuf!Next]_(eBuf!vars)
               PROVE  [eBuf!stream!Next]_(eBuf!stream!vars)
      OBVIOUS
  <2>1. CASE UNCHANGED eBuf!vars
        BY <2>1 DEF eBuf!vars, eBuf!stream!vars, eBuf!contents
  <2>2. ASSUME NEW pValid \in BOOLEAN, NEW nReady \in BOOLEAN,
               NEW dataIn \in Data, eBuf!Cycle(pValid, dataIn, nReady)
        PROVE  eBuf!stream!Next
    <3>1. eBuf!stream!Cycle(eBuf!Offer(pValid, dataIn), eBuf!ready, nReady)
          BY <2>2, EBufCycleImplements
    <3>2. eBuf!Offer(pValid, dataIn) \in eBuf!stream!Token /\ eBuf!ready \in BOOLEAN
          BY DEF eBuf!Offer, eBuf!stream!Token, eBuf!ready, eBuf!tehb1!ready,
             eBuf!TypeOK
    <3> QED BY <3>1, <3>2 DEF eBuf!stream!Next
  <2> QED BY <2>1, <2>2 DEF eBuf!Next
<1> QED BY <1>1, <1>2, EBufTypeCorrect, EBufOrderKept, PTL
        DEF eBuf!Spec, IsElasticQueue, eBuf!IsElasticQueue, eBuf!stream!Spec
------------------------------------------------------------------------------
\* The theorems about the FIFOs are about rings of their own registers.
nProofs == INSTANCE elasticFifoInner_proofs WITH edge <- nEdge
tProofs == INSTANCE elasticFifoInner_proofs WITH
  Memory <- tMemory, Head_ <- tHead, Tail_ <- tTail, Full <- tFull,
  Empty <- tEmpty, edge <- tEdge

\* The FIFOs of the bench are those FIFOs.
LEMMA SameNFifo ==
  /\ nFifo!Init => nProofs!nFifo!Init
  /\ [nFifo!Next]_(nFifo!vars) => [nProofs!nFifo!Next]_(nProofs!nFifo!vars)
<1>1. nFifo!Init => nProofs!nFifo!Init
      BY DEF nFifo!Init, nFifo!Idle, nFifo!tehb!Reset, nFifo!fifo!Reset,
         nFifo!fifo!Slot, nProofs!nFifo!Init, nProofs!nFifo!Idle,
         nProofs!nFifo!tehb!Reset, nProofs!nFifo!fifo!Reset,
         nProofs!nFifo!fifo!Slot
<1>2. [nFifo!Next]_(nFifo!vars) => [nProofs!nFifo!Next]_(nProofs!nFifo!vars)
      BY DEF nFifo!vars, nFifo!regs, nFifo!Next, nFifo!Cycle, nFifo!Clock,
         nFifo!Offer, nFifo!tehb!full_next, nFifo!tehb!data_next,
         nFifo!tehb!reg_en, nFifo!tehb!valid, nFifo!tehb!dataOut,
         nFifo!tehb!ready, nFifo!tehb!Clock, nFifo!fifo!next,
         nFifo!fifo!ready, nFifo!fifo!valid, nFifo!fifo!dataOut,
         nFifo!fifo!ReadEn, nFifo!fifo!WriteEn, nFifo!fifo!fifo_proc,
         nFifo!fifo!TailUpdate_proc, nFifo!fifo!HeadUpdate_proc,
         nFifo!fifo!FullUpdate_proc, nFifo!fifo!EmptyUpdate_proc,
         nFifo!fifo!Clock, nProofs!nFifo!vars, nProofs!nFifo!regs,
         nProofs!nFifo!Next, nProofs!nFifo!Cycle, nProofs!nFifo!Clock,
         nProofs!nFifo!Offer, nProofs!nFifo!tehb!full_next,
         nProofs!nFifo!tehb!data_next, nProofs!nFifo!tehb!reg_en,
         nProofs!nFifo!tehb!valid, nProofs!nFifo!tehb!dataOut,
         nProofs!nFifo!tehb!ready, nProofs!nFifo!tehb!Clock,
         nProofs!nFifo!fifo!next, nProofs!nFifo!fifo!ready,
         nProofs!nFifo!fifo!valid, nProofs!nFifo!fifo!dataOut,
         nProofs!nFifo!fifo!ReadEn, nProofs!nFifo!fifo!WriteEn,
         nProofs!nFifo!fifo!fifo_proc, nProofs!nFifo!fifo!TailUpdate_proc,
         nProofs!nFifo!fifo!HeadUpdate_proc,
         nProofs!nFifo!fifo!FullUpdate_proc,
         nProofs!nFifo!fifo!EmptyUpdate_proc, nProofs!nFifo!fifo!Clock
<1> QED BY <1>1, <1>2

LEMMA SameNStream ==
  /\ nProofs!nFifo!stream!Init => nFifo!stream!Init
  /\ [nProofs!nFifo!stream!Next]_(nProofs!nFifo!stream!vars)
       => [nFifo!stream!Next]_(nFifo!stream!vars)
BY DEF nFifo!contents, nFifo!fifo!contents, nFifo!fifo!count, nFifo!stream!Init,
   nFifo!stream!Next, nFifo!stream!vars, nFifo!stream!Cycle,
   nFifo!stream!Arriving, nFifo!stream!Visible, nFifo!stream!Front,
   nFifo!stream!Token, nFifo!stream!Idle, nProofs!nFifo!contents,
   nProofs!nFifo!fifo!contents, nProofs!nFifo!fifo!count,
   nProofs!nFifo!stream!Init, nProofs!nFifo!stream!Next,
   nProofs!nFifo!stream!vars, nProofs!nFifo!stream!Cycle,
   nProofs!nFifo!stream!Arriving, nProofs!nFifo!stream!Visible,
   nProofs!nFifo!stream!Front, nProofs!nFifo!stream!Token,
   nProofs!nFifo!stream!Idle

LEMMA SameTFifo ==
  /\ tFifo!Init => tProofs!tFifo!Init
  /\ [tFifo!Next]_(tFifo!vars) => [tProofs!tFifo!Next]_(tProofs!tFifo!vars)
<1>1. tFifo!Init => tProofs!tFifo!Init
      BY DEF tFifo!Init, tFifo!Reset, tFifo!Idle, tFifo!fifo!Reset,
         tFifo!fifo!Slot, tProofs!tFifo!Init, tProofs!tFifo!Reset,
         tProofs!tFifo!Idle, tProofs!tFifo!fifo!Reset, tProofs!tFifo!fifo!Slot
<1>2. [tFifo!Next]_(tFifo!vars) => [tProofs!tFifo!Next]_(tProofs!tFifo!vars)
      BY DEF tFifo!vars, tFifo!regs, tFifo!Next, tFifo!Cycle, tFifo!Clock,
         tFifo!Offer, tFifo!mux_sel, tFifo!dataOut, tFifo!valid, tFifo!ready,
         tFifo!fifo_pvalid, tFifo!fifo!next, tFifo!fifo!ready,
         tFifo!fifo!valid, tFifo!fifo!dataOut, tFifo!fifo!ReadEn,
         tFifo!fifo!WriteEn, tFifo!fifo!fifo_proc, tFifo!fifo!TailUpdate_proc,
         tFifo!fifo!HeadUpdate_proc, tFifo!fifo!FullUpdate_proc,
         tFifo!fifo!EmptyUpdate_proc, tFifo!fifo!Clock, tProofs!tFifo!vars,
         tProofs!tFifo!regs, tProofs!tFifo!Next, tProofs!tFifo!Cycle,
         tProofs!tFifo!Clock, tProofs!tFifo!Offer, tProofs!tFifo!mux_sel,
         tProofs!tFifo!dataOut, tProofs!tFifo!valid, tProofs!tFifo!ready,
         tProofs!tFifo!fifo_pvalid, tProofs!tFifo!fifo!next,
         tProofs!tFifo!fifo!ready, tProofs!tFifo!fifo!valid,
         tProofs!tFifo!fifo!dataOut, tProofs!tFifo!fifo!ReadEn,
         tProofs!tFifo!fifo!WriteEn, tProofs!tFifo!fifo!fifo_proc,
         tProofs!tFifo!fifo!TailUpdate_proc,
         tProofs!tFifo!fifo!HeadUpdate_proc,
         tProofs!tFifo!fifo!FullUpdate_proc,
         tProofs!tFifo!fifo!EmptyUpdate_proc, tProofs!tFifo!fifo!Clock
<1> QED BY <1>1, <1>2

LEMMA SameTStream ==
  /\ tProofs!tFifo!stream!Init => tFifo!stream!Init
  /\ [tProofs!tFifo!stream!Next]_(tProofs!tFifo!stream!vars)
       => [tFifo!stream!Next]_(tFifo!stream!vars)
BY DEF tFifo!fifo!contents, tFifo!fifo!count, tFifo!stream!Init,
   tFifo!stream!Next, tFifo!stream!vars, tFifo!stream!Cycle,
   tFifo!stream!Arriving, tFifo!stream!Visible, tFifo!stream!Front,
   tFifo!stream!Token, tFifo!stream!Idle, tProofs!tFifo!fifo!contents,
   tProofs!tFifo!fifo!count, tProofs!tFifo!stream!Init,
   tProofs!tFifo!stream!Next, tProofs!tFifo!stream!vars,
   tProofs!tFifo!stream!Cycle, tProofs!tFifo!stream!Arriving,
   tProofs!tFifo!stream!Visible, tProofs!tFifo!stream!Front,
   tProofs!tFifo!stream!Token, tProofs!tFifo!stream!Idle
------------------------------------------------------------------------------
\* The load side of the memory controller hands every port its own words in
\* order, for every number of ports and of loads.
LoadWords == (loads!Ports \X Nat) \cup {loads!Nothing}

\* Every register has its type.
LoadRegsOK ==
  /\ addr_full \in [loads!Ports -> BOOLEAN] /\ addr_data \in [loads!Ports -> LoadWords]
  /\ data_full \in [loads!Ports -> BOOLEAN] /\ data_data \in [loads!Ports -> LoadWords]
  /\ answer_valid \in [loads!Ports -> BOOLEAN] /\ sel_prev \in [loads!Ports -> BOOLEAN]
  /\ out_reg \in [loads!Ports -> LoadWords] /\ read_data \in LoadWords
  /\ asked \in [loads!Ports -> Nat] /\ answered \in [loads!Ports -> Seq(LoadWords)]

One(bit) == IF bit THEN 1 ELSE 0

\* The loads of a port that left the circuit, by how far they came: handed
\* back; in the register behind the answer; answered by the RAM; waiting for it.
back(p)  == Len(answered[p])
kept(p)  == back(p) + One(data_full[p])
read(p)  == kept(p) + One(answer_valid[p])
waits(p) == read(p) + One(addr_full[p])

\* The loads of a port are in order along its way: each register that is in
\* use holds the load that comes next, and none is missing.
LoadsOfPort(p) ==
  /\ \A k \in 1 .. back(p) : answered[p][k] = <<p, k>>
  /\ data_full[p] => data_data[p] = <<p, back(p) + 1>>
  /\ answer_valid[p] => loads!out_data(p) = <<p, kept(p) + 1>>
  /\ addr_full[p] => addr_data[p] = <<p, read(p) + 1>>
  /\ asked[p] = waits(p)

LoadsOfPorts == \A p \in loads!Ports : LoadsOfPort(p)
------------------------------------------------------------------------------
\* The wires of a cycle, as Cycle defines them.
offered(offers) == [p \in loads!Ports |-> IF p \in offers THEN <<p, asked[p] + 1>>
                                                          ELSE loads!Nothing]
address_of(offers) ==
  [p \in loads!Ports |-> IF addr_full[p] THEN addr_data[p] ELSE offered(offers)[p]]
request_of(offers) == [p \in loads!Ports |-> p \in offers \/ addr_full[p]]
room_of == [p \in loads!Ports |-> ~data_full[p]]
sel_of(offers) == [p \in loads!Ports |-> loads!read_priority(p, request_of(offers), room_of)]

\* What a cycle does to the registers of a port.
LEMMA CycleOfPort ==
  ASSUME LoadRegsOK, NEW offers \in SUBSET loads!Ports, NEW accept \in SUBSET loads!Ports,
         loads!Cycle(offers, accept), NEW p \in loads!Ports
  PROVE  LET offer   == p \in offers
             taken   == p \in accept
             sel     == sel_of(offers)[p]
         IN  /\ sel => ~data_full[p] /\ (offer \/ addr_full[p])
             /\ addr_full'[p] <=> ((offer \/ addr_full[p]) /\ ~sel)
             /\ addr_data'[p] = IF ~addr_full[p] /\ offer /\ ~sel
                                THEN offered(offers)[p] ELSE addr_data[p]
             /\ data_full'[p] <=> ((answer_valid[p] \/ data_full[p]) /\ ~taken)
             /\ data_data'[p] = IF ~data_full[p] /\ answer_valid[p] /\ ~taken
                                THEN loads!out_data(p) ELSE data_data[p]
             /\ (sel_prev'[p] <=> sel)
             /\ answer_valid'[p] <=> (sel \/ (answer_valid[p] /\ data_full[p]))
             /\ out_reg'[p] = loads!out_data(p)
             /\ asked'[p] = IF offer /\ ~addr_full[p] THEN asked[p] + 1 ELSE asked[p]
             /\ answered'[p] = IF taken /\ (answer_valid[p] \/ data_full[p])
                               THEN Append(answered[p], IF data_full[p] THEN data_data[p]
                                                                 ELSE loads!out_data(p))
                               ELSE answered[p]
<1> DEFINE dataIn  == [r \in loads!Ports |->
                         IF r \in offers THEN <<r, asked[r] + 1>> ELSE loads!Nothing]
           request == [r \in loads!Ports |-> loads!Buffer_1(r)!valid(r \in offers)]
           room    == [r \in loads!Ports |-> loads!Buffer_2(r)!ready]
           sel     == [r \in loads!Ports |-> loads!read_priority(r, request, room)]
<1>1. dataIn = offered(offers) /\ request = request_of(offers) /\ room = room_of
      BY DEF offered, request_of, room_of, loads!Buffer_1!valid, loads!Buffer_2!ready
<1>2. sel = sel_of(offers)
      BY <1>1 DEF sel_of
<1> DEFINE address == [r \in loads!Ports |-> loads!Buffer_1(r)!dataOut(dataIn[r])]
           granted == [r \in loads!Ports |-> room[r] /\ sel[r]]
<1>3. /\ addr_full' = [r \in loads!Ports |->
                        loads!Buffer_1(r)!full_next(r \in offers, granted[r])]
      /\ addr_data' = [r \in loads!Ports |->
                        loads!Buffer_1(r)!data_next(r \in offers, dataIn[r], granted[r])]
      /\ data_full' = [r \in loads!Ports |->
                        loads!Buffer_2(r)!full_next(answer_valid[r], r \in accept)]
      /\ data_data' = [r \in loads!Ports |->
                        loads!Buffer_2(r)!data_next(answer_valid[r], loads!out_data(r),
                                                    r \in accept)]
      /\ sel_prev' = sel
      /\ answer_valid' = [r \in loads!Ports |-> loads!valid_next(r, sel, room)]
      /\ out_reg' = [r \in loads!Ports |-> loads!out_reg_next(r)]
      /\ asked' = [r \in loads!Ports |->
                    IF r \in offers /\ loads!Buffer_1(r)!ready THEN asked[r] + 1 ELSE asked[r]]
      /\ answered' = [r \in loads!Ports |->
                       IF r \in accept /\ loads!Buffer_2(r)!valid(answer_valid[r])
                       THEN Append(answered[r], loads!Buffer_2(r)!dataOut(loads!out_data(r)))
                       ELSE answered[r]]
      BY DEF loads!Cycle
<1>4. /\ dataIn[p] = offered(offers)[p] /\ room[p] = ~data_full[p]
      /\ sel[p] \in BOOLEAN /\ sel[p] => room[p] /\ (p \in offers \/ addr_full[p])
      BY <1>1 DEF offered, request_of, room_of, loads!read_priority, loads!requests
<1> HIDE DEF dataIn, request, room, sel, address
<1>5. granted[p] <=> sel[p]
      BY <1>4
<1> HIDE DEF granted
<1>6. addr_full'[p] <=> ((p \in offers \/ addr_full[p]) /\ ~sel[p])
      BY <1>3, <1>5 DEF loads!Buffer_1!full_next, loads!Buffer_1!valid
<1>7. addr_data'[p] = IF ~addr_full[p] /\ p \in offers /\ ~sel[p]
                      THEN offered(offers)[p] ELSE addr_data[p]
      BY <1>3, <1>4, <1>5 DEF loads!Buffer_1!data_next, loads!Buffer_1!reg_en,
         loads!Buffer_1!ready
<1>8. /\ data_full'[p] <=> ((answer_valid[p] \/ data_full[p]) /\ ~(p \in accept))
      /\ data_data'[p] = IF ~data_full[p] /\ answer_valid[p] /\ ~(p \in accept)
                         THEN loads!out_data(p) ELSE data_data[p]
      BY <1>3 DEF loads!Buffer_2!full_next, loads!Buffer_2!valid, loads!Buffer_2!data_next,
         loads!Buffer_2!reg_en, loads!Buffer_2!ready
<1>9. /\ sel_prev'[p] <=> sel[p]
      /\ out_reg'[p] = loads!out_data(p)
      /\ answer_valid'[p] <=> (sel[p] \/ (answer_valid[p] /\ data_full[p]))
      BY <1>3, <1>4 DEF loads!valid_next, loads!out_reg_next, loads!out_data
<1>10. asked'[p] = IF p \in offers /\ ~addr_full[p] THEN asked[p] + 1 ELSE asked[p]
      BY <1>3 DEF loads!Buffer_1!ready
<1>11. answered'[p] = IF p \in accept /\ (answer_valid[p] \/ data_full[p])
                      THEN Append(answered[p], IF data_full[p] THEN data_data[p]
                                                               ELSE loads!out_data(p))
                      ELSE answered[p]
      BY <1>3 DEF loads!Buffer_2!valid, loads!Buffer_2!dataOut
<1> QED BY <1>2, <1>4, <1>6, <1>7, <1>8, <1>9, <1>10, <1>11

\* Only one port is granted a read, so its address drives the RAM and its word
\* is on the output after the edge.
LEMMA GrantedIsRead ==
  ASSUME loads!LoadsAssumption,
         NEW offers \in SUBSET loads!Ports, NEW accept \in SUBSET loads!Ports,
         loads!Cycle(offers, accept), NEW p \in loads!Ports, sel_of(offers)[p]
  PROVE  read_data' = address_of(offers)[p]
<1> DEFINE sel == sel_of(offers)
<1>1. \A q \in loads!Ports : sel[q] => q = p
  <2> SUFFICES ASSUME NEW q \in loads!Ports, sel[q] PROVE q = p
      OBVIOUS
  <2>1. /\ loads!requests(p, request_of(offers), room_of)
        /\ loads!requests(q, request_of(offers), room_of)
        /\ ~(q < p) /\ ~(p < q)
        BY DEF sel_of, loads!read_priority
  <2>2. p \in Int /\ q \in Int
        BY DEF loads!LoadsAssumption, loads!Ports
  <2> QED BY <2>1, <2>2
<1>2. (CHOOSE r \in loads!Ports : sel[r] /\ \A q \in loads!Ports : sel[q] => q <= r) = p
  <2>1. sel[p] /\ \A q \in loads!Ports : sel[q] => q <= p
        BY <1>1 DEF loads!LoadsAssumption, loads!Ports
  <2> HIDE DEF sel
  <2> QED BY <1>1, <2>1
<1>3. read_data' = loads!ram(sel, address_of(offers))
  <2>1. /\ [r \in loads!Ports |-> IF r \in offers THEN <<r, asked[r] + 1>> ELSE loads!Nothing]
           = offered(offers)
        /\ [r \in loads!Ports |-> loads!Buffer_1(r)!valid(r \in offers)] = request_of(offers)
        /\ [r \in loads!Ports |-> loads!Buffer_2(r)!ready] = room_of
        BY DEF offered, request_of, room_of, loads!Buffer_1!valid, loads!Buffer_2!ready
  <2>2. [r \in loads!Ports |-> loads!Buffer_1(r)!dataOut(offered(offers)[r])]
          = address_of(offers)
        BY DEF address_of, loads!Buffer_1!dataOut
  <2> QED BY <2>1, <2>2 DEF loads!Cycle, sel_of
<1> QED BY <1>2, <1>3 DEF loads!ram, loads!read_address_mux

\* What a port's consumer is handed next and the word of its answer stand in
\* the order of its loads, after a cycle as before.
LEMMA CycleLoads ==
  ASSUME loads!LoadsAssumption, LoadRegsOK,
         NEW offers \in SUBSET loads!Ports, NEW accept \in SUBSET loads!Ports,
         loads!Cycle(offers, accept), NEW p \in loads!Ports, LoadsOfPort(p)
  PROVE  LoadsOfPort(p)'
<1> DEFINE offer == p \in offers
           taken == p \in accept
           sel   == sel_of(offers)[p]
<1>1. /\ sel => ~data_full[p] /\ (offer \/ addr_full[p])
      /\ addr_full'[p] <=> ((offer \/ addr_full[p]) /\ ~sel)
      /\ addr_data'[p] = IF ~addr_full[p] /\ offer /\ ~sel
                         THEN offered(offers)[p] ELSE addr_data[p]
      /\ data_full'[p] <=> ((answer_valid[p] \/ data_full[p]) /\ ~taken)
      /\ data_data'[p] = IF ~data_full[p] /\ answer_valid[p] /\ ~taken
                         THEN loads!out_data(p) ELSE data_data[p]
      /\ (sel_prev'[p] <=> sel)
      /\ answer_valid'[p] <=> (sel \/ (answer_valid[p] /\ data_full[p]))
      /\ out_reg'[p] = loads!out_data(p)
      /\ asked'[p] = IF offer /\ ~addr_full[p] THEN asked[p] + 1 ELSE asked[p]
      /\ answered'[p] = IF taken /\ (answer_valid[p] \/ data_full[p])
                        THEN Append(answered[p], IF data_full[p] THEN data_data[p]
                                                          ELSE loads!out_data(p))
                        ELSE answered[p]
      BY CycleOfPort
<1>2. /\ addr_full[p] \in BOOLEAN /\ data_full[p] \in BOOLEAN
      /\ answer_valid[p] \in BOOLEAN /\ asked[p] \in Nat
      /\ answered[p] \in Seq(LoadWords) /\ back(p) \in Nat
      BY DEF LoadRegsOK, back
<1>3. /\ offer => offered(offers)[p] = <<p, asked[p] + 1>>
      /\ address_of(offers)[p] = IF addr_full[p] THEN addr_data[p]
                                                 ELSE offered(offers)[p]
      BY DEF offered, address_of
<1>4. sel => loads!out_data(p)' = address_of(offers)[p]
      BY <1>1, GrantedIsRead DEF loads!out_data
<1>5. ~sel => loads!out_data(p)' = loads!out_data(p)
      BY <1>1 DEF loads!out_data
<1>6. IF taken /\ (answer_valid[p] \/ data_full[p])
      THEN answered'[p] = Append(answered[p], <<p, back(p) + 1>>)
      ELSE answered'[p] = answered[p]
      BY <1>1, <1>2 DEF LoadsOfPort, kept, One
<1>7. /\ \A k \in 1 .. back(p)' : answered'[p][k] = <<p, k>>
      /\ back(p)' = IF taken /\ (answer_valid[p] \/ data_full[p]) THEN back(p) + 1
                                                           ELSE back(p)
  <2>1. CASE taken /\ (answer_valid[p] \/ data_full[p])
    <3>1. <<p, back(p) + 1>> \in LoadWords
          BY <1>2 DEF LoadWords
    <3> DEFINE s == answered[p]
               e == <<p, back(p) + 1>>
    <3>2. s \in Seq(LoadWords) /\ Len(s) = back(p)
          BY <1>2 DEF back
    <3> HIDE DEF s, e
    <3>3. /\ Len(Append(s, e)) = back(p) + 1 /\ Append(s, e)[back(p) + 1] = e
          /\ \A k \in 1 .. back(p) : Append(s, e)[k] = s[k]
          BY <3>1, <3>2, AppendProperties DEF e
    <3>4. answered'[p] = Append(s, e)
          BY <2>1, <1>6 DEF s, e
    <3>5. \A k \in 1 .. back(p) : s[k] = <<p, k>>
          BY DEF LoadsOfPort, s
    <3>6. back(p)' = back(p) + 1
          BY <3>3, <3>4 DEF back
    <3>7. \A k \in 1 .. back(p) + 1 : Append(s, e)[k] = <<p, k>>
      <4>1. \A k \in 1 .. back(p) + 1 : k = back(p) + 1 \/ k \in 1 .. back(p)
            BY <1>2
      <4> QED BY <4>1, <3>3, <3>5 DEF e
    <3> QED BY <2>1, <3>4, <3>6, <3>7
  <2>2. CASE ~(taken /\ (answer_valid[p] \/ data_full[p]))
        BY <2>2, <1>6 DEF LoadsOfPort, back
  <2> QED BY <2>1, <2>2
<1> HIDE DEF offer, taken, sel
<1>8. data_full'[p] => data_data'[p] = <<p, back(p)' + 1>>
      BY <1>1, <1>2, <1>7 DEF LoadsOfPort, kept, One
<1>9. answer_valid'[p] => loads!out_data(p)' = <<p, kept(p)' + 1>>
  <2>1. CASE sel
    <3>1. loads!out_data(p)' = <<p, read(p) + 1>>
      <4>1. read(p) \in Nat
            BY <1>2 DEF read, kept, One
      <4>2. ~addr_full[p] => offer /\ asked[p] = read(p)
            BY <4>1, <2>1, <1>1 DEF LoadsOfPort, waits, One
      <4> QED BY <4>2, <2>1, <1>3, <1>4 DEF LoadsOfPort
    <3>2. kept(p)' = read(p)
          BY <2>1, <1>1, <1>2, <1>7 DEF read, kept, One
    <3> QED BY <3>1, <3>2
  <2>2. CASE ~sel
    <3>1. answer_valid'[p] => answer_valid[p] /\ kept(p)' = kept(p)
          BY <2>2, <1>1, <1>2, <1>7 DEF kept, One
    <3> QED BY <2>2, <3>1, <1>5 DEF LoadsOfPort
  <2> QED BY <2>1, <2>2
<1>10. addr_full'[p] => addr_data'[p] = <<p, read(p)' + 1>>
      BY <1>1, <1>2, <1>3, <1>7 DEF LoadsOfPort, waits, read, kept, One
<1>11. asked'[p] = waits(p)'
      BY <1>1, <1>2, <1>7 DEF LoadsOfPort, waits, read, kept, One
<1> QED BY <1>7, <1>8, <1>9, <1>10, <1>11 DEF LoadsOfPort
------------------------------------------------------------------------------
\* After reset no load is under way.
LEMMA InitLoads == loads!Init => LoadRegsOK /\ LoadsOfPorts
<1> SUFFICES ASSUME loads!Init PROVE LoadRegsOK /\ LoadsOfPorts
    OBVIOUS
<1>1. LoadRegsOK
      BY DEF loads!Init, LoadRegsOK, LoadWords
<1>2. ASSUME NEW p \in loads!Ports
      PROVE  LoadsOfPort(p)
      BY DEF loads!Init, LoadsOfPort, back, kept, read, waits, One
<1> QED BY <1>1, <1>2 DEF LoadsOfPorts

\* A cycle keeps every register in its type.
LEMMA CycleLoadRegs ==
  ASSUME loads!LoadsAssumption, LoadRegsOK,
         NEW offers \in SUBSET loads!Ports, NEW accept \in SUBSET loads!Ports,
         loads!Cycle(offers, accept)
  PROVE  LoadRegsOK'
<1>1. \A p \in loads!Ports : offered(offers)[p] \in LoadWords /\ loads!out_data(p) \in LoadWords
      BY DEF LoadRegsOK, offered, loads!out_data, LoadWords
<1>2. /\ addr_full' \in [loads!Ports -> BOOLEAN] /\ data_full' \in [loads!Ports -> BOOLEAN]
      /\ answer_valid' \in [loads!Ports -> BOOLEAN] /\ sel_prev' \in [loads!Ports -> BOOLEAN]
      BY DEF loads!Cycle, LoadRegsOK, loads!Buffer_1!full_next, loads!Buffer_1!valid,
         loads!Buffer_2!full_next, loads!Buffer_2!valid, loads!valid_next,
         loads!read_priority, loads!requests
<1>3. \A p \in loads!Ports :
         /\ addr_data'[p] \in LoadWords /\ data_data'[p] \in LoadWords
         /\ out_reg'[p] \in LoadWords
         /\ asked'[p] \in Nat /\ answered'[p] \in Seq(LoadWords)
  <2> SUFFICES ASSUME NEW p \in loads!Ports
               PROVE  /\ addr_data'[p] \in LoadWords /\ data_data'[p] \in LoadWords
                      /\ out_reg'[p] \in LoadWords
                      /\ asked'[p] \in Nat /\ answered'[p] \in Seq(LoadWords)
      OBVIOUS
  <2>1. /\ addr_data[p] \in LoadWords /\ data_data[p] \in LoadWords
        /\ asked[p] \in Nat /\ answered[p] \in Seq(LoadWords)
        BY DEF LoadRegsOK
  <2>2. \A w \in LoadWords : Append(answered[p], w) \in Seq(LoadWords)
        BY <2>1, AppendProperties
  <2>3. /\ addr_data'[p] \in {addr_data[p], offered(offers)[p]}
        /\ data_data'[p] \in {data_data[p], loads!out_data(p)}
        /\ out_reg'[p] = loads!out_data(p)
        /\ asked'[p] \in {asked[p], asked[p] + 1}
        /\ answered'[p] \in {answered[p], Append(answered[p], data_data[p]),
                             Append(answered[p], loads!out_data(p))}
        BY CycleOfPort
  <2>4. /\ addr_data'[p] \in LoadWords /\ data_data'[p] \in LoadWords
        /\ out_reg'[p] \in LoadWords
        BY <1>1, <2>1, <2>3
  <2>5. asked'[p] \in Nat
        BY <2>1, <2>3
  <2>6. answered'[p] \in Seq(LoadWords)
    <3>1. /\ Append(answered[p], data_data[p]) \in Seq(LoadWords)
          /\ Append(answered[p], loads!out_data(p)) \in Seq(LoadWords)
          BY <1>1, <2>1, <2>2
    <3> QED BY <2>1, <2>3, <3>1
  <2> QED BY <2>4, <2>5, <2>6
<1>4. /\ addr_data' \in [loads!Ports -> LoadWords] /\ data_data' \in [loads!Ports -> LoadWords]
      /\ out_reg' \in [loads!Ports -> LoadWords]
      /\ asked' \in [loads!Ports -> Nat] /\ answered' \in [loads!Ports -> Seq(LoadWords)]
      BY <1>3 DEF loads!Cycle
<1>5. read_data' \in LoadWords
  <2>1. CASE \E p \in loads!Ports : sel_of(offers)[p]
    <3>1. PICK p \in loads!Ports : sel_of(offers)[p]
          BY <2>1
    <3>2. read_data' = address_of(offers)[p]
          BY <3>1, GrantedIsRead
    <3> QED BY <3>2, <1>1 DEF LoadRegsOK, address_of
  <2>2. CASE ~\E p \in loads!Ports : sel_of(offers)[p]
    <3>1. /\ [r \in loads!Ports |-> loads!Buffer_1(r)!valid(r \in offers)] = request_of(offers)
          /\ [r \in loads!Ports |-> loads!Buffer_2(r)!ready] = room_of
          BY DEF request_of, room_of, loads!Buffer_1!valid, loads!Buffer_2!ready
    <3> QED BY <2>2, <3>1 DEF loads!Cycle, sel_of, loads!ram, LoadRegsOK
  <2> QED BY <2>1, <2>2
<1> QED BY <1>2, <1>4, <1>5 DEF LoadRegsOK

\* Every reachable state has its loads in order, for any number of ports: the
\* inductive invariant behind AnswersInOrder.
LEMMA NextLoads ==
  loads!LoadsAssumption /\ LoadRegsOK /\ LoadsOfPorts /\ [loads!Next]_(loads!vars)
    => LoadRegsOK' /\ LoadsOfPorts'
<1> SUFFICES ASSUME loads!LoadsAssumption, LoadRegsOK, LoadsOfPorts, [loads!Next]_(loads!vars)
             PROVE  LoadRegsOK' /\ LoadsOfPorts'
    OBVIOUS
<1>1. CASE UNCHANGED loads!vars
      BY <1>1 DEF loads!vars, LoadRegsOK, LoadsOfPorts, LoadsOfPort, back, kept, read, waits,
         loads!out_data
<1>2. ASSUME NEW offers \in SUBSET loads!Ports, NEW accept \in SUBSET loads!Ports,
             loads!Cycle(offers, accept)
      PROVE  LoadRegsOK' /\ LoadsOfPorts'
      BY <1>2, CycleLoadRegs, CycleLoads DEF LoadsOfPorts
<1> QED BY <1>1, <1>2 DEF loads!Next

\* Every register of the load side keeps its type, and the loads of a port that
\* are under way are in order and none is missing: in its address register, at
\* the output of the RAM or in the answer register, and in its data register.
THEOREM LoadsInOrder ==
  ASSUME loads!LoadsAssumption PROVE loads!Spec => [](LoadRegsOK /\ LoadsOfPorts)
BY InitLoads, NextLoads, loads!LoadsAssumption, PTL DEF loads!Spec

\* Every port is handed the words of its own addresses in the order it asked,
\* for every number of ports that share the RAM and whatever they and their
\* consumers do.
THEOREM PortsGetOwnAnswers ==
  ASSUME loads!LoadsAssumption PROVE loads!Spec => []loads!AnswersInOrder
<1>1. LoadRegsOK /\ LoadsOfPorts => loads!AnswersInOrder
  <2> SUFFICES ASSUME LoadRegsOK, LoadsOfPorts, NEW p \in loads!Ports,
                      NEW k \in DOMAIN answered[p]
               PROVE  answered[p][k] = <<p, k>>
      BY DEF loads!AnswersInOrder
  <2>1. answered[p] \in Seq(LoadWords)
        BY DEF LoadRegsOK
  <2>2. k \in 1 .. back(p)
        BY <2>1 DEF back
  <2> QED BY <2>2 DEF LoadsOfPorts, LoadsOfPort
<1> QED BY <1>1, LoadsInOrder, PTL
------------------------------------------------------------------------------
\* The theorems about the memory controller, for the registers of the bench.
storeProofs == INSTANCE MemCont_proofs WITH Stores <- MCStores

LEMMA SameSums == \A f : stores!SumFunction(f) = storeProofs!SumFunction(f)
BY DEF stores!SumFunction, stores!SumFunctionOnSet, stores!FoldFunctionOnSet,
   stores!MapThenFoldSet, storeProofs!SumFunction, storeProofs!SumFunctionOnSet,
   storeProofs!FoldFunctionOnSet, storeProofs!MapThenFoldSet

\* The store side of the bench is that store side.
LEMMA SameStores ==
  /\ stores!Init => storeProofs!Init
  /\ [stores!Next]_(stores!vars) => [storeProofs!Next]_(storeProofs!vars)
<1>1. stores!Init => storeProofs!Init
      BY DEF stores!Init, stores!Ports, stores!Blocks, storeProofs!Init,
         storeProofs!Ports, storeProofs!Blocks
<1>2. \A b : stores!stCount(b) = storeProofs!stCount(b)
      BY SameSums DEF stores!stCount, storeProofs!stCount
<1>3. \A bbpValid : stores!counted(bbpValid) = storeProofs!counted(bbpValid)
      BY SameSums, <1>2 DEF stores!counted, storeProofs!counted, stores!Blocks,
         storeProofs!Blocks
<1>4. stores!Pending = storeProofs!Pending
      BY SameSums DEF stores!Pending, stores!Ports, stores!due, stores!Blocks,
         storeProofs!Pending, storeProofs!Ports, storeProofs!due, storeProofs!Blocks
<1>5. ASSUME NEW bbpValid, NEW address, NEW data, NEW return
      PROVE  stores!Cycle(bbpValid, address, data, return)
               => storeProofs!Cycle(bbpValid, address, data, return)
  <2>1. \A enable : stores!Counter(bbpValid, enable) = storeProofs!Counter(bbpValid, enable)
        BY <1>3 DEF stores!Counter, storeProofs!Counter
  <2>2. stores!Ports = storeProofs!Ports /\ stores!Blocks = storeProofs!Blocks
        BY DEF stores!Ports, storeProofs!Ports, stores!Blocks, storeProofs!Blocks
  <2> QED BY <2>1, <2>2
          DEF stores!Cycle, stores!join_valid, stores!write_priority,
             stores!io_Empty_Valid, stores!end_node_valid, storeProofs!Cycle,
             storeProofs!join_valid, storeProofs!write_priority,
             storeProofs!io_Empty_Valid, storeProofs!end_node_valid
<1>6. [stores!Next]_(stores!vars) => [storeProofs!Next]_(storeProofs!vars)
      BY <1>4, <1>5 DEF stores!Next, stores!vars, stores!Blocks, storeProofs!Next,
         storeProofs!vars, storeProofs!Blocks
<1> QED BY <1>1, <1>6
------------------------------------------------------------------------------
\* Of the components one runs and the others stay as they are.
LEMMA BenchSteps ==
  /\ BenchInit => AllInit /\ loads!Init /\ stores!Init
  /\ [BenchNext]_benchVars => /\ [eBuf!Next]_(eBuf!vars)
                               /\ [nFifo!Next]_(nFifo!vars)
                               /\ [tFifo!Next]_(tFifo!vars)
                               /\ [loads!Next]_(loads!vars)
                               /\ [stores!Next]_(stores!vars)
<1>1. [BenchNext]_benchVars => [AllNext]_allVars
      BY DEF BenchNext, benchVars, OnlyBuffers, OnlyLoads, OnlyStores
<1>2. [AllNext]_allVars => /\ [eBuf!Next]_(eBuf!vars)
                           /\ [nFifo!Next]_(nFifo!vars)
                           /\ [tFifo!Next]_(tFifo!vars)
      BY DEF AllNext, AllCycle, allVars, vars, eBuf!Next, eBuf!vars, nFifo!Next,
         nFifo!vars, nFifo!regs, tFifo!Next, tFifo!vars, tFifo!regs
<1>3. [BenchNext]_benchVars => [loads!Next]_(loads!vars) /\ [stores!Next]_(stores!vars)
      BY DEF BenchNext, benchVars, OnlyBuffers, OnlyLoads, OnlyStores, loadVars,
         storeVars, loads!vars, stores!vars
<1> QED BY <1>1, <1>2, <1>3 DEF BenchInit

\* Whatever its buffers are given: nontranspFifo is an opaque queue one token
\* deeper than its ring, and transpFIFO a transparent queue.
THEOREM FIFOsImplement == BenchSpec => FIFOsAreQueues
<1>1. AllInit => nFifo!Init /\ tFifo!Init
      BY DEF AllInit
<1> QED BY <1>1, DepthAssumption, DataAssumption, nProofs!NontranspImplements,
        tProofs!TranspImplements, BenchSteps, SameNFifo, SameNStream, SameTFifo, SameTStream, PTL
        DEF BenchSpec, FIFOsAreQueues, nFifo!IsStreamBuffer, nFifo!stream!Spec,
            tFifo!IsStreamBuffer, tFifo!stream!Spec, nProofs!nFifo!Spec,
            nProofs!nFifo!IsStreamBuffer, nProofs!nFifo!stream!Spec,
            tProofs!tFifo!Spec, tProofs!tFifo!IsStreamBuffer, tProofs!tFifo!stream!Spec

\* Every load port of the bench, however many there are, is handed the words of
\* its own addresses in the order it asked.
THEOREM LoadsAnswered == BenchSpec => []AnswersInOrder
<1>1. loads!Init /\ [][loads!Next]_(loads!vars) => []loads!AnswersInOrder
      BY BenchAssumption, PortsGetOwnAnswers DEF loads!Spec
<1> QED BY <1>1, BenchSteps, PTL DEF BenchSpec, AnswersInOrder

\* The circuit of the bench, however often its blocks run, exits only when its
\* last store is in the memory.
THEOREM StoresDone == BenchSpec => []ExitAfterLastStore
<1>1. storeProofs!StoresAssumption /\ storeProofs!FitAssumption
      BY BenchAssumption, SameSums
      DEF stores!StoresAssumption, stores!FitAssumption, stores!Ports,
          stores!Blocks, stores!stCount, storeProofs!StoresAssumption,
          storeProofs!FitAssumption, storeProofs!Ports, storeProofs!Blocks,
          storeProofs!stCount
<1>2. storeProofs!Spec => []storeProofs!ExitAfterLastStore
      BY <1>1, storeProofs!ExitsAfterLastStore
<1>3. storeProofs!ExitAfterLastStore => ExitAfterLastStore
      BY SameSums DEF ExitAfterLastStore, stores!ExitAfterLastStore, stores!Ports,
         stores!due, stores!Blocks, storeProofs!ExitAfterLastStore,
         storeProofs!Ports, storeProofs!due, storeProofs!Blocks
<1> QED BY <1>2, <1>3, BenchSteps, SameStores, PTL DEF BenchSpec, storeProofs!Spec
==============================================================================
