--------------------------- MODULE Steering_proofs ---------------------------
(***************************************************************************)
(* The eager fork serves every output exactly once per token, for every     *)
(* number of outputs; and what is proved of the entry of a block alone, of  *)
(* the one in the bench of MCSteering; and the circuit of a loop stores in  *)
(* program order and exits once, wherever its buffers sit.                  *)
(***************************************************************************)
EXTENDS MCSteering, Integers, SequenceTheorems, TLAPS

\* After reset every register and wire has its type.
LEMMA InitTypeOK == Init => TypeOK
<1> SUFFICES ASSUME Init PROVE TypeOK
    OBVIOUS
<1>1. edge \in [in : Token, ready : BOOLEAN, out : [Outputs -> Token],
                nReady : [Outputs -> BOOLEAN]]
      BY DEF Init, Token
<1> QED BY <1>1 DEF Init, Reset, TypeOK

\* A clock edge keeps every register and wire in its type.
LEMMA NextTypeOK == TypeOK /\ [Next]_vars => TypeOK'
<1> SUFFICES ASSUME TypeOK, [Next]_vars PROVE TypeOK'
    OBVIOUS
<1>1. CASE UNCHANGED vars
      BY <1>1 DEF vars, TypeOK
<1>2. ASSUME NEW pValid \in BOOLEAN, NEW dataIn \in Data,
             NEW nReady \in [Outputs -> BOOLEAN], Cycle(pValid, dataIn, nReady)
      PROVE TypeOK'
  <2>1. \A i \in Outputs : reg_in(i, pValid, nReady) \in BOOLEAN
        BY DEF reg_in, block_stop
  <2>2. reg_value' \in [Outputs -> BOOLEAN]
        BY <1>2, <2>1 DEF Cycle, Clock
  <2>3. \A i \in Outputs : Offer(valid(i, pValid), dataIn) \in Token
        BY DEF Offer, Token
  <2>4. Offer(pValid, dataIn) \in Token /\ ready(nReady) \in BOOLEAN
        BY DEF Offer, Token, ready
  <2>5. edge' \in [in : Token, ready : BOOLEAN, out : [Outputs -> Token],
                   nReady : [Outputs -> BOOLEAN]]
        BY <1>2, <2>3, <2>4 DEF Cycle
  <2> QED BY <2>2, <2>5 DEF TypeOK
<1> QED BY <1>1, <1>2 DEF Next

\* Every register and every observed wire of the fork has its type.
THEOREM TypeCorrect == Spec => []TypeOK
BY InitTypeOK, NextTypeOK, PTL DEF Spec

\* A cycle that leaves no block waiting consumes the token, and then all of
\* them are armed again.
LEMMA NextSomeoneWaits == TypeOK /\ SomeoneWaits /\ [Next]_vars => SomeoneWaits'
<1> SUFFICES ASSUME TypeOK, SomeoneWaits, [Next]_vars PROVE SomeoneWaits'
    OBVIOUS
<1>1. CASE UNCHANGED vars
      BY <1>1 DEF vars, SomeoneWaits
<1>2. ASSUME NEW pValid \in BOOLEAN, NEW dataIn \in Data,
             NEW nReady \in [Outputs -> BOOLEAN], Cycle(pValid, dataIn, nReady)
      PROVE SomeoneWaits'
  <2>1. \A i \in Outputs : reg_value'[i] = reg_in(i, pValid, nReady)
        BY <1>2 DEF Cycle, Clock
  <2>2. CASE forkStop(nReady)
    <3>1. PICK i \in Outputs : block_stop(i, nReady)
          BY <2>2 DEF forkStop
    <3> QED BY <3>1, <2>1 DEF SomeoneWaits, reg_in
  <2>3. CASE ~forkStop(nReady)
        BY <2>1, <2>3 DEF SomeoneWaits, reg_in
  <2> QED BY <2>2, <2>3
<1> QED BY <1>1, <1>2 DEF Next

\* No fork holds its input after it has served every output.
THEOREM AlwaysSomeoneWaits == Spec => []SomeoneWaits
<1>1. Init => SomeoneWaits
      BY SizeAssumption, 0 \in Outputs DEF Init, Reset, SomeoneWaits, Outputs
<1> QED BY <1>1, NextSomeoneWaits, TypeCorrect, PTL DEF Spec
------------------------------------------------------------------------------
\* A token that was served in part is being offered and was not accepted.
PartlyServed ==
  (\E i \in Outputs : ~reg_value[i]) => edge.in # NoToken /\ ~edge.ready

\* A clock edge leaves the fork partly served only with an offered token.
LEMMA NextPartlyServed == TypeOK /\ PartlyServed /\ [Next]_vars => PartlyServed'
<1> SUFFICES ASSUME TypeOK, PartlyServed, [Next]_vars PROVE PartlyServed'
    OBVIOUS
<1>1. CASE UNCHANGED vars
      BY <1>1 DEF vars, PartlyServed
<1>2. ASSUME NEW pValid \in BOOLEAN, NEW dataIn \in Data,
             NEW nReady \in [Outputs -> BOOLEAN], Cycle(pValid, dataIn, nReady),
             NEW i \in Outputs, ~reg_value'[i]
      PROVE edge'.in # NoToken /\ ~edge'.ready
  <2>1. ~reg_in(i, pValid, nReady)
        BY <1>2 DEF Cycle, Clock
  <2>2. pValid /\ forkStop(nReady)
        BY <2>1 DEF reg_in
  <2>3. edge'.in = Offer(pValid, dataIn) /\ edge'.ready = ready(nReady)
        BY <1>2 DEF Cycle
  <2> QED BY <2>2, <2>3, DataAssumption DEF Offer, ready
<1> QED BY <1>1, <1>2 DEF Next, PartlyServed

\* The tokens that some outputs have had and others have not are on offer.
LEMMA AlwaysPartlyServed == Spec => []PartlyServed
<1>1. Init => PartlyServed
      BY DEF Init, Reset, PartlyServed
<1> QED BY <1>1, NextPartlyServed, TypeCorrect, PTL DEF Spec

\* Every clock cycle of the fork is a cycle of the abstract broadcast.
LEMMA CycleImplements ==
  ASSUME TypeOK, PartlyServed, NEW pValid \in BOOLEAN, NEW dataIn \in Data,
         NEW nReady \in [Outputs -> BOOLEAN], Cycle(pValid, dataIn, nReady)
  PROVE  broadcast!Cycle(Offer(pValid, dataIn), nReady)
<1> DEFINE pending == {i \in Outputs : reg_value[i]}
           served  == {i \in pending : nReady[i]}
           done    == pending = served
<1>1. ready(nReady) = done
      BY DEF ready, forkStop, block_stop, TypeOK
<1>2. (Offer(pValid, dataIn) = NoToken) = ~pValid
      BY DataAssumption DEF Offer
<1>3. {i \in Outputs : reg_value'[i]}
        = IF ~pValid THEN pending ELSE IF done THEN Outputs ELSE pending \ served
  <2>1. \A i \in Outputs : reg_value'[i] = reg_in(i, pValid, nReady)
        BY DEF Cycle, Clock
  <2>2. CASE ~pValid
    <3>1. \A i \in Outputs : reg_value'[i]
          BY <2>1, <2>2 DEF reg_in
    <3>2. \A i \in Outputs : reg_value[i]
          BY <2>2, <1>2 DEF PartlyServed, Cycle, Persistent
    <3> QED BY <3>1, <3>2, <2>2
  <2>3. CASE pValid /\ done
        BY <2>1, <2>3, <1>1 DEF reg_in, ready
  <2>4. CASE pValid /\ ~done
        BY <2>1, <2>4, <1>1 DEF reg_in, ready, block_stop, TypeOK
  <2> QED BY <2>2, <2>3, <2>4
<1>4. \A i \in Outputs :
        Offer(valid(i, pValid), dataIn)
          = IF i \in pending THEN Offer(pValid, dataIn) ELSE NoToken
      BY DEF valid, Offer
<1>5. edge' = [in |-> Offer(pValid, dataIn), ready |-> done,
               out |-> [i \in Outputs |-> IF i \in pending
                                          THEN Offer(pValid, dataIn) ELSE NoToken],
               nReady |-> nReady]
      BY <1>1, <1>4 DEF Cycle
<1>6. pending # Outputs => Offer(pValid, dataIn) = edge.in
      BY DEF PartlyServed, Cycle, Persistent
<1> QED BY <1>2, <1>3, <1>5, <1>6 DEF broadcast!Cycle

\* Under a persistent producer the eager fork gives every token to each of its
\* outputs exactly once, and consumes it when the last one has had it.
THEOREM Implements == Spec => IsBroadcast
<1>1. Init => broadcast!Init
      BY DEF Init, Reset, broadcast!Init
<1>2. TypeOK /\ PartlyServed /\ [Next]_vars
        => [broadcast!Next]_<<{i \in Outputs : reg_value[i]}, edge>>
  <2> SUFFICES ASSUME TypeOK, PartlyServed, [Next]_vars
               PROVE  [broadcast!Next]_<<{i \in Outputs : reg_value[i]}, edge>>
      OBVIOUS
  <2>1. CASE UNCHANGED vars
        BY <2>1 DEF vars
  <2>2. ASSUME NEW pValid \in BOOLEAN, NEW dataIn \in Data,
               NEW nReady \in [Outputs -> BOOLEAN], Cycle(pValid, dataIn, nReady)
        PROVE  broadcast!Next
    <3>1. Offer(pValid, dataIn) \in broadcast!Token
          BY DEF Offer, broadcast!Token
    <3> QED BY <2>2, <3>1, CycleImplements DEF broadcast!Next
  <2> QED BY <2>1, <2>2 DEF Next
<1> QED BY <1>1, <1>2, TypeCorrect, AlwaysPartlyServed, PTL
           DEF Spec, IsBroadcast, broadcast!Spec
------------------------------------------------------------------------------
\* The theorems about the entry of a block, for the registers of the bench.
entryProofs == INSTANCE BlockEntry_proofs

\* Counting is the same for both.
LEMMA SameCounts ==
  \A s, k : entry!among(s, k) = entryProofs!among(s, k)
<1>1. \A S : entry!Cardinality(S) = entryProofs!Cardinality(S)
      BY DEF entry!Cardinality, entryProofs!Cardinality
<1> QED BY <1>1 DEF entry!among, entryProofs!among

\* The entry in the bench is that entry.
LEMMA SameEntry ==
  /\ entry!Init => entryProofs!Init
  /\ [entry!Next]_(entry!vars) => [entryProofs!Next]_(entryProofs!vars)
<1>1. entry!Init => entryProofs!Init
      BY DEF entry!Init, entry!Sides, entry!Values, entry!phi_C!Reset,
         entry!phi_C!oehb1!Reset, entry!phi_C!fork_C1!Reset,
         entry!phi_C!fork_C1!Outputs, entry!fork_cond!Reset,
         entry!fork_cond!Outputs, entryProofs!Init, entryProofs!Sides,
         entryProofs!Values, entryProofs!phi_C!Reset,
         entryProofs!phi_C!oehb1!Reset, entryProofs!phi_C!fork_C1!Reset,
         entryProofs!phi_C!fork_C1!Outputs, entryProofs!fork_cond!Reset,
         entryProofs!fork_cond!Outputs
<1>2. ASSUME NEW control, NEW offers, NEW acceptControl, NEW accept
      PROVE  entry!Cycle(control, offers, acceptControl, accept)
               => entryProofs!Cycle(control, offers, acceptControl, accept)
      BY DEF entry!Cycle, entry!Sides, entry!Values, entry!phi!Predecessors,
         entry!phi!Chosen, entry!phi!tmp_valid_out, entry!phi!tmp_data_out,
         entry!phi!readyData, entry!phi!readyCondition, entry!phi!valid,
         entry!phi!dataOut, entry!phi!full_next, entry!phi!data_next,
         entry!phi!tehb1!full_next, entry!phi!tehb1!data_next,
         entry!phi!tehb1!reg_en, entry!phi!tehb1!valid, entry!phi!tehb1!ready,
         entry!phi!tehb1!dataOut, entry!fork_cond!Outputs,
         entry!fork_cond!valid, entry!fork_cond!block_stop,
         entry!fork_cond!forkStop, entry!fork_cond!ready,
         entry!fork_cond!reg_in, entry!fork_cond!Clock, entry!phi_C!phi_valid,
         entry!phi_C!index, entry!phi_C!ready, entry!phi_C!valid,
         entry!phi_C!condition, entry!phi_C!Clock,
         entry!phi_C!oehb1!full_next, entry!phi_C!oehb1!data_next,
         entry!phi_C!oehb1!reg_en, entry!phi_C!oehb1!valid,
         entry!phi_C!oehb1!ready, entry!phi_C!oehb1!dataOut,
         entry!phi_C!oehb1!Clock, entry!phi_C!fork_C1!Outputs,
         entry!phi_C!fork_C1!valid, entry!phi_C!fork_C1!block_stop,
         entry!phi_C!fork_C1!forkStop, entry!phi_C!fork_C1!ready,
         entry!phi_C!fork_C1!reg_in, entry!phi_C!fork_C1!Clock,
         entryProofs!Cycle, entryProofs!Sides, entryProofs!Values,
         entryProofs!phi!Predecessors, entryProofs!phi!Chosen,
         entryProofs!phi!tmp_valid_out, entryProofs!phi!tmp_data_out,
         entryProofs!phi!readyData, entryProofs!phi!readyCondition,
         entryProofs!phi!valid, entryProofs!phi!dataOut,
         entryProofs!phi!full_next, entryProofs!phi!data_next,
         entryProofs!phi!tehb1!full_next, entryProofs!phi!tehb1!data_next,
         entryProofs!phi!tehb1!reg_en, entryProofs!phi!tehb1!valid,
         entryProofs!phi!tehb1!ready, entryProofs!phi!tehb1!dataOut,
         entryProofs!fork_cond!Outputs, entryProofs!fork_cond!valid,
         entryProofs!fork_cond!block_stop, entryProofs!fork_cond!forkStop,
         entryProofs!fork_cond!ready, entryProofs!fork_cond!reg_in,
         entryProofs!fork_cond!Clock, entryProofs!phi_C!phi_valid,
         entryProofs!phi_C!index, entryProofs!phi_C!ready,
         entryProofs!phi_C!valid, entryProofs!phi_C!condition,
         entryProofs!phi_C!Clock, entryProofs!phi_C!oehb1!full_next,
         entryProofs!phi_C!oehb1!data_next, entryProofs!phi_C!oehb1!reg_en,
         entryProofs!phi_C!oehb1!valid, entryProofs!phi_C!oehb1!ready,
         entryProofs!phi_C!oehb1!dataOut, entryProofs!phi_C!oehb1!Clock,
         entryProofs!phi_C!fork_C1!Outputs, entryProofs!phi_C!fork_C1!valid,
         entryProofs!phi_C!fork_C1!block_stop,
         entryProofs!phi_C!fork_C1!forkStop, entryProofs!phi_C!fork_C1!ready,
         entryProofs!phi_C!fork_C1!reg_in, entryProofs!phi_C!fork_C1!Clock
<1>3. entry!ControlOffers = entryProofs!ControlOffers
      BY SameCounts DEF entry!ControlOffers, entry!sent, entry!Sides,
         entryProofs!ControlOffers, entryProofs!sent, entryProofs!Sides
<1>4. \A v : entry!DataOffers(v) = entryProofs!DataOffers(v)
      BY DEF entry!DataOffers, entry!Sides, entryProofs!DataOffers,
         entryProofs!Sides
<1>5. [entry!Next]_(entry!vars) => [entryProofs!Next]_(entryProofs!vars)
      BY <1>2, <1>3, <1>4
         DEF entry!Next, entry!vars, entry!circuit, entry!Values, entry!Sides,
         entryProofs!Next, entryProofs!vars, entryProofs!circuit,
         entryProofs!Values, entryProofs!Sides
<1> QED BY <1>1, <1>5

\* The entry of a block in the bench, however many live-ins it has and tokens
\* come, lets the values meet that belong to one iteration.
THEOREM IterationsMeet == BenchSpec => []SameIteration
<1>1. BenchInit => entry!Init
      BY DEF BenchInit
<1>2. [BenchNext]_benchVars => [entry!Next]_(entry!vars)
      BY DEF BenchNext, benchVars, OnlyFork, OnlyEntry, OnlyLoop, entryVars,
         entry!vars, entry!circuit
<1>3. entryProofs!SameIteration => SameIteration
      BY SameCounts DEF SameIteration, entry!SameIteration, entry!Values,
         entry!Expected,
         entryProofs!SameIteration, entryProofs!Values, entryProofs!Expected
<1> QED BY <1>1, <1>2, <1>3, entryProofs!PairsIterations, SameEntry, PTL
        DEF BenchSpec, entryProofs!Spec
------------------------------------------------------------------------------
(***************************************************************************)
(* The circuit of the loop, for every set of buffered channels and every    *)
(* number of iterations.  The invariant counts the tokens that have passed  *)
(* each point of the circuit, and says that two ways from one point to      *)
(* another carry as many; so no token can meet another (Room), every count  *)
(* grows by the transfers of its channel (CountsAdvance), and each token    *)
(* carries the number of its iteration.                                     *)
(***************************************************************************)
\* A channel holds a token if a buffer is placed there and its second half is full;
\* late is one in the first half, word the datum.
tok(c) == c \in placed /\ buffers[c][3]
late(c) == buffers[c][1]
word(c) == buffers[c][4]
bit(P) == IF P THEN 1 ELSE 0

\* How many tokens have passed each point of the circuit, counted from the stores.
stored   == Len(memory)
iTaken   == stored - bit(~fork_i[1])
sumTaken == iTaken + bit(~fork_i[2])
testTaken == sumTaken + bit(~fork_add[0])
stepTaken == testTaken + bit(~fork_br2[0])
condTaken == iTaken + bit(tok("phi_i")) + bit(phi_i_full)
acked    == stored - bit(written)
c2Taken  == acked - bit(~fork_C2[0])
syncTaken == acked - bit(tok("sync"))
phiTaken == c2Taken + bit(tok("phi_C")) - bit(~phi_C_fork[0])
entries  == phiTaken + bit(phi_C_full)
startTaken == bit(set) - bit(start_internal) - bit(start_oehb)
startedC == startTaken + bit(~fork_C1[2])
startedI == startTaken + bit(~fork_C1[0])
startedB == startTaken + bit(~fork_C1[1])
\* Tokens that left the loop.
left == exits + bit(ret_full) + bit(phi_C3_full)

\* The one-bit registers are Boolean.
LoopRegisters ==
  /\ fork_C1 \in [0 .. 2 -> BOOLEAN] /\ fork_br1 \in [0 .. 1 -> BOOLEAN]
  /\ phi_C_fork \in [0 .. 1 -> BOOLEAN] /\ fork_C2 \in [0 .. 1 -> BOOLEAN]
  /\ fork_i \in [0 .. 2 -> BOOLEAN] /\ fork_add \in [0 .. 1 -> BOOLEAN]
  /\ fork_br2 \in [0 .. 1 -> BOOLEAN]
  /\ set \in BOOLEAN /\ start_internal \in BOOLEAN
  /\ start_tehb \in BOOLEAN /\ start_oehb \in BOOLEAN
  /\ phi_C_full \in BOOLEAN /\ phi_i_full \in BOOLEAN
  /\ phi_C3_full \in BOOLEAN /\ ret_full \in BOOLEAN
  /\ triggered \in BOOLEAN /\ written \in BOOLEAN /\ acknowledged \in BOOLEAN
  /\ \A c \in placed : buffers[c][1] \in BOOLEAN /\ buffers[c][3] \in BOOLEAN

\* Every register has its type.
LoopTypes ==
  /\ placed \subseteq loop!Channels /\ loop!Backedges \subseteq placed
  /\ limit \in Nat \ {0}
  /\ exits \in Nat
  /\ memory \in Seq(Nat \X Nat)
  /\ LoopRegisters
  /\ "br" \in placed => word("br") \in BOOLEAN

\* The first half of no buffer is used: there is room behind every token.
Shallow == ~start_tehb /\ \A c \in placed : ~late(c)

\* A fork served an output early only if it still has the token.
EntryOffered == ~(phi_C_fork[0] /\ phi_C_fork[1]) => phi_C_full
ControlOffered == ~(fork_C2[0] /\ fork_C2[1]) =>
  IF "phi_C" \in placed THEN tok("phi_C") ELSE phi_C_full /\ phi_C_fork[0]
datumHeld == IF "phi_i" \in placed THEN tok("phi_i") ELSE phi_i_full
DatumOffered == ~(fork_i[0] /\ fork_i[1] /\ fork_i[2]) => datumHeld
SumOffered == ~(fork_add[0] /\ fork_add[1]) => fork_i[2] /\ datumHeld
TestOffered == ~(fork_br2[0] /\ fork_br2[1]) => fork_add[0] /\ fork_i[2] /\ datumHeld
StartOffered ==
  /\ ~(fork_C1[0] /\ fork_C1[1] /\ fork_C1[2]) => start_oehb
  /\ ~(fork_br1[0] /\ fork_br1[1]) => fork_C1[1] /\ start_oehb
AckOffered == acknowledged => written
Offered ==
  /\ EntryOffered /\ ControlOffered /\ DatumOffered /\ SumOffered /\ TestOffered
  /\ StartOffered /\ AckOffered

\* A fork waits for one output at least: else it would have let its token go.
Waiting ==
  /\ fork_i[0] \/ fork_i[1] \/ fork_i[2]
  /\ fork_add[0] \/ fork_add[1]
  /\ fork_br2[0] \/ fork_br2[1]
  /\ fork_C2[0] \/ fork_C2[1]

\* Two ways from one point to another: as many tokens went each way.
AddrBalance == iTaken + bit(~fork_i[0]) = stored + bit(tok("addr"))
StepBalance == sumTaken + bit(~fork_add[1]) = stepTaken + bit(tok("i_br"))
TestBalance == testTaken + bit(~fork_br2[1]) = syncTaken + bit(tok("br"))
TriggerBalance == stored + bit(triggered) = c2Taken + bit(~fork_C2[1])
EntryBalance == phiTaken + bit(~phi_C_fork[1]) = condTaken + bit(tok("cond"))
ControlBalance == entries = startedC + syncTaken - left - bit(tok("back_C"))
DataBalance ==
  condTaken = startedI + stepTaken - bit(stepTaken = limit) - bit(tok("back_i"))
StartBalance ==
  /\ startedC = startedB + bit(~fork_br1[1])
  /\ startedI = startedB + bit(~fork_br1[0])
Balanced ==
  /\ AddrBalance /\ StepBalance /\ TestBalance /\ TriggerBalance /\ EntryBalance
  /\ ControlBalance /\ DataBalance /\ StartBalance

\* One token starts the loop, and it is left once, after the last iteration.
StartsOnce ==
  /\ ~(start_internal /\ start_oehb)
  /\ ~set => ~start_internal /\ ~start_oehb
Entered == (startedC = 0 <=> entries = 0) /\ (startedI = 0 <=> condTaken = 0)
Bounded == 0 <= iTaken /\ stepTaken <= limit /\ 0 <= c2Taken /\ syncTaken <= limit
LeftLast == left = bit(syncTaken = limit)
Limits == StartsOnce /\ Entered /\ Bounded /\ LeftLast

\* The words: each token carries the number of its iteration.
EntryWord == phi_C_full => phi_C_index = IF phiTaken = 0 THEN 0 ELSE 1
CondWord == tok("cond") => word("cond") = IF condTaken = 0 THEN 0 ELSE 1
MuxWord == phi_i_full => phi_i_data = condTaken - 1
DatumWord == tok("phi_i") => word("phi_i") = iTaken
AddrWord == tok("addr") => word("addr") = stored
StepWord == tok("i_br") => word("i_br") = stepTaken + 1
TestWord == tok("br") => (word("br") <=> syncTaken + 1 < limit)
BackWord == tok("back_i") => word("back_i") = condTaken
StoredWords == \A k \in DOMAIN memory : memory[k] = <<k - 1, k - 1>>
Numbered ==
  /\ EntryWord /\ CondWord /\ MuxWord /\ DatumWord /\ AddrWord /\ StepWord
  /\ TestWord /\ BackWord /\ StoredWords


\* The inductive invariant of the loop circuit.
LoopInv == LoopTypes /\ Shallow /\ Offered /\ Waiting /\ Balanced /\ Limits /\ Numbered

\* The valid and data wires, followed to the registers that drive them.
offered(c, v) == IF c \in placed THEN tok(c) ELSE v
carried(c, w) == IF c \in placed THEN word(c) ELSE w
startCV == fork_C1[2] /\ fork_C1[1] /\ start_oehb /\ fork_br1[1]
startIV == fork_C1[0] /\ fork_C1[1] /\ start_oehb /\ fork_br1[0]
phiCV == phi_C_full \/ startCV \/ tok("back_C")
phiCIndex == IF phi_C_full THEN phi_C_index ELSE IF startCV THEN 0 ELSE 1
c2V == offered("phi_C", phi_C_fork[0] /\ phiCV)
condV == offered("cond", phi_C_fork[1] /\ phiCV)
condW == carried("cond", phiCIndex)
picksStart == condV /\ condW = 0 /\ startIV
picksBack == condV /\ condW = 1 /\ tok("back_i")
picks == picksStart \/ picksBack
phiIW == IF phi_i_full THEN phi_i_data
         ELSE IF picksBack THEN word("back_i") ELSE 0
iV == offered("phi_i", phi_i_full \/ picks)
iW == carried("phi_i", phiIW)
addrV == offered("addr", fork_i[0] /\ iV)
addrW == carried("addr", iW)
sumV == fork_i[2] /\ iV
testV == fork_add[0] /\ sumV
testW == iW + 1 < limit
i_brV == offered("i_br", fork_add[1] /\ sumV)
i_brW == carried("i_br", iW + 1)
againV == fork_br2[0] /\ testV
brV == offered("br", fork_br2[1] /\ testV)
brW == carried("br", testW)
syncedV == fork_C2[0] /\ c2V /\ acknowledged
syncV == offered("sync", syncedV)

\* The ready wires, down to the same registers, and the transfers they allow.
storeR == triggered /\ ~written
stores == addrV /\ fork_i[1] /\ iV /\ storeR
branchCR == brW \/ ~phi_C3_full
toBrR == "br" \in placed \/ (syncV /\ branchCR)
toI_brR == "i_br" \in placed \/ againV
testR == (fork_br2[0] => i_brV) /\ (fork_br2[1] => toBrR)
sumR == (fork_add[0] => testR) /\ (fork_add[1] => toI_brR)
toAddrR == "addr" \in placed \/ (fork_i[1] /\ iV /\ storeR)
datumR == addrV /\ storeR
iR == (fork_i[0] => toAddrR) /\ (fork_i[1] => datumR) /\ (fork_i[2] => sumR)
toSyncR == "sync" \in placed \/ (brV /\ branchCR)
acks == syncedV /\ toSyncR
c2R == fork_C2[0] => acknowledged /\ toSyncR
toC2R == "phi_C" \in placed \/ c2R
condR == ~condV \/ (picks /\ ~phi_i_full)
toCondR == "cond" \in placed \/ condR
phiCR == (phi_C_fork[0] => toC2R) /\ (phi_C_fork[1] => toCondR)
toIR == "phi_i" \in placed \/ iR
startIR == ~startIV \/ (picksStart /\ ~phi_i_full)
datumC1R == startIR /\ fork_br1[0] /\ fork_C1[1] /\ start_oehb
controlC1R == ~phi_C_full /\ fork_br1[1] /\ fork_C1[1] /\ start_oehb
datumBr1R == startIR /\ fork_C1[0] /\ start_oehb
controlBr1R == ~phi_C_full /\ fork_C1[2] /\ start_oehb
br1R == (fork_br1[0] => datumBr1R) /\ (fork_br1[1] => controlBr1R)
C1R == (fork_C1[0] => datumC1R) /\ (fork_C1[1] => br1R) /\ (fork_C1[2] => controlC1R)
leaves == syncV /\ brV /\ ~brW

\* The register of an output of a fork after a cycle: r that of all outputs.
waits(reg, v, r, out) == (reg /\ ~out) \/ ~(v /\ ~r)
Fork2Moves(reg, regNext, v, r, out0, out1) ==
  /\ regNext[0] <=> waits(reg[0], v, r, out0)
  /\ regNext[1] <=> waits(reg[1], v, r, out1)
Fork3Moves(reg, regNext, v, r, out0, out1, out2) ==
  /\ regNext[0] <=> waits(reg[0], v, r, out0)
  /\ regNext[1] <=> waits(reg[1], v, r, out1)
  /\ regNext[2] <=> waits(reg[2], v, r, out2)

\* A buffer whose TEHB is empty.
BufferMoves(c, v, w, r) ==
  c \in placed =>
    /\ late(c)' <=> v /\ tok(c) /\ ~r
    /\ tok(c)' <=> v \/ (tok(c) /\ ~r)
    /\ word(c)' = IF v /\ (~tok(c) \/ r) THEN w ELSE word(c)

StartMoves(pStart) ==
  /\ start_internal' <=> pStart /\ ~set
  /\ set' <=> set \/ pStart
  /\ start_tehb' <=> start_internal /\ start_oehb /\ ~C1R
  /\ start_oehb' <=> start_internal \/ (start_oehb /\ ~C1R)
fork_C1Moves ==
  Fork3Moves(fork_C1, fork_C1', start_oehb, C1R, datumC1R, br1R, controlC1R)
fork_br1Moves ==
  Fork2Moves(fork_br1, fork_br1', fork_C1[1] /\ start_oehb, br1R,
             datumBr1R, controlBr1R)
phi_CMoves ==
  /\ phi_C_full' <=> phiCV /\ ~phiCR
  /\ phi_C_index' = IF ~phi_C_full /\ phiCV /\ ~phiCR THEN phiCIndex ELSE phi_C_index
phi_CForkMoves == Fork2Moves(phi_C_fork, phi_C_fork', phiCV, phiCR, toC2R, toCondR)
phi_iMoves ==
  /\ phi_i_full' <=> (phi_i_full \/ picks) /\ ~toIR
  /\ phi_i_data' = IF ~phi_i_full /\ picks /\ ~toIR THEN phiIW ELSE phi_i_data
fork_iMoves == Fork3Moves(fork_i, fork_i', iV, iR, toAddrR, datumR, sumR)
fork_addMoves == Fork2Moves(fork_add, fork_add', sumV, sumR, testR, toI_brR)
fork_br2Moves == Fork2Moves(fork_br2, fork_br2', testV, testR, i_brV, toBrR)
fork_C2Moves == Fork2Moves(fork_C2, fork_C2', c2V, c2R, acknowledged /\ toSyncR, TRUE)
ForksMove ==
  /\ fork_C1Moves /\ fork_br1Moves /\ phi_CForkMoves /\ fork_C2Moves
  /\ fork_iMoves /\ fork_addMoves /\ fork_br2Moves
toC2Moves == BufferMoves("phi_C", phi_C_fork[0] /\ phiCV, 0, c2R)
condMoves == BufferMoves("cond", phi_C_fork[1] /\ phiCV, phiCIndex, condR)
toIMoves == BufferMoves("phi_i", phi_i_full \/ picks, phiIW, iR)
addrMoves == BufferMoves("addr", fork_i[0] /\ iV, iW, fork_i[1] /\ iV /\ storeR)
i_brMoves == BufferMoves("i_br", fork_add[1] /\ sumV, iW + 1, againV)
brMoves == BufferMoves("br", fork_br2[1] /\ testV, testW, syncV /\ branchCR)
syncMoves == BufferMoves("sync", syncedV, 0, brV /\ branchCR)
back_CMoves == BufferMoves("back_C", syncV /\ brV /\ brW, 0, ~phi_C_full)
back_iMoves == BufferMoves("back_i", i_brV /\ againV /\ testW, i_brW,
                           ~tok("back_i") \/ (picksBack /\ ~phi_i_full))
BuffersMove ==
  /\ toC2Moves /\ condMoves /\ toIMoves /\ addrMoves /\ i_brMoves /\ brMoves
  /\ syncMoves /\ back_CMoves /\ back_iMoves
StoreMoves(answer) ==
  /\ triggered' <=> (fork_C2[1] /\ c2V) \/ (triggered /\ ~stores)
  /\ written' <=> stores \/ (written /\ ~acks)
  /\ acknowledged' <=> ((written /\ answer) \/ acknowledged) /\ ~acks
  /\ memory' = IF stores THEN Append(memory, <<addrW, iW>>) ELSE memory
ExitMoves(accept) ==
  /\ phi_C3_full' <=> (leaves \/ phi_C3_full) /\ ret_full
  /\ ret_full' <=> (leaves \/ phi_C3_full \/ ret_full) /\ ~accept
  /\ exits' = IF (leaves \/ phi_C3_full \/ ret_full) /\ accept THEN exits + 1 ELSE exits
LoopMoves(pStart, accept, answer) ==
  /\ UNCHANGED <<placed, limit>> /\ LoopRegisters'
  /\ StartMoves(pStart) /\ phi_CMoves /\ phi_iMoves /\ ForksMove /\ BuffersMove
  /\ StoreMoves(answer) /\ ExitMoves(accept)

\* How far each count gets in a cycle.
Advances ==
  /\ stored' = stored + bit(stores)
  /\ iTaken' = iTaken + bit(iV /\ iR)
  /\ sumTaken' = sumTaken + bit(sumV /\ sumR)
  /\ testTaken' = testTaken + bit(testV /\ testR)
  /\ stepTaken' = stepTaken + bit(againV /\ i_brV)
  /\ condTaken' = condTaken + bit(picks /\ ~phi_i_full)
  /\ acked' = acked + bit(acks)
  /\ c2Taken' = c2Taken + bit(c2V /\ c2R)
  /\ syncTaken' = syncTaken + bit(syncV /\ brV /\ branchCR)
  /\ phiTaken' = phiTaken + bit(phiCV /\ phiCR)
  /\ entries' = entries + bit(phiCV /\ ~phi_C_full)
  /\ startTaken' = startTaken + bit(start_oehb /\ C1R)
  /\ startedC' = startedC + bit(startCV /\ ~phi_C_full)
  /\ startedI' = startedI + bit(startIV /\ startIR)
  /\ startedB' = startedB + bit(fork_C1[1] /\ start_oehb /\ br1R)
  /\ left' = left + bit(leaves)

\* No token meets another in a channel, and every token offered has the word of
\* its iteration.
Room ==
  /\ tok("phi_C") => ~(phi_C_fork[0] /\ phiCV)
  /\ tok("cond") => ~(phi_C_fork[1] /\ phiCV)
  /\ tok("phi_i") => ~(phi_i_full \/ picks)
  /\ tok("addr") => ~(fork_i[0] /\ iV)
  /\ tok("i_br") => ~(fork_add[1] /\ sumV)
  /\ tok("br") => ~(fork_br2[1] /\ testV)
  /\ tok("sync") => ~syncedV
  /\ tok("back_C") => ~(syncV /\ brV)
  /\ tok("back_i") /\ i_brV /\ againV /\ testW => picksBack /\ ~phi_i_full
  /\ triggered => ~(fork_C2[1] /\ c2V)
  /\ startCV => startedC = 0 /\ ~tok("back_C")
  /\ startIV => startedI = 0
  /\ picksStart => condTaken = 0
  /\ picksBack => condTaken > 0 /\ startedI = 1
  /\ phiCV => phiCIndex = IF phiTaken = 0 THEN 0 ELSE 1
  /\ condV => condW = IF condTaken = 0 THEN 0 ELSE 1
  /\ phi_i_full \/ picks => phiIW = iTaken + bit(tok("phi_i"))
  /\ iV => iW = iTaken /\ iTaken < limit
  /\ addrV => addrW = stored
  /\ i_brV => i_brW = stepTaken + 1
  /\ brV => (brW <=> syncTaken + 1 < limit)
  /\ syncV /\ brV => syncTaken < limit /\ left = 0
  /\ againV => stepTaken < limit /\ (testW <=> stepTaken + 1 < limit)

\* Room and words, from the invariant.
LEMMA RoomFollows == LoopInv => Room
<1> SUFFICES ASSUME LoopInv PROVE Room
    OBVIOUS
<1>1. stored \in Nat /\ exits \in Nat /\ limit \in Nat \ {0}
      BY LenProperties DEF LoopInv, LoopTypes, stored
<1>2. LoopRegisters
      BY DEF LoopInv, LoopTypes
<1>3. \A c : tok(c) => c \in placed
      BY DEF tok
<1>4. startCV => startedC = 0 /\ ~tok("back_C")
      BY <1>1, <1>2, <1>3, SMTT(20) DEF LoopInv, Balanced, Offered, bit, acked,
         c2Taken, syncTaken, phiTaken, entries, startTaken, startedC, left,
         EntryOffered, ControlOffered, ControlBalance, startCV, LoopRegisters
<1>5. startIV => startedI = 0
      BY <1>1, <1>2, <1>3, SMTT(20) DEF LoopInv, Limits, bit, startTaken, startedI,
         StartsOnce, startIV, LoopRegisters
<1>6. tok("phi_C") => ~(phi_C_fork[0] /\ phiCV)
      BY <1>1, <1>2, <1>3, <1>4, SMTT(20) DEF LoopInv, Balanced, Offered, bit, acked,
         c2Taken, syncTaken, phiTaken, entries, startTaken, startedC, left,
         StartOffered, Waiting, TriggerBalance, ControlBalance, phiCV, LoopRegisters
<1>7. tok("cond") => ~(phi_C_fork[1] /\ phiCV)
      BY <1>1, <1>2, <1>3, <1>6, SMTT(20) DEF LoopInv, Balanced, Offered, bit, iTaken,
         condTaken, acked, c2Taken, phiTaken, datumHeld, DatumOffered, EntryBalance,
         LoopRegisters
<1>8. phiCV => phiCIndex = IF phiTaken = 0 THEN 0 ELSE 1
      BY <1>1, <1>2, <1>3, <1>4, SMTT(20) DEF LoopInv, Balanced, Limits, Numbered,
         Offered, bit, iTaken, condTaken, acked, c2Taken, syncTaken, phiTaken,
         entries, startTaken, startedC, startedI, left, EntryOffered, ControlOffered,
         ControlBalance, Entered, EntryWord, phiCV, phiCIndex, LoopRegisters
<1>9. condV => condW = IF condTaken = 0 THEN 0 ELSE 1
      BY <1>1, <1>2, <1>3, <1>8, SMTT(20) DEF LoopInv, Balanced, Numbered, bit,
         iTaken, condTaken, acked, c2Taken, phiTaken, EntryBalance, CondWord, offered,
         carried, condV, condW, LoopRegisters
<1>10. picksStart => condTaken = 0
      BY <1>1, <1>2, <1>3, <1>5, SMTT(20) DEF LoopInv, Limits, bit, iTaken, condTaken,
         acked, c2Taken, phiTaken, entries, startTaken, startedC, startedI, Entered,
         picksStart, LoopRegisters
<1>11. picksBack => condTaken > 0 /\ startedI = 1
      BY <1>1, <1>2, <1>3, <1>9, SMTT(20) DEF LoopInv, Limits, Offered, bit, iTaken,
         condTaken, acked, c2Taken, phiTaken, entries, startTaken, startedC, startedI,
         datumHeld, DatumOffered, StartOffered, StartsOnce, Entered, picksBack,
         LoopRegisters
<1>12. tok("addr") => ~(fork_i[0] /\ iV)
      BY <1>1, <1>2, <1>3, SMTT(20) DEF LoopInv, Balanced, bit, iTaken, AddrBalance,
         LoopRegisters
<1>13. triggered => ~(fork_C2[1] /\ c2V)
      BY <1>1, <1>2, <1>3, SMTT(20) DEF LoopInv, Balanced, bit, acked, c2Taken,
         TriggerBalance, LoopRegisters
<1>14. tok("i_br") => ~(fork_add[1] /\ sumV)
      BY <1>1, <1>2, <1>3, SMTT(20) DEF LoopInv, Balanced, bit, iTaken, sumTaken,
         testTaken, stepTaken, StepBalance, LoopRegisters
<1>15. tok("back_i") /\ i_brV /\ againV /\ testW => picksBack /\ ~phi_i_full
      BY <1>1, <1>2, <1>3, <1>10, SMTT(20) DEF LoopInv, Balanced, Limits, Offered,
         bit, iTaken, sumTaken, testTaken, stepTaken, condTaken, acked, c2Taken,
         phiTaken, entries, startTaken, startedC, startedI, StartOffered, DataBalance,
         Entered, offered, picks, iV, sumV, testV, againV, LoopRegisters
<1>16. tok("phi_i") => ~(phi_i_full \/ picks)
      BY <1>1, <1>2, <1>3, <1>4, <1>10, SMTT(20) DEF LoopInv, Balanced, Limits,
         Offered, bit, iTaken, sumTaken, testTaken, stepTaken, condTaken, acked,
         c2Taken, syncTaken, phiTaken, entries, startTaken, startedC, startedI, left,
         EntryOffered, StartOffered, Waiting, AddrBalance, StepBalance, TestBalance,
         EntryBalance, ControlBalance, DataBalance, Bounded, LeftLast, offered, phiCV,
         condV, picksBack, picks, LoopRegisters
<1>17. phi_i_full \/ picks => phiIW = iTaken + bit(tok("phi_i"))
      BY <1>1, <1>2, <1>3, <1>10, SMTT(20) DEF LoopInv, Numbered, bit, iTaken,
         condTaken, MuxWord, BackWord, picksBack, picks, phiIW, LoopRegisters
<1>18. iV => iW = iTaken /\ iTaken < limit
      BY <1>1, <1>2, <1>3, <1>10, <1>17, SMTT(20) DEF LoopInv, Balanced, Limits,
         Numbered, Offered, bit, iTaken, sumTaken, testTaken, stepTaken, condTaken,
         acked, c2Taken, syncTaken, startTaken, startedI, StartOffered, DataBalance,
         Bounded, DatumWord, offered, carried, picksBack, picks, iV, iW, LoopRegisters
<1>19. againV => stepTaken < limit /\ (testW <=> stepTaken + 1 < limit)
      BY <1>1, <1>2, <1>3, <1>18, SMTT(20) DEF bit, iTaken, sumTaken, testTaken,
         stepTaken, sumV, testV, testW, againV, LoopRegisters
<1>20. i_brV => i_brW = stepTaken + 1
      BY <1>1, <1>2, <1>3, <1>18, SMTT(20) DEF LoopInv, Balanced, Numbered, bit,
         iTaken, sumTaken, testTaken, stepTaken, StepBalance, StepWord, offered,
         carried, sumV, i_brV, i_brW, LoopRegisters
<1>21. addrV => addrW = stored
      BY <1>1, <1>2, <1>3, <1>18, SMTT(20) DEF LoopInv, Balanced, Numbered, bit,
         iTaken, AddrBalance, AddrWord, offered, carried, addrV, addrW, LoopRegisters
<1>22. tok("br") => ~(fork_br2[1] /\ testV)
      BY <1>1, <1>2, <1>3, <1>4, SMTT(20) DEF LoopInv, Balanced, Offered, bit, iTaken,
         sumTaken, testTaken, condTaken, acked, c2Taken, syncTaken, phiTaken, entries,
         startTaken, startedC, startedI, startedB, left, EntryOffered, StartOffered,
         TestBalance, EntryBalance, ControlBalance, StartBalance, offered, phiCV,
         condV, picksStart, picksBack, picks, iV, sumV, testV, LoopRegisters
<1>23. tok("sync") => ~syncedV
      BY <1>1, <1>2, <1>3, SMTT(20) DEF LoopInv, Balanced, Limits, Offered, bit,
         acked, c2Taken, syncTaken, phiTaken, entries, startTaken, startedC, left,
         EntryOffered, ControlOffered, StartOffered, AckOffered, TriggerBalance,
         ControlBalance, LeftLast, syncedV, LoopRegisters
<1>24. tok("back_C") => ~(syncV /\ brV)
      BY <1>1, <1>2, <1>3, SMTT(20) DEF LoopInv, Balanced, Limits, Offered, bit,
         acked, c2Taken, syncTaken, phiTaken, entries, startTaken, startedC, left,
         EntryOffered, ControlOffered, StartOffered, AckOffered, TriggerBalance,
         ControlBalance, LeftLast, offered, syncedV, syncV, LoopRegisters
<1>25. brV => (brW <=> syncTaken + 1 < limit)
      BY <1>1, <1>2, <1>3, <1>18, SMTT(20) DEF LoopInv, Balanced, Numbered, bit,
         iTaken, sumTaken, testTaken, acked, syncTaken, TestBalance, TestWord,
         offered, carried, sumV, testV, testW, brV, brW, LoopRegisters
<1>26. syncV /\ brV => syncTaken < limit /\ left = 0
      BY <1>1, <1>2, <1>3, SMTT(20) DEF LoopInv, Balanced, Limits, Offered, bit,
         iTaken, sumTaken, testTaken, stepTaken, acked, c2Taken, syncTaken, phiTaken,
         entries, startTaken, startedC, left, EntryOffered, ControlOffered,
         StartOffered, AckOffered, TriggerBalance, ControlBalance, Bounded, LeftLast,
         offered, syncedV, syncV, LoopRegisters
<1> QED BY <1>4, <1>5, <1>6, <1>7, <1>8, <1>9, <1>10, <1>11, <1>12, <1>13, <1>14,
   <1>15, <1>16, <1>17, <1>18, <1>19, <1>20, <1>21, <1>22, <1>23, <1>24, <1>25, <1>26
   DEF Room

\* Every count grows by the transfers of its channel, and by nothing else.
LEMMA CountsAdvance ==
  ASSUME LoopInv, Room, NEW pStart \in BOOLEAN, NEW accept \in BOOLEAN,
         NEW answer \in BOOLEAN, LoopMoves(pStart, accept, answer)
  PROVE  Advances
<1>1. stored \in Nat /\ exits \in Nat /\ limit \in Nat \ {0}
      BY LenProperties DEF LoopInv, LoopTypes, stored
<1>2. LoopRegisters
      BY DEF LoopInv, LoopTypes
<1>3. LoopRegisters'
      BY DEF LoopMoves
<1>4. \A c : tok(c) => c \in placed
      BY DEF tok
<1>5. \A c : tok(c)' => c \in placed
      BY DEF tok, LoopMoves
<1>6. stored' = stored + bit(stores)
      BY AppendProperties DEF LoopMoves, StoreMoves, LoopInv, LoopTypes, stored, bit
<1>7. stored' \in Nat /\ exits' \in Nat
      BY <1>1, <1>6 DEF bit, LoopMoves, ExitMoves
<1>8. /\ iTaken \in Int /\ sumTaken \in Int /\ testTaken \in Int /\ stepTaken \in Int
      /\ condTaken \in Int /\ acked \in Int /\ c2Taken \in Int /\ syncTaken \in Int
      /\ phiTaken \in Int /\ entries \in Int /\ startTaken \in Int /\ startedC \in Int
      /\ startedI \in Int /\ startedB \in Int /\ left \in Int
      BY <1>1, SMT DEF bit, iTaken, sumTaken, testTaken, stepTaken, condTaken, acked,
         c2Taken, syncTaken, phiTaken, entries, startTaken, startedC, startedI,
         startedB, left
<1>9. /\ iTaken' \in Int /\ sumTaken' \in Int /\ testTaken' \in Int
      /\ stepTaken' \in Int /\ condTaken' \in Int /\ acked' \in Int
      /\ c2Taken' \in Int /\ syncTaken' \in Int /\ phiTaken' \in Int
      /\ entries' \in Int /\ startTaken' \in Int /\ startedC' \in Int
      /\ startedI' \in Int /\ startedB' \in Int /\ left' \in Int
      BY <1>7, SMT DEF bit, iTaken, sumTaken, testTaken, stepTaken, condTaken, acked,
         c2Taken, syncTaken, phiTaken, entries, startTaken, startedC, startedI,
         startedB, left
<1>10. iTaken' = iTaken + bit(iV /\ iR)
      BY <1>1, <1>2, <1>3, <1>4, <1>5, <1>7, <1>8, <1>9, <1>6, SMTT(20) DEF bit,
         iTaken, LoopRegisters, datumHeld, DatumOffered, Offered, LoopInv, offered, iV,
         stores, datumR, iR, waits, Fork3Moves, fork_iMoves, ForksMove, LoopMoves
<1>11. sumTaken' = sumTaken + bit(sumV /\ sumR)
      BY <1>1, <1>2, <1>3, <1>4, <1>5, <1>7, <1>8, <1>9, <1>10, SMTT(20) DEF bit,
         sumTaken, LoopRegisters, datumHeld, DatumOffered, Offered, LoopInv, offered,
         iV, sumV, iR, waits, Fork3Moves, fork_iMoves, ForksMove, LoopMoves
<1>12. testTaken' = testTaken + bit(testV /\ testR)
      BY <1>1, <1>2, <1>3, <1>4, <1>5, <1>7, <1>8, <1>9, <1>11, SMTT(20) DEF bit,
         testTaken, LoopRegisters, datumHeld, SumOffered, Offered, LoopInv, offered, iV,
         sumV, testV, sumR, waits, Fork2Moves, fork_addMoves, ForksMove, LoopMoves
<1>13. stepTaken' = stepTaken + bit(againV /\ i_brV)
      BY <1>1, <1>2, <1>3, <1>4, <1>5, <1>7, <1>8, <1>9, <1>12, SMTT(20) DEF bit,
         stepTaken, LoopRegisters, datumHeld, TestOffered, Offered, LoopInv, offered,
         iV, sumV, testV, againV, testR, waits, Fork2Moves, fork_br2Moves, ForksMove,
         LoopMoves
<1>14. condTaken' = condTaken + bit(picks /\ ~phi_i_full)
      BY <1>1, <1>2, <1>3, <1>4, <1>5, <1>7, <1>8, <1>9, <1>10, SMTT(20) DEF bit,
         condTaken, LoopRegisters, offered, iV, toIR, BufferMoves, phi_iMoves, toIMoves,
         BuffersMove, LoopMoves, Room
<1>15. acked' = acked + bit(acks)
  <2>1. acks => written /\ ~stores
        BY DEF acks, syncedV, stores, storeR, AckOffered, Offered, LoopInv
  <2>2. stores => ~written
        BY DEF stores, storeR
  <2>3. written' <=> stores \/ (written /\ ~acks)
        BY DEF LoopMoves, StoreMoves
  <2>4. written \in BOOLEAN /\ written' \in BOOLEAN
        BY <1>2, <1>3 DEF LoopRegisters
  <2> QED BY <1>1, <1>6, <1>7, <2>1, <2>2, <2>3, <2>4 DEF acked, bit
<1>16. c2Taken' = c2Taken + bit(c2V /\ c2R)
      BY <1>1, <1>2, <1>3, <1>4, <1>5, <1>7, <1>8, <1>9, <1>15, SMTT(20) DEF bit,
         c2Taken, LoopRegisters, ControlOffered, AckOffered, Offered, LoopInv, offered,
         phiCV, c2V, syncedV, acks, c2R, waits, Fork2Moves, fork_C2Moves, ForksMove,
         LoopMoves
<1>17. syncTaken' = syncTaken + bit(syncV /\ brV /\ branchCR)
      BY <1>1, <1>2, <1>3, <1>4, <1>5, <1>7, <1>8, <1>9, <1>15, SMTT(20) DEF bit,
         syncTaken, LoopRegisters, offered, syncV, toSyncR, acks, BufferMoves,
         syncMoves, BuffersMove, LoopMoves, Room
<1>18. phiTaken' = phiTaken + bit(phiCV /\ phiCR)
      BY <1>1, <1>2, <1>3, <1>4, <1>5, <1>7, <1>8, <1>9, <1>16, SMTT(20) DEF bit,
         phiTaken, LoopRegisters, EntryOffered, Offered, LoopInv, offered, phiCV, c2V,
         toC2R, phiCR, waits, Fork2Moves, BufferMoves, phi_CForkMoves, ForksMove,
         toC2Moves, BuffersMove, LoopMoves, Room
<1>19. entries' = entries + bit(phiCV /\ ~phi_C_full)
      BY <1>1, <1>2, <1>3, <1>4, <1>5, <1>7, <1>8, <1>9, <1>18, SMTT(20) DEF bit,
         entries, LoopRegisters, phiCV, phi_CMoves, LoopMoves
<1>20. startTaken' = startTaken + bit(start_oehb /\ C1R)
      BY <1>1, <1>2, <1>3, <1>4, <1>5, <1>7, <1>8, <1>9, SMTT(20) DEF bit, startTaken,
         LoopRegisters, StartsOnce, Limits, LoopInv, StartMoves, LoopMoves
<1>21. startedC' = startedC + bit(startCV /\ ~phi_C_full)
      BY <1>1, <1>2, <1>3, <1>4, <1>5, <1>7, <1>8, <1>9, <1>20, SMTT(20) DEF bit,
         startedC, LoopRegisters, StartOffered, Offered, LoopInv, startCV, controlC1R,
         C1R, waits, Fork3Moves, fork_C1Moves, ForksMove, LoopMoves
<1>22. startedI' = startedI + bit(startIV /\ startIR)
      BY <1>1, <1>2, <1>3, <1>4, <1>5, <1>7, <1>8, <1>9, <1>20, SMTT(20) DEF bit,
         startedI, LoopRegisters, StartOffered, Offered, LoopInv, startIV, datumC1R,
         C1R, waits, Fork3Moves, fork_C1Moves, ForksMove, LoopMoves
<1>23. startedB' = startedB + bit(fork_C1[1] /\ start_oehb /\ br1R)
      BY <1>1, <1>2, <1>3, <1>4, <1>5, <1>7, <1>8, <1>9, <1>20, SMTT(20) DEF bit,
         startedB, LoopRegisters, StartOffered, Offered, LoopInv, C1R, waits,
         Fork3Moves, fork_C1Moves, ForksMove, LoopMoves
<1>24. left' = left + bit(leaves)
      BY <1>1, <1>2, <1>3, <1>4, <1>5, <1>7, <1>8, <1>9, SMTT(20) DEF bit, left,
         LoopRegisters, leaves, ExitMoves, LoopMoves, Room
<1> QED BY <1>6, <1>10, <1>11, <1>12, <1>13, <1>14, <1>15, <1>16, <1>17, <1>18, <1>19,
       <1>20, <1>21, <1>22, <1>23, <1>24 DEF Advances

\* A cycle of the clock keeps every part of the invariant.
LEMMA LoopInvKept ==
  ASSUME LoopInv, Room, NEW pStart \in BOOLEAN, NEW accept \in BOOLEAN,
         NEW answer \in BOOLEAN, LoopMoves(pStart, accept, answer), Advances
  PROVE  LoopInv'
<1>1. stored \in Nat /\ exits \in Nat /\ limit \in Nat \ {0}
      BY LenProperties DEF LoopInv, LoopTypes, stored
<1>2. LoopRegisters
      BY DEF LoopInv, LoopTypes
<1>3. LoopRegisters'
      BY DEF LoopMoves
<1>4. \A c : tok(c) => c \in placed
      BY DEF tok
<1>5. \A c : tok(c)' => c \in placed
      BY DEF tok, LoopMoves
<1>6. stored' = stored + bit(stores)
      BY AppendProperties DEF LoopMoves, StoreMoves, LoopInv, LoopTypes, stored, bit
<1>7. stored' \in Nat /\ exits' \in Nat
      BY <1>1, <1>6 DEF bit, LoopMoves, ExitMoves
<1>8. /\ iTaken \in Int /\ sumTaken \in Int /\ testTaken \in Int /\ stepTaken \in Int
      /\ condTaken \in Int /\ acked \in Int /\ c2Taken \in Int /\ syncTaken \in Int
      /\ phiTaken \in Int /\ entries \in Int /\ startTaken \in Int /\ startedC \in Int
      /\ startedI \in Int /\ startedB \in Int /\ left \in Int
      BY <1>1, SMT DEF bit, iTaken, sumTaken, testTaken, stepTaken, condTaken, acked,
         c2Taken, syncTaken, phiTaken, entries, startTaken, startedC, startedI,
         startedB, left
<1>9. /\ iTaken' \in Int /\ sumTaken' \in Int /\ testTaken' \in Int
      /\ stepTaken' \in Int /\ condTaken' \in Int /\ acked' \in Int
      /\ c2Taken' \in Int /\ syncTaken' \in Int /\ phiTaken' \in Int
      /\ entries' \in Int /\ startTaken' \in Int /\ startedC' \in Int
      /\ startedI' \in Int /\ startedB' \in Int /\ left' \in Int
      BY <1>7, SMT DEF bit, iTaken, sumTaken, testTaken, stepTaken, condTaken, acked,
         c2Taken, syncTaken, phiTaken, entries, startTaken, startedC, startedI,
         startedB, left
<1>10. limit' = limit /\ placed' = placed
      BY DEF LoopMoves
<1>11. Waiting'
  <2>1. (fork_i[0] \/ fork_i[1] \/ fork_i[2])'
        BY <1>1, <1>2, <1>3, <1>4, <1>5, <1>7, <1>8, <1>9, <1>10, SMTT(30) DEF
           LoopRegisters, iR, waits, Fork3Moves, fork_iMoves, ForksMove, LoopMoves
  <2>2. (fork_add[0] \/ fork_add[1])'
        BY <1>1, <1>2, <1>3, <1>4, <1>5, <1>7, <1>8, <1>9, <1>10, SMTT(30) DEF
           LoopRegisters, sumR, waits, Fork2Moves, fork_addMoves, ForksMove, LoopMoves
  <2>3. (fork_br2[0] \/ fork_br2[1])'
        BY <1>1, <1>2, <1>3, <1>4, <1>5, <1>7, <1>8, <1>9, <1>10, SMTT(30) DEF
           LoopRegisters, testR, waits, Fork2Moves, fork_br2Moves, ForksMove, LoopMoves
  <2>4. (fork_C2[0] \/ fork_C2[1])'
        BY <1>1, <1>2, <1>3, <1>4, <1>5, <1>7, <1>8, <1>9, <1>10, SMTT(30) DEF
           LoopRegisters, c2R, waits, Fork2Moves, fork_C2Moves, ForksMove, LoopMoves
  <2> QED BY <2>1, <2>2, <2>3, <2>4 DEF Waiting
<1>12. Offered'
  <2>1. EntryOffered'
      BY <1>1, <1>2, <1>3, <1>4, <1>5, <1>7, <1>8, <1>9, <1>10, SMTT(30) DEF bit,
         LoopRegisters, EntryOffered, waits, Fork2Moves, phi_CMoves, phi_CForkMoves,
         ForksMove, LoopMoves
  <2>2. ControlOffered'
      BY <1>1, <1>2, <1>3, <1>4, <1>5, <1>7, <1>8, <1>9, <1>10, SMTT(30) DEF bit,
         LoopRegisters, ControlOffered, offered, c2V, toC2R, phiCR, waits, Fork2Moves,
         BufferMoves, phi_CMoves, phi_CForkMoves, fork_C2Moves, ForksMove, toC2Moves,
         BuffersMove, LoopMoves
  <2>3. DatumOffered'
      BY <1>1, <1>2, <1>3, <1>4, <1>5, <1>7, <1>8, <1>9, <1>10, SMTT(30) DEF bit,
         LoopRegisters, datumHeld, DatumOffered, offered, iV, toIR, waits, Fork3Moves,
         BufferMoves, phi_iMoves, fork_iMoves, ForksMove, toIMoves, BuffersMove,
         LoopMoves
  <2>4. SumOffered'
      BY <1>1, <1>2, <1>3, <1>4, <1>5, <1>7, <1>8, <1>9, <1>10, SMTT(30) DEF bit,
         LoopRegisters, datumHeld, SumOffered, offered, iV, sumV, iR, toIR, waits,
         Fork2Moves, Fork3Moves, BufferMoves, phi_iMoves, fork_iMoves, fork_addMoves,
         ForksMove, toIMoves, BuffersMove, LoopMoves
  <2>5. TestOffered'
      BY <1>1, <1>2, <1>3, <1>4, <1>5, <1>7, <1>8, <1>9, <1>10, SMTT(30) DEF bit,
         LoopRegisters, datumHeld, TestOffered, offered, iV, sumV, testV, sumR, iR,
         toIR, waits, Fork2Moves, Fork3Moves, BufferMoves, phi_iMoves, fork_iMoves,
         fork_addMoves, fork_br2Moves, ForksMove, toIMoves, BuffersMove, LoopMoves
  <2>6. StartOffered'
      BY <1>1, <1>2, <1>3, <1>4, <1>5, <1>7, <1>8, <1>9, <1>10, SMTT(30) DEF bit,
         LoopRegisters, StartOffered, C1R, waits, Fork2Moves, Fork3Moves, StartMoves,
         fork_C1Moves, fork_br1Moves, ForksMove, LoopMoves
  <2>7. AckOffered'
      BY <1>1, <1>2, <1>3, <1>4, <1>5, <1>7, <1>8, <1>9, <1>10, SMTT(30) DEF bit,
         LoopRegisters, AckOffered, Offered, LoopInv, StoreMoves, LoopMoves
  <2> QED BY <2>1, <2>2, <2>3, <2>4, <2>5, <2>6, <2>7 DEF Offered
<1>13. Balanced'
  <2>1. AddrBalance'
      BY <1>1, <1>2, <1>3, <1>4, <1>5, <1>7, <1>8, <1>9, <1>10, SMTT(30) DEF bit,
         LoopRegisters, datumHeld, DatumOffered, Offered, AddrBalance, Balanced,
         LoopInv, offered, iV, addrV, stores, toAddrR, iR, waits, Fork3Moves,
         BufferMoves, fork_iMoves, ForksMove, addrMoves, BuffersMove, LoopMoves,
         Advances, Room
  <2>2. StepBalance'
      BY <1>1, <1>2, <1>3, <1>4, <1>5, <1>7, <1>8, <1>9, <1>10, SMTT(30) DEF bit,
         LoopRegisters, datumHeld, SumOffered, Offered, StepBalance, Balanced, LoopInv,
         offered, iV, sumV, i_brV, toI_brR, sumR, waits, Fork2Moves, BufferMoves,
         fork_addMoves, ForksMove, i_brMoves, BuffersMove, LoopMoves, Advances, Room
  <2>3. TestBalance'
      BY <1>1, <1>2, <1>3, <1>4, <1>5, <1>7, <1>8, <1>9, <1>10, SMTT(30) DEF bit,
         LoopRegisters, datumHeld, TestOffered, Offered, TestBalance, Balanced, LoopInv,
         offered, iV, sumV, testV, brV, toBrR, testR, waits, Fork2Moves, BufferMoves,
         fork_br2Moves, ForksMove, brMoves, BuffersMove, LoopMoves, Advances, Room
  <2>4. TriggerBalance'
      BY <1>1, <1>2, <1>3, <1>4, <1>5, <1>7, <1>8, <1>9, <1>10, SMTT(30) DEF bit,
         LoopRegisters, ControlOffered, Offered, TriggerBalance, Balanced, LoopInv,
         offered, phiCV, c2V, storeR, stores, waits, Fork2Moves, fork_C2Moves,
         ForksMove, StoreMoves, LoopMoves, Advances, Room
  <2>5. EntryBalance'
      BY <1>1, <1>2, <1>3, <1>4, <1>5, <1>7, <1>8, <1>9, <1>10, SMTT(30) DEF bit,
         LoopRegisters, EntryOffered, Offered, EntryBalance, Balanced, LoopInv, offered,
         phiCV, condV, picksStart, picksBack, picks, condR, toCondR, phiCR, waits,
         Fork2Moves, BufferMoves, phi_CForkMoves, ForksMove, condMoves, BuffersMove,
         LoopMoves, Advances, Room
  <2>6. ControlBalance'
    <3>1. /\ entries' = entries + bit(phiCV /\ ~phi_C_full)
          /\ startedC' = startedC + bit(startCV /\ ~phi_C_full)
          /\ syncTaken' = syncTaken + bit(syncV /\ brV /\ branchCR)
          /\ left' = left + bit(leaves)
          BY DEF Advances
    <3>2. syncV /\ brV => left = 0 /\ ~tok("back_C")
          BY DEF Room
    <3>3. syncV /\ brV => branchCR
          BY <1>1, <1>2, <3>2 DEF left, bit, branchCR, LoopRegisters
    <3>4. tok("back_C")' <=> (syncV /\ brV /\ brW) \/ (tok("back_C") /\ phi_C_full)
          BY <1>4, <1>5, <1>10 DEF LoopMoves, BuffersMove, back_CMoves, BufferMoves,
             LoopInv, LoopTypes, loop!Backedges
    <3>5. bit(phiCV /\ ~phi_C_full)
            = bit(startCV /\ ~phi_C_full) + bit(tok("back_C") /\ ~phi_C_full)
          BY DEF bit, phiCV, Room
    <3>6. bit(syncV /\ brV /\ branchCR)
            = bit(leaves) + bit(tok("back_C")')
                          - bit(tok("back_C")) + bit(tok("back_C") /\ ~phi_C_full)
          BY <1>2, <3>2, <3>3, <3>4 DEF bit, leaves, LoopRegisters
    <3>7. entries = startedC + syncTaken - left - bit(tok("back_C"))
          BY DEF LoopInv, Balanced, ControlBalance
    <3>8. \A P : bit(P) \in Int
          BY DEF bit
    <3>9. (bit(tok("back_C")))' = bit(tok("back_C")')
          BY DEF bit
    <3> QED BY <3>1, <3>5, <3>6, <3>7, <3>8, <3>9, <1>8 DEF ControlBalance
  <2>7. DataBalance'
    <3> DEFINE moved == againV /\ i_brV
               fromStart == picksStart /\ ~phi_i_full
               fromBack == picksBack /\ ~phi_i_full
    <3>1. /\ condTaken' = condTaken + bit(picks /\ ~phi_i_full)
          /\ startedI' = startedI + bit(startIV /\ startIR)
          /\ stepTaken' = stepTaken + bit(moved)
          BY DEF Advances
    <3>2. bit(picks /\ ~phi_i_full) = bit(fromStart) + bit(fromBack)
          BY DEF bit, picks, picksStart, picksBack
    <3>3. bit(startIV /\ startIR) = bit(fromStart)
          BY DEF bit, startIR, picksStart
    <3>4. moved => stepTaken < limit /\ (testW <=> stepTaken + 1 < limit)
          BY DEF Room
    <3>5. bit(stepTaken' = limit) = bit(stepTaken = limit) + bit(moved /\ ~testW)
      <4>1. CASE moved
        <5>1. stepTaken' = stepTaken + 1
              BY <4>1, <3>1 DEF bit
        <5> QED BY <5>1, <4>1, <3>4, <1>1, <1>8 DEF bit
      <4>2. CASE ~moved
        <5>1. stepTaken' = stepTaken
              BY <4>2, <3>1, <1>8 DEF bit
        <5> QED BY <5>1, <4>2 DEF bit
      <4> QED BY <4>1, <4>2
    <3>6. tok("back_i")' <=> (moved /\ testW) \/ (tok("back_i") /\ ~fromBack)
          BY <1>4, <1>5, <1>10 DEF LoopMoves, BuffersMove, back_iMoves, BufferMoves,
             LoopInv, LoopTypes, loop!Backedges
    <3>7. /\ tok("back_i") /\ moved /\ testW => fromBack
          /\ fromBack => tok("back_i")
          BY DEF Room, picksBack
    <3>8. bit(tok("back_i")') = bit(tok("back_i")) - bit(fromBack) + bit(moved)
                                - bit(moved /\ ~testW)
          BY <3>6, <3>7 DEF bit
    <3>9. condTaken = startedI + stepTaken - bit(stepTaken = limit) - bit(tok("back_i"))
          BY DEF LoopInv, Balanced, DataBalance
    <3>10. \A P : bit(P) \in Int
          BY DEF bit
    <3>11. /\ (bit(tok("back_i")))' = bit(tok("back_i")')
           /\ (bit(stepTaken = limit))' = bit(stepTaken' = limit)
          BY <1>10 DEF bit
    <3> HIDE DEF moved, fromStart, fromBack
    <3> QED BY <3>1, <3>2, <3>3, <3>5, <3>8, <3>9, <3>10, <3>11, <1>8 DEF DataBalance
  <2>8. StartBalance'
      BY <1>1, <1>2, <1>3, <1>4, <1>5, <1>7, <1>8, <1>9, <1>10, SMTT(30) DEF bit,
         LoopRegisters, StartOffered, Offered, StartBalance, Balanced, LoopInv, startCV,
         startIV, datumBr1R, controlBr1R, br1R, waits, Fork2Moves, fork_br1Moves,
         ForksMove, LoopMoves, Advances
  <2> QED BY <2>1, <2>2, <2>3, <2>4, <2>5, <2>6, <2>7, <2>8 DEF Balanced
<1>14. Limits'
  <2>1. StartsOnce'
      BY <1>1, <1>2, <1>3, <1>4, <1>5, <1>7, <1>8, <1>9, <1>10, SMTT(30) DEF bit,
         LoopRegisters, StartsOnce, Limits, LoopInv, StartMoves, LoopMoves
  <2>2. Entered'
      BY <1>1, <1>2, <1>3, <1>4, <1>5, <1>7, <1>8, <1>9, <1>10, SMTT(30) DEF bit,
         phiTaken, entries, LoopRegisters, EntryOffered, Offered, Entered, Bounded,
         Limits, LoopInv, phiCV, phiCIndex, picksStart, picks, startIR, Advances, Room
  <2>3. Bounded'
      BY <1>1, <1>2, <1>3, <1>4, <1>5, <1>7, <1>8, <1>9, <1>10, SMTT(30) DEF bit,
         LoopRegisters, Bounded, Limits, LoopInv, Advances, Room
  <2>4. LeftLast'
    <3>1. /\ left' = left + bit(leaves)
          /\ syncTaken' = syncTaken + bit(syncV /\ brV /\ branchCR)
          BY DEF Advances
    <3>2. syncV /\ brV =>
            syncTaken < limit /\ left = 0 /\ (brW <=> syncTaken + 1 < limit)
          BY DEF Room
    <3>3. syncV /\ brV => branchCR
          BY <1>1, <1>2, <3>2 DEF left, bit, branchCR, LoopRegisters
    <3>4. left = bit(syncTaken = limit)
          BY DEF LoopInv, Limits, LeftLast
    <3>5. CASE syncV /\ brV
      <4>1. left' = bit(~brW) /\ syncTaken' = syncTaken + 1
            BY <3>1, <3>2, <3>3, <3>5, <1>8 DEF bit, leaves
      <4>2. ~brW <=> syncTaken' = limit
            BY <4>1, <3>2, <3>5, <1>1, <1>8
      <4> QED BY <4>1, <4>2, <1>10 DEF LeftLast, bit
    <3>6. CASE ~(syncV /\ brV)
      <4>1. left' = left /\ syncTaken' = syncTaken
            BY <3>1, <3>6, <1>8 DEF bit, leaves
      <4> QED BY <4>1, <3>4, <1>10 DEF LeftLast, bit
    <3> QED BY <3>5, <3>6
  <2> QED BY <2>1, <2>2, <2>3, <2>4 DEF Limits
<1>15. stores => <<addrW, iW>> = <<stored, stored>>
  <2>1. stores => addrV /\ iV /\ fork_i[1]
        BY DEF stores
  <2>2. stores => addrW = stored /\ iW = iTaken
        BY <2>1 DEF Room
  <2>3. stores => iTaken = stored
        BY <1>1, <1>2, <2>1 DEF iTaken, bit, LoopRegisters
  <2> QED BY <2>2, <2>3
<1>16. memory' = IF stores THEN Append(memory, <<stored, stored>>) ELSE memory
      BY <1>15 DEF LoopMoves, StoreMoves
<1>17. memory \in Seq(Nat \X Nat)
      BY DEF LoopInv, LoopTypes
<1>18. StoredWords'
  <2>1. \A k \in DOMAIN memory : memory[k] = <<k - 1, k - 1>>
        BY DEF LoopInv, Numbered, StoredWords
  <2>2. CASE stores
    <3>1. memory' = Append(memory, <<stored, stored>>)
          BY <2>2, <1>16
    <3>2. /\ DOMAIN memory = 1 .. stored /\ DOMAIN memory' = 1 .. stored + 1
          /\ \A k \in 1 .. stored : memory'[k] = memory[k]
          /\ memory'[stored + 1] = <<stored, stored>>
          BY <1>1, <1>17, <3>1, LenProperties, AppendProperties DEF stored
    <3>3. \A k \in 1 .. stored + 1 : memory'[k] = <<k - 1, k - 1>>
      <4> TAKE k \in 1 .. stored + 1
      <4>1. CASE k = stored + 1
            BY <4>1, <3>2, <1>1
      <4>2. CASE k # stored + 1
        <5>1. k \in 1 .. stored
              BY <4>2, <1>1
        <5> QED BY <5>1, <3>2, <2>1
      <4> QED BY <4>1, <4>2
    <3> QED BY <3>2, <3>3 DEF StoredWords
  <2>3. CASE ~stores
        BY <2>3, <2>1, <1>16 DEF StoredWords
  <2> QED BY <2>2, <2>3
<1>19. Numbered'
  <2>1. EntryWord'
    <3>1. SUFFICES ASSUME phi_C_full'
                   PROVE  phi_C_index' = IF phiTaken' = 0 THEN 0 ELSE 1
          BY DEF EntryWord
    <3>2. /\ phiCV /\ ~phiCR
          /\ phi_C_index' = IF ~phi_C_full THEN phiCIndex ELSE phi_C_index
          BY <3>1 DEF LoopMoves, phi_CMoves
    <3>3. phiTaken' = phiTaken
          BY <3>2, <1>8 DEF Advances, bit
    <3>4. phi_C_index' = phiCIndex
          BY <3>2 DEF phiCIndex
    <3> QED BY <3>2, <3>3, <3>4 DEF Room
  <2>2. CondWord'
      BY <1>1, <1>2, <1>3, <1>4, <1>5, <1>7, <1>8, <1>9, <1>10, SMTT(30) DEF bit,
         LoopRegisters, EntryBalance, Balanced, CondWord, LoopInv, offered, carried,
         condV, condW, picksStart, picks, condR, BufferMoves, condMoves, BuffersMove,
         LoopMoves, Advances, Room
  <2>3. MuxWord'
      BY <1>1, <1>2, <1>3, <1>4, <1>5, <1>7, <1>8, <1>9, <1>10, SMTT(30) DEF bit,
         LoopRegisters, MuxWord, BackWord, Numbered, LoopInv, picksBack, picks, phiIW,
         phi_iMoves, LoopMoves, Advances, Room
  <2>4. DatumWord'
      BY <1>1, <1>2, <1>3, <1>4, <1>5, <1>7, <1>8, <1>9, <1>10, SMTT(30) DEF bit,
         LoopRegisters, DatumWord, offered, carried, iV, iW, BufferMoves, toIMoves,
         BuffersMove, LoopMoves, Advances, Room
  <2>5. AddrWord'
      BY <1>1, <1>2, <1>3, <1>4, <1>5, <1>7, <1>8, <1>9, <1>10, SMTT(30) DEF bit,
         LoopRegisters, AddrBalance, Balanced, AddrWord, LoopInv, offered, carried,
         addrV, addrW, stores, BufferMoves, addrMoves, BuffersMove, LoopMoves,
         Advances, Room
  <2>6. StepWord'
      BY <1>1, <1>2, <1>3, <1>4, <1>5, <1>7, <1>8, <1>9, <1>10, SMTT(30) DEF bit,
         sumTaken, LoopRegisters, StepBalance, Balanced, StepWord, LoopInv, offered,
         carried, sumV, i_brV, i_brW, BufferMoves, i_brMoves, BuffersMove, LoopMoves,
         Advances, Room
  <2>7. TestWord'
      BY <1>1, <1>2, <1>3, <1>4, <1>5, <1>7, <1>8, <1>9, <1>10, SMTT(30) DEF bit,
         sumTaken, stepTaken, condTaken, entries, startTaken, startedB, LoopRegisters,
         EntryOffered, StartOffered, Offered, StepBalance, TestBalance, EntryBalance,
         ControlBalance, StartBalance, Balanced, LeftLast, Limits, TestWord, LoopInv,
         offered, carried, phiCV, condV, picksStart, picksBack, picks, iV, sumV,
         testV, testW, againV, brV, brW, BufferMoves, brMoves, BuffersMove, LoopMoves,
         Advances, Room
  <2>8. BackWord'
      BY <1>1, <1>2, <1>3, <1>4, <1>5, <1>7, <1>8, <1>9, <1>10, SMTT(30) DEF bit,
         sumTaken, condTaken, LoopRegisters, datumHeld, DatumOffered, SumOffered,
         Offered, StepBalance, DataBalance, Balanced, BackWord, Numbered, LoopInv,
         offered, picksStart, picks, iV, sumV, testV, i_brV, againV, BufferMoves,
         back_iMoves, BuffersMove, LoopMoves, Advances, Room
  <2> QED BY <2>1, <2>2, <2>3, <2>4, <2>5, <2>6, <2>7, <2>8, <1>18 DEF Numbered
<1>20. LoopTypes'
  <2>1. placed' \subseteq loop!Channels /\ loop!Backedges \subseteq placed'
        BY <1>10 DEF LoopInv, LoopTypes, loop!Channels, loop!Optional, loop!Backedges
  <2>2. (memory \in Seq(Nat \X Nat))'
    <3>1. <<stored, stored>> \in Nat \X Nat
          BY <1>1
    <3> QED BY <3>1, <1>16, <1>17, AppendProperties
  <2>3. ("br" \in placed => word("br") \in BOOLEAN)'
    <3>1. testW \in BOOLEAN
          BY DEF testW
    <3> QED BY <3>1, <1>10 DEF LoopInv, LoopTypes, LoopMoves, BuffersMove, brMoves,
           BufferMoves
  <2> QED BY <2>1, <2>2, <2>3, <1>1, <1>3, <1>7, <1>10 DEF LoopTypes
<1>21. Shallow'
  <2>1. ~start_tehb'
        BY <1>2 DEF LoopInv, Limits, StartsOnce, LoopMoves, StartMoves
  <2>2. "phi_C" \in placed => ~late("phi_C")'
        BY DEF Room, LoopMoves, BuffersMove, toC2Moves, BufferMoves
  <2>3. "phi_i" \in placed => ~late("phi_i")'
        BY DEF Room, LoopMoves, BuffersMove, toIMoves, BufferMoves
  <2>4. "cond" \in placed => ~late("cond")'
        BY DEF Room, LoopMoves, BuffersMove, condMoves, BufferMoves
  <2>5. "addr" \in placed => ~late("addr")'
        BY DEF Room, LoopMoves, BuffersMove, addrMoves, BufferMoves
  <2>6. "i_br" \in placed => ~late("i_br")'
        BY DEF Room, LoopMoves, BuffersMove, i_brMoves, BufferMoves
  <2>7. "br" \in placed => ~late("br")'
        BY DEF Room, LoopMoves, BuffersMove, brMoves, BufferMoves
  <2>8. "sync" \in placed => ~late("sync")'
        BY DEF Room, LoopMoves, BuffersMove, syncMoves, BufferMoves
  <2>9. "back_C" \in placed => ~late("back_C")'
        BY DEF Room, LoopMoves, BuffersMove, back_CMoves, BufferMoves
  <2>10. "back_i" \in placed => ~late("back_i")'
        BY DEF Room, LoopMoves, BuffersMove, back_iMoves, BufferMoves
  <2>11. \A c \in loop!Channels : c \in placed => ~late(c)'
        BY <2>2, <2>3, <2>4, <2>5, <2>6, <2>7, <2>8, <2>9, <2>10
        DEF loop!Channels, loop!Optional, loop!Backedges
  <2> QED BY <2>1, <2>11, <1>10 DEF Shallow, LoopInv, LoopTypes
<1> QED BY <1>11, <1>12, <1>13, <1>14, <1>19, <1>18, <1>20, <1>21 DEF LoopInv

\* What the outputs of a bundle of two wires are.
LEMMA TwoWires ==
  ASSUME NEW a, NEW b
  PROVE  loop!Pair(a, b)[0] = a /\ loop!Pair(a, b)[1] = b
BY DEF loop!Pair

\* The same of three.
LEMMA ThreeWires ==
  ASSUME NEW a, NEW b, NEW c
  PROVE  /\ loop!Triple(a, b, c)[0] = a /\ loop!Triple(a, b, c)[1] = b
         /\ loop!Triple(a, b, c)[2] = c
BY DEF loop!Triple

\* A fork of two outputs is ready when every output that still waits is.
LEMMA TwoWayFork ==
  ASSUME NEW reg, NEW r
  PROVE  loop!eagerFork(2, reg)!ready(r) <=> (reg[0] => r[0]) /\ (reg[1] => r[1])
BY DEF loop!eagerFork!ready, loop!eagerFork!forkStop, loop!eagerFork!block_stop,
   loop!eagerFork!Outputs

\* A fork of three outputs, likewise.
LEMMA ThreeWayFork ==
  ASSUME NEW reg, NEW r
  PROVE  loop!eagerFork(3, reg)!ready(r) <=>
           (reg[0] => r[0]) /\ (reg[1] => r[1]) /\ (reg[2] => r[2])
BY DEF loop!eagerFork!ready, loop!eagerFork!forkStop, loop!eagerFork!block_stop,
   loop!eagerFork!Outputs

\* A branch is a join followed by a choice of the output.
LEMMA BranchWires ==
  ASSUME NEW cond \in BOOLEAN, NEW v, NEW r
  PROVE  /\ loop!branch_valid(0, cond, v) <=> cond /\ v[0] /\ v[1]
         /\ loop!branch_valid(1, cond, v) <=> ~cond /\ v[0] /\ v[1]
         /\ loop!branch_ready(0, cond, v, r) <=> v[1] /\ loop!branchReady(cond, r)
         /\ loop!branch_ready(1, cond, v, r) <=> v[0] /\ loop!branchReady(cond, r)
<1>1. loop!br!valid(v) <=> v[0] /\ v[1]
      BY DEF loop!br!valid
<1>2. loop!selects(0, cond) <=> cond
      BY DEF loop!selects
<1>3. loop!selects(1, cond) <=> ~cond
      BY DEF loop!selects
<1>4. \A x : loop!br!ready(0, v, x) <=> v[1] /\ x
      BY DEF loop!br!ready
<1>5. \A x : loop!br!ready(1, v, x) <=> v[0] /\ x
      BY DEF loop!br!ready
<1> QED BY <1>1, <1>2, <1>3, <1>4, <1>5 DEF loop!branch_valid, loop!branch_ready

\* Joins of two channels and of three.
LEMMA JoinWires ==
  ASSUME NEW v, NEW r
  PROVE  /\ loop!joined(2)!valid(v) <=> v[0] /\ v[1]
         /\ loop!joined(3)!valid(v) <=> v[0] /\ v[1] /\ v[2]
         /\ loop!joined(2)!ready(0, v, r) <=> v[1] /\ r
         /\ loop!joined(2)!ready(1, v, r) <=> v[0] /\ r
         /\ loop!joined(3)!ready(0, v, r) <=> v[1] /\ v[2] /\ r
         /\ loop!joined(3)!ready(1, v, r) <=> v[0] /\ v[2] /\ r
BY DEF loop!joined!valid, loop!joined!ready

\* The wires of a channel that may be buffered.
LEMMA ChannelWires ==
  ASSUME Shallow, NEW c, NEW v, NEW w, NEW r
  PROVE  /\ loop!validOn(c, v) <=> offered(c, v)
         /\ loop!dataOn(c, w) = carried(c, w)
         /\ loop!readyOn(c, r) <=> c \in placed \/ r
BY DEF Shallow, late, tok, word, offered, carried, loop!validOn, loop!dataOn,
   loop!readyOn,
   loop!tehb!ready

\* The registers of a buffer whose first half is empty, after a cycle.
LEMMA BufferAfter ==
  ASSUME Shallow, NEW c, NEW v, NEW w, NEW r, c \in placed,
         placed' = placed, buffers'[c] = loop!buffer_next(c, v, w, r)
  PROVE  /\ late(c)' <=> v /\ tok(c) /\ ~r
         /\ tok(c)' <=> v \/ (tok(c) /\ ~r)
         /\ word(c)' = IF v /\ (~tok(c) \/ r) THEN w ELSE word(c)
         /\ buffers'[c][1] \in BOOLEAN /\ buffers'[c][3] \in BOOLEAN
<1> DEFINE R == loop!oehb(c)!ready(r)
           V == loop!tehb(c)!valid(v)
           D == loop!tehb(c)!dataOut(w)
<1>1. ~buffers[c][1]
      BY DEF Shallow, late
<1>2. buffers'[c] = <<loop!tehb(c)!full_next(v, R), loop!tehb(c)!data_next(v, w, R),
                      loop!oehb(c)!valid_next(V, r), loop!oehb(c)!data_next(V, D, r)>>
      BY DEF loop!buffer_next
<1>3. /\ R <=> ~buffers[c][3] \/ r
      /\ V <=> v
      /\ D = w
      BY <1>1 DEF loop!oehb!ready, loop!tehb!valid, loop!tehb!dataOut
<1> HIDE DEF R, V, D
<1>4. /\ buffers'[c][1] = loop!tehb(c)!full_next(v, R)
      /\ buffers'[c][3] = loop!oehb(c)!valid_next(V, r)
      /\ buffers'[c][4] = loop!oehb(c)!data_next(V, D, r)
      BY <1>2
<1>5. loop!tehb(c)!full_next(v, R) <=> v /\ ~R
      BY <1>1 DEF loop!tehb!full_next, loop!tehb!valid
<1>6. loop!oehb(c)!valid_next(V, r) <=> V \/ ~(~buffers[c][3] \/ r)
      BY DEF loop!oehb!valid_next, loop!oehb!ready
<1>7. loop!oehb(c)!data_next(V, D, r)
        = IF V /\ (~buffers[c][3] \/ r) THEN D ELSE buffers[c][4]
      BY DEF loop!oehb!data_next, loop!oehb!reg_en, loop!oehb!ready
<1>8. /\ loop!tehb(c)!full_next(v, R) \in BOOLEAN
      /\ loop!oehb(c)!valid_next(V, r) \in BOOLEAN
      BY DEF loop!tehb!full_next, loop!oehb!valid_next
<1>9. tok(c) <=> buffers[c][3]
      BY DEF tok
<1>10. late(c)' <=> v /\ tok(c) /\ ~r
       BY <1>3, <1>4, <1>5, <1>9 DEF late
<1>11. tok(c)' <=> v \/ (tok(c) /\ ~r)
       BY <1>3, <1>4, <1>6, <1>9 DEF tok
<1>12. word(c)' = IF v /\ (~tok(c) \/ r) THEN w ELSE word(c)
       BY <1>3, <1>4, <1>7, <1>9 DEF word
<1> QED BY <1>4, <1>8, <1>10, <1>11, <1>12

\* What a block of a fork holds after a cycle.
LEMMA ForkBlock ==
  ASSUME NEW n, NEW reg, NEW k, NEW v, NEW r
  PROVE  /\ loop!eagerFork(n, reg)!reg_in(k, v, r) <=> (reg[k] /\ ~r[k])
              \/ ~(v /\ ~loop!eagerFork(n, reg)!ready(r))
         /\ loop!eagerFork(n, reg)!reg_in(k, v, r) \in BOOLEAN
BY DEF loop!eagerFork!reg_in, loop!eagerFork!block_stop, loop!eagerFork!ready

\* What one cycle of the clock does to the registers, with the wires between them
\* followed from end to end: the composition of all the entities of the circuit.
LEMMA CycleMoves ==
  ASSUME LoopTypes, Shallow, NEW pStart \in BOOLEAN, NEW accept \in BOOLEAN,
         NEW answer \in BOOLEAN, loop!Cycle(pStart, accept, answer)
  PROVE  LoopMoves(pStart, accept, answer)
<1> DEFINE
      c2W     == loop!validOn("phi_C", loop!phi_C!valid(0, loop!phi_C_in))
      cdW     == loop!dataOn("cond", loop!phi_C!condition(loop!phi_C_in))
      muxIn   ==
        loop!Triple(loop!validOn("cond", loop!phi_C!valid(1, loop!phi_C_in)),
                loop!branch_valid(0, TRUE, loop!branch_i1_in),
                loop!validOn("back_i", FALSE))
      muxData == loop!Pair(0, loop!dataOn("back_i", 0))
      iVW     == loop!validOn("phi_i", loop!phi_i!valid(cdW, muxIn))
      iDW     == loop!dataOn("phi_i", loop!phi_i!dataOut(cdW, muxIn, muxData))
      storeIn ==
        loop!Triple(loop!validOn("addr", loop!eagerFork(3, fork_i)!valid(0, iVW)),
                loop!eagerFork(3, fork_i)!valid(1, iVW), triggered)
      addrDW  == loop!dataOn("addr", iDW)
      sumVW   == loop!eagerFork(3, fork_i)!valid(2, iVW)
      testDW  == iDW + 1 < limit
      testVW  == loop!eagerFork(2, fork_add)!valid(0, sumVW)
      branchI ==
        loop!Pair(loop!validOn("i_br", loop!eagerFork(2, fork_add)!valid(1, sumVW)),
              loop!eagerFork(2, fork_br2)!valid(0, testVW))
      joinIn  == loop!join_C2_in(c2W)
      syncW   == loop!joined(2)!valid(joinIn)
      branchC ==
        loop!Pair(loop!validOn("sync", syncW),
              loop!validOn("br", loop!eagerFork(2, fork_br2)!valid(1, testVW)))
      brDW    == loop!dataOn("br", testDW)
      c3VW    == loop!phi_C3!valid(loop!branch_valid(1, brDW, branchC))
      branchCOut == loop!Pair(loop!readyOn("back_C", FALSE), loop!phi_C3!ready)
      branchIOut == loop!Pair(loop!readyOn("back_i", FALSE), TRUE)
      syncRW  == loop!branch_ready(0, brDW, branchC, branchCOut)
      forkC2Out ==
        loop!Pair(loop!joined(2)!ready(0, joinIn, loop!readyOn("sync", syncRW)), TRUE)
      brRW    == loop!branch_ready(1, brDW, branchC, branchCOut)
      forkBr2Out ==
        loop!Pair(loop!branch_ready(1, testDW, branchI, branchIOut),
              loop!readyOn("br", brRW))
      i_brRW  == loop!branch_ready(0, testDW, branchI, branchIOut)
      forkAddOut ==
        loop!Pair(loop!eagerFork(2, fork_br2)!ready(forkBr2Out),
              loop!readyOn("i_br", i_brRW))
      addrRW  == loop!joined(3)!ready(0, storeIn, ~written)
      forkIOut ==
        loop!Triple(loop!readyOn("addr", addrRW),
                loop!joined(3)!ready(1, storeIn, ~written),
                loop!eagerFork(2, fork_add)!ready(forkAddOut))
      iRW     == loop!eagerFork(3, fork_i)!ready(forkIOut)
      cdRW    == loop!phi_i!readyCondition(cdW, muxIn)
      c2RW    == loop!eagerFork(2, fork_C2)!ready(forkC2Out)
      phiCOut == loop!Pair(loop!readyOn("phi_C", c2RW), loop!readyOn("cond", cdRW))
      branchC1Out == loop!Pair(loop!phi_C!ready, TRUE)
      branchI1Out == loop!Pair(loop!phi_i!readyData(0, cdW, muxIn), TRUE)
      forkBr1Out ==
        loop!Pair(loop!branch_ready(1, TRUE, loop!branch_i1_in, branchI1Out),
              loop!branch_ready(1, TRUE, loop!branch_C1_in, branchC1Out))
      forkC1Out ==
        loop!Triple(loop!branch_ready(0, TRUE, loop!branch_i1_in, branchI1Out),
                loop!eagerFork(2, fork_br1)!ready(forkBr1Out),
                loop!branch_ready(0, TRUE, loop!branch_C1_in, branchC1Out))
      storesW == loop!joined(3)!valid(storeIn) /\ ~written
      ackedW  ==
        acknowledged /\ loop!joined(2)!ready(1, joinIn, loop!readyOn("sync", syncRW))
<1>1. /\ loop!start_Clock(pStart, loop!eagerFork(3, fork_C1)!ready(forkC1Out))
      /\ loop!eagerFork(3, fork_C1)!Clock(loop!startBuff!valid, forkC1Out)
      /\ loop!eagerFork(2, fork_br1)!Clock(
           loop!eagerFork(3, fork_C1)!valid(1, loop!startBuff!valid), forkBr1Out)
      /\ loop!phi_C!Clock(loop!phi_C_in, phiCOut)
      /\ loop!phi_i!Clock(cdW, muxIn, muxData, loop!readyOn("phi_i", iRW))
      /\ loop!eagerFork(3, fork_i)!Clock(iVW, forkIOut)
      /\ loop!eagerFork(2, fork_add)!Clock(sumVW, forkAddOut)
      /\ loop!eagerFork(2, fork_br2)!Clock(testVW, forkBr2Out)
      /\ loop!eagerFork(2, fork_C2)!Clock(c2W, forkC2Out)
      BY DEF loop!Cycle
<1>2. /\ phi_C3_full'
           = loop!phi_C3!full_next(loop!branch_valid(1, brDW, branchC), loop!ret!ready)
      /\ ret_full' = loop!ret!full_next(c3VW, accept)
      /\ triggered' = (\/ loop!eagerFork(2, fork_C2)!valid(1, c2W)
                       \/ triggered /\ ~storesW)
      /\ written' = (storesW \/ (written /\ ~ackedW))
      /\ acknowledged' = (((written /\ answer) \/ acknowledged) /\ ~ackedW)
      /\ memory' = IF storesW THEN Append(memory, <<addrDW, iDW>>) ELSE memory
      /\ exits' = IF loop!ret!valid(c3VW) /\ accept THEN exits + 1 ELSE exits
      /\ UNCHANGED <<placed, limit>>
      BY DEF loop!Cycle
<1>3. /\ buffers'["phi_C"]
           = loop!buffer_next("phi_C", loop!phi_C!valid(0, loop!phi_C_in), 0, c2RW)
      /\ buffers'["cond"]
           = loop!buffer_next("cond", loop!phi_C!valid(1, loop!phi_C_in),
                          loop!phi_C!condition(loop!phi_C_in), cdRW)
      /\ buffers'["phi_i"]
           = loop!buffer_next("phi_i", loop!phi_i!valid(cdW, muxIn),
                          loop!phi_i!dataOut(cdW, muxIn, muxData), iRW)
      /\ buffers'["addr"]
           = loop!buffer_next("addr", loop!eagerFork(3, fork_i)!valid(0, iVW),
                          iDW, addrRW)
      /\ buffers'["i_br"]
           = loop!buffer_next("i_br", loop!eagerFork(2, fork_add)!valid(1, sumVW),
                          iDW + 1, i_brRW)
      /\ buffers'["br"]
           = loop!buffer_next("br", loop!eagerFork(2, fork_br2)!valid(1, testVW),
                          testDW, brRW)
      /\ buffers'["sync"] = loop!buffer_next("sync", syncW, 0, syncRW)
      /\ buffers'["back_C"]
           = loop!buffer_next("back_C", loop!branch_valid(0, brDW, branchC),
                          0, loop!phi_C!ready)
      /\ buffers'["back_i"]
           = loop!buffer_next("back_i", loop!branch_valid(0, testDW, branchI),
                          loop!dataOn("i_br", iDW + 1),
                          loop!phi_i!readyData(1, cdW, muxIn))
      BY DEF loop!Cycle, loop!Channels, loop!Optional, loop!Backedges
<1> HIDE DEF c2W, cdW, muxIn, muxData, iVW, iDW, storeIn, addrDW, sumVW, testDW,
       testVW, branchI, joinIn, syncW, branchC, brDW, c3VW, branchCOut, branchIOut,
       syncRW, forkC2Out, brRW, forkBr2Out, i_brRW, forkAddOut, addrRW, forkIOut, iRW,
       cdRW, c2RW, phiCOut, branchC1Out, branchI1Out, forkBr1Out, forkC1Out, storesW,
       ackedW
<1>4. LoopRegisters
      BY DEF LoopTypes
<1>5. tok("back_C") <=> buffers["back_C"][3]
      BY DEF LoopTypes, tok, loop!Backedges
<1>6. tok("back_i") <=> buffers["back_i"][3]
      BY DEF LoopTypes, tok, loop!Backedges
<1>7. /\ loop!branch_C1_in[0] <=> fork_C1[2] /\ start_oehb
      /\ loop!branch_C1_in[1] <=> fork_br1[1] /\ fork_C1[1] /\ start_oehb
      BY TwoWires DEF loop!branch_C1_in, loop!eagerFork!valid, loop!startBuff!valid
<1>8. /\ loop!branch_i1_in[0] <=> fork_C1[0] /\ start_oehb
      /\ loop!branch_i1_in[1] <=> fork_br1[0] /\ fork_C1[1] /\ start_oehb
      BY TwoWires DEF loop!branch_i1_in, loop!eagerFork!valid, loop!startBuff!valid
<1>9. loop!phi_C_in[0] <=> startCV
  <2>1. loop!phi_C_in[0] = loop!branch_valid(0, TRUE, loop!branch_C1_in)
        BY TwoWires DEF loop!phi_C_in
  <2>2. loop!branch_valid(0, TRUE, loop!branch_C1_in)
          <=> loop!branch_C1_in[0] /\ loop!branch_C1_in[1]
        BY BranchWires
  <2> QED BY <2>1, <2>2, <1>7 DEF startCV
<1>10. loop!phi_C_in[1] <=> tok("back_C")
  <2>1. loop!phi_C_in[1] = loop!validOn("back_C", FALSE)
        BY TwoWires DEF loop!phi_C_in
  <2>2. loop!validOn("back_C", FALSE) <=> offered("back_C", FALSE)
        BY ChannelWires
  <2> QED BY <2>1, <2>2 DEF offered, LoopTypes, loop!Backedges
<1>11. /\ loop!phi_C!oehb1!valid(loop!phi_C!phi_valid(loop!phi_C_in)) <=> phiCV
       /\ loop!phi_C!phi_valid(loop!phi_C_in) <=> startCV \/ tok("back_C")
       BY <1>9, <1>10 DEF loop!phi_C!oehb1!valid, loop!phi_C!phi_valid, phiCV
<1>12. loop!phi_C!valid(0, loop!phi_C_in) <=> phi_C_fork[0] /\ phiCV
       BY <1>11 DEF loop!phi_C!valid, loop!phi_C!fork_C1!valid
<1>13. loop!phi_C!valid(1, loop!phi_C_in) <=> phi_C_fork[1] /\ phiCV
       BY <1>11 DEF loop!phi_C!valid, loop!phi_C!fork_C1!valid
<1>14. loop!phi_C!condition(loop!phi_C_in) = phiCIndex
       BY <1>9 DEF loop!phi_C!condition, loop!phi_C!oehb1!dataOut, loop!phi_C!index,
          phiCIndex
<1>15. c2W <=> c2V
       BY <1>12, ChannelWires DEF c2W, c2V, offered
<1>16. cdW = condW
       BY <1>14, ChannelWires DEF cdW, condW
<1>17. /\ muxIn[0] = loop!validOn("cond", loop!phi_C!valid(1, loop!phi_C_in))
       /\ muxIn[1] = loop!branch_valid(0, TRUE, loop!branch_i1_in)
       /\ muxIn[2] = loop!validOn("back_i", FALSE)
  <2> DEFINE a == loop!validOn("cond", loop!phi_C!valid(1, loop!phi_C_in))
             b == loop!branch_valid(0, TRUE, loop!branch_i1_in)
             c == loop!validOn("back_i", FALSE)
  <2>1. muxIn = loop!Triple(a, b, c)
        BY DEF muxIn
  <2> HIDE DEF a, b, c
  <2>2. muxIn[0] = a /\ muxIn[1] = b /\ muxIn[2] = c
        BY <2>1, ThreeWires
  <2> QED BY <2>2 DEF a, b, c
<1>18. muxIn[0] <=> condV
  <2>1. muxIn[0] = loop!validOn("cond", loop!phi_C!valid(1, loop!phi_C_in))
        BY <1>17
  <2>2. muxIn[0] <=> offered("cond", loop!phi_C!valid(1, loop!phi_C_in))
        BY <2>1, ChannelWires
  <2> QED BY <2>2, <1>13 DEF condV, offered
<1>19. muxIn[1] <=> startIV
  <2>1. muxIn[1] = loop!branch_valid(0, TRUE, loop!branch_i1_in)
        BY <1>17
  <2>2. loop!branch_valid(0, TRUE, loop!branch_i1_in)
          <=> loop!branch_i1_in[0] /\ loop!branch_i1_in[1]
        BY BranchWires
  <2> QED BY <2>1, <2>2, <1>8 DEF startIV
<1>20. muxIn[2] <=> tok("back_i")
  <2>1. muxIn[2] = loop!validOn("back_i", FALSE)
        BY <1>17
  <2>2. loop!validOn("back_i", FALSE) <=> offered("back_i", FALSE)
        BY ChannelWires
  <2> QED BY <2>1, <2>2 DEF offered, LoopTypes, loop!Backedges
<1>21. muxData[0] = 0 /\ muxData[1] = word("back_i")
  <2>1. muxData[0] = 0 /\ muxData[1] = loop!dataOn("back_i", 0)
        BY TwoWires DEF muxData
  <2>2. loop!dataOn("back_i", 0) = carried("back_i", 0)
        BY ChannelWires
  <2> QED BY <2>1, <2>2 DEF carried, LoopTypes, loop!Backedges
<1>22. loop!phi_i!Chosen(0, cdW, muxIn) <=> picksStart
       BY <1>16, <1>18, <1>19 DEF loop!phi_i!Chosen, picksStart
<1>23. loop!phi_i!Chosen(1, cdW, muxIn) <=> picksBack
       BY <1>16, <1>18, <1>20 DEF loop!phi_i!Chosen, picksBack
<1>24. loop!phi_i!tmp_valid_out(cdW, muxIn) <=> picks
       BY <1>22, <1>23 DEF loop!phi_i!tmp_valid_out, loop!phi_i!Predecessors, picks
<1>25. loop!phi_i!tmp_data_out(cdW, muxIn, muxData)
         = IF picksBack THEN word("back_i") ELSE 0
  <2>1. picksBack => condW = 1
        BY DEF picksBack
  <2>2. picks /\ ~picksBack => condW = 0
        BY DEF picks, picksStart
  <2> QED BY <2>1, <2>2, <1>16, <1>21, <1>24 DEF loop!phi_i!tmp_data_out, picks
<1>26. loop!phi_i!valid(cdW, muxIn) <=> phi_i_full \/ picks
       BY <1>24 DEF loop!phi_i!valid, loop!phi_i!tehb1!valid
<1>27. loop!phi_i!dataOut(cdW, muxIn, muxData) = phiIW
       BY <1>25 DEF loop!phi_i!dataOut, loop!phi_i!tehb1!dataOut, phiIW
<1>28. iVW <=> iV
  <2>1. iVW <=> offered("phi_i", loop!phi_i!valid(cdW, muxIn))
        BY ChannelWires DEF iVW
  <2> QED BY <2>1, <1>26 DEF iV, offered
<1>29. iDW = iW
       BY <1>27, ChannelWires DEF iDW, iW
<1>30. /\ loop!eagerFork(3, fork_i)!valid(0, iVW) <=> fork_i[0] /\ iV
       /\ loop!eagerFork(3, fork_i)!valid(1, iVW) <=> fork_i[1] /\ iV
       /\ sumVW <=> sumV
       BY <1>28 DEF loop!eagerFork!valid, sumVW, sumV
<1>31. storeIn[0] <=> addrV
  <2>1. storeIn[0] = loop!validOn("addr", loop!eagerFork(3, fork_i)!valid(0, iVW))
        BY ThreeWires DEF storeIn
  <2>2. storeIn[0] <=> offered("addr", loop!eagerFork(3, fork_i)!valid(0, iVW))
        BY <2>1, ChannelWires
  <2> QED BY <2>2, <1>30 DEF addrV, offered
<1>32. (storeIn[1] <=> fork_i[1] /\ iV) /\ (storeIn[2] <=> triggered)
       BY <1>30, ThreeWires DEF storeIn
<1>33. addrDW = addrW
       BY <1>29, ChannelWires DEF addrDW, addrW
<1>34. testDW = testW /\ testDW \in BOOLEAN
       BY <1>29 DEF testDW, testW
<1>35. /\ loop!eagerFork(2, fork_add)!valid(1, sumVW) <=> fork_add[1] /\ sumV
       /\ testVW <=> testV
       BY <1>30 DEF loop!eagerFork!valid, testVW, testV
<1>36. /\ loop!eagerFork(2, fork_br2)!valid(0, testVW) <=> againV
       /\ loop!eagerFork(2, fork_br2)!valid(1, testVW) <=> fork_br2[1] /\ testV
       BY <1>35 DEF loop!eagerFork!valid, againV
<1>37. branchI[0] <=> i_brV
  <2>1. branchI[0] = loop!validOn("i_br", loop!eagerFork(2, fork_add)!valid(1, sumVW))
        BY TwoWires DEF branchI
  <2>2. branchI[0] <=> offered("i_br", loop!eagerFork(2, fork_add)!valid(1, sumVW))
        BY <2>1, ChannelWires
  <2> QED BY <2>2, <1>35 DEF i_brV, offered
<1>38. branchI[1] <=> againV
       BY <1>36, TwoWires DEF branchI
<1>39. (joinIn[0] <=> fork_C2[0] /\ c2V) /\ (joinIn[1] <=> acknowledged)
  <2>1. joinIn[0] = loop!eagerFork(2, fork_C2)!valid(0, c2W) /\ joinIn[1] = acknowledged
    <3>1. joinIn = loop!Pair(loop!eagerFork(2, fork_C2)!valid(0, c2W), acknowledged)
          BY DEF joinIn, loop!join_C2_in
    <3> QED BY <3>1, TwoWires
  <2>2. loop!eagerFork(2, fork_C2)!valid(0, c2W) <=> fork_C2[0] /\ c2W
        BY DEF loop!eagerFork!valid
  <2> QED BY <2>1, <2>2, <1>15
<1>40. syncW <=> syncedV
       BY <1>39, JoinWires DEF syncW, syncedV
<1>41. branchC[0] <=> syncV
  <2>1. branchC[0] = loop!validOn("sync", syncW)
        BY TwoWires DEF branchC
  <2>2. branchC[0] <=> offered("sync", syncW)
        BY <2>1, ChannelWires
  <2> QED BY <2>2, <1>40 DEF syncV, offered
<1>42. branchC[1] <=> brV
  <2>1. branchC[1] = loop!validOn("br", loop!eagerFork(2, fork_br2)!valid(1, testVW))
        BY TwoWires DEF branchC
  <2>2. branchC[1] <=> offered("br", loop!eagerFork(2, fork_br2)!valid(1, testVW))
        BY <2>1, ChannelWires
  <2> QED BY <2>2, <1>36 DEF brV, offered
<1>43. brDW = brW /\ brDW \in BOOLEAN
       BY <1>34, ChannelWires DEF brDW, brW, carried, LoopTypes
<1>44. loop!branchReady(brDW, branchCOut) <=> branchCR
  <2>1. /\ branchCOut[0] = loop!readyOn("back_C", FALSE)
        /\ branchCOut[1] = loop!phi_C3!ready
    <3> DEFINE a == loop!readyOn("back_C", FALSE)
               b == loop!phi_C3!ready
    <3>1. branchCOut = loop!Pair(a, b)
          BY DEF branchCOut
    <3> HIDE DEF a, b
    <3>2. branchCOut[0] = a /\ branchCOut[1] = b
          BY <3>1, TwoWires
    <3> QED BY <3>2 DEF a, b
  <2>2. loop!readyOn("back_C", FALSE) <=> TRUE
        BY ChannelWires DEF LoopTypes, loop!Backedges
  <2>3. loop!phi_C3!ready <=> ~phi_C3_full
        BY DEF loop!phi_C3!ready
  <2> QED BY <2>1, <2>2, <2>3, <1>43 DEF loop!branchReady, branchCR
<1>45. syncRW <=> brV /\ branchCR
      BY <1>44, <1>42, <1>43, BranchWires DEF syncRW
<1>46. brRW <=> syncV /\ branchCR
      BY <1>44, <1>41, <1>43, BranchWires DEF brRW
<1>47. loop!readyOn("sync", syncRW) <=> toSyncR
      BY <1>45, ChannelWires DEF toSyncR
<1>48. loop!readyOn("br", brRW) <=> toBrR
      BY <1>46, ChannelWires DEF toBrR
<1>49. loop!branchReady(testDW, branchIOut) <=> TRUE
  <2>1. /\ branchIOut[0] = loop!readyOn("back_i", FALSE)
        /\ branchIOut[1] = TRUE
    <3> DEFINE a == loop!readyOn("back_i", FALSE)
               b == TRUE
    <3>1. branchIOut = loop!Pair(a, b)
          BY DEF branchIOut
    <3> HIDE DEF a, b
    <3>2. branchIOut[0] = a /\ branchIOut[1] = b
          BY <3>1, TwoWires
    <3> QED BY <3>2 DEF a, b
  <2>2. loop!readyOn("back_i", FALSE) <=> TRUE
        BY ChannelWires DEF LoopTypes, loop!Backedges
  <2> QED BY <2>1, <2>2, <1>34 DEF loop!branchReady
<1>50. /\ loop!branch_ready(1, testDW, branchI, branchIOut) <=> i_brV
       /\ i_brRW <=> againV
      BY <1>49, <1>34, <1>37, <1>38, BranchWires DEF i_brRW
<1>51. loop!readyOn("i_br", i_brRW) <=> toI_brR
      BY <1>50, ChannelWires DEF toI_brR
<1>52. (forkBr2Out[0] <=> i_brV) /\ (forkBr2Out[1] <=> toBrR)
  <2>1. /\ forkBr2Out[0] = loop!branch_ready(1, testDW, branchI, branchIOut)
        /\ forkBr2Out[1] = loop!readyOn("br", brRW)
    <3> DEFINE a == loop!branch_ready(1, testDW, branchI, branchIOut)
               b == loop!readyOn("br", brRW)
    <3>1. forkBr2Out = loop!Pair(a, b)
          BY DEF forkBr2Out
    <3> HIDE DEF a, b
    <3>2. forkBr2Out[0] = a /\ forkBr2Out[1] = b
          BY <3>1, TwoWires
    <3> QED BY <3>2 DEF a, b
  <2> QED BY <2>1, <1>50, <1>48
<1>53. loop!eagerFork(2, fork_br2)!ready(forkBr2Out) <=> testR
      BY <1>52, TwoWayFork DEF testR
<1>54. (forkAddOut[0] <=> testR) /\ (forkAddOut[1] <=> toI_brR)
  <2>1. /\ forkAddOut[0] = loop!eagerFork(2, fork_br2)!ready(forkBr2Out)
        /\ forkAddOut[1] = loop!readyOn("i_br", i_brRW)
    <3> DEFINE a == loop!eagerFork(2, fork_br2)!ready(forkBr2Out)
               b == loop!readyOn("i_br", i_brRW)
    <3>1. forkAddOut = loop!Pair(a, b)
          BY DEF forkAddOut
    <3> HIDE DEF a, b
    <3>2. forkAddOut[0] = a /\ forkAddOut[1] = b
          BY <3>1, TwoWires
    <3> QED BY <3>2 DEF a, b
  <2> QED BY <2>1, <1>53, <1>51
<1>55. loop!eagerFork(2, fork_add)!ready(forkAddOut) <=> sumR
      BY <1>54, TwoWayFork DEF sumR
<1>56. addrRW <=> fork_i[1] /\ iV /\ storeR
      BY <1>32, JoinWires DEF addrRW, storeR
<1>57. loop!joined(3)!ready(1, storeIn, ~written) <=> datumR
      BY <1>31, <1>32, JoinWires DEF datumR, storeR
<1>58. loop!readyOn("addr", addrRW) <=> toAddrR
      BY <1>56, ChannelWires DEF toAddrR
<1>59. (forkIOut[0] <=> toAddrR) /\ (forkIOut[1] <=> datumR) /\ (forkIOut[2] <=> sumR)
  <2>1. /\ forkIOut[0] = loop!readyOn("addr", addrRW)
        /\ forkIOut[1] = loop!joined(3)!ready(1, storeIn, ~written)
        /\ forkIOut[2] = loop!eagerFork(2, fork_add)!ready(forkAddOut)
    <3> DEFINE a == loop!readyOn("addr", addrRW)
               b == loop!joined(3)!ready(1, storeIn, ~written)
               c == loop!eagerFork(2, fork_add)!ready(forkAddOut)
    <3>1. forkIOut = loop!Triple(a, b, c)
          BY DEF forkIOut
    <3> HIDE DEF a, b, c
    <3>2. forkIOut[0] = a /\ forkIOut[1] = b /\ forkIOut[2] = c
          BY <3>1, ThreeWires
    <3> QED BY <3>2 DEF a, b, c
  <2> QED BY <2>1, <1>58, <1>57, <1>55
<1>60. iRW <=> iR
      BY <1>59, ThreeWayFork DEF iRW, iR
<1>61. loop!readyOn("phi_i", iRW) <=> toIR
      BY <1>60, ChannelWires DEF toIR
<1>62. cdRW <=> condR
      BY <1>18, <1>24 DEF cdRW, loop!phi_i!readyCondition, loop!phi_i!tehb1!ready, condR
<1>63. (forkC2Out[0] <=> acknowledged /\ toSyncR) /\ (forkC2Out[1] <=> TRUE)
  <2>1. /\ forkC2Out[0] = loop!joined(2)!ready(0, joinIn, loop!readyOn("sync", syncRW))
        /\ forkC2Out[1] = TRUE
    <3> DEFINE a == loop!joined(2)!ready(0, joinIn, loop!readyOn("sync", syncRW))
               b == TRUE
    <3>1. forkC2Out = loop!Pair(a, b)
          BY DEF forkC2Out
    <3> HIDE DEF a, b
    <3>2. forkC2Out[0] = a /\ forkC2Out[1] = b
          BY <3>1, TwoWires
    <3> QED BY <3>2 DEF a, b
  <2>2. loop!joined(2)!ready(0, joinIn, loop!readyOn("sync", syncRW))
          <=> joinIn[1] /\ loop!readyOn("sync", syncRW)
        BY JoinWires
  <2> QED BY <2>1, <2>2, <1>39, <1>47
<1>64. c2RW <=> c2R
      BY <1>63, TwoWayFork DEF c2RW, c2R
<1>65. (phiCOut[0] <=> toC2R) /\ (phiCOut[1] <=> toCondR)
  <2>1. /\ phiCOut[0] = loop!readyOn("phi_C", c2RW)
        /\ phiCOut[1] = loop!readyOn("cond", cdRW)
    <3> DEFINE a == loop!readyOn("phi_C", c2RW)
               b == loop!readyOn("cond", cdRW)
    <3>1. phiCOut = loop!Pair(a, b)
          BY DEF phiCOut
    <3> HIDE DEF a, b
    <3>2. phiCOut[0] = a /\ phiCOut[1] = b
          BY <3>1, TwoWires
    <3> QED BY <3>2 DEF a, b
  <2>2. loop!readyOn("phi_C", c2RW) <=> "phi_C" \in placed \/ c2RW
        BY ChannelWires
  <2>3. loop!readyOn("cond", cdRW) <=> "cond" \in placed \/ cdRW
        BY ChannelWires
  <2> QED BY <2>1, <2>2, <2>3, <1>64, <1>62 DEF toC2R, toCondR
<1>66. loop!phi_i!readyData(0, cdW, muxIn) <=> startIR
      BY <1>19, <1>22 DEF loop!phi_i!readyData, loop!phi_i!tehb1!ready, startIR
<1>67. loop!phi_i!readyData(1, cdW, muxIn) <=>
         ~tok("back_i") \/ (picksBack /\ ~phi_i_full)
      BY <1>20, <1>23 DEF loop!phi_i!readyData, loop!phi_i!tehb1!ready
<1>68. loop!phi_C!ready <=> ~phi_C_full
      BY DEF loop!phi_C!ready, loop!phi_C!oehb1!ready
<1>69. loop!branchReady(TRUE, branchI1Out) <=> startIR
  <2>1. /\ branchI1Out[0] = loop!phi_i!readyData(0, cdW, muxIn)
        /\ branchI1Out[1] = TRUE
    <3> DEFINE a == loop!phi_i!readyData(0, cdW, muxIn)
               b == TRUE
    <3>1. branchI1Out = loop!Pair(a, b)
          BY DEF branchI1Out
    <3> HIDE DEF a, b
    <3>2. branchI1Out[0] = a /\ branchI1Out[1] = b
          BY <3>1, TwoWires
    <3> QED BY <3>2 DEF a, b
  <2> QED BY <2>1, <1>66 DEF loop!branchReady
<1>70. loop!branchReady(TRUE, branchC1Out) <=> ~phi_C_full
  <2>1. /\ branchC1Out[0] = loop!phi_C!ready
        /\ branchC1Out[1] = TRUE
    <3> DEFINE a == loop!phi_C!ready
               b == TRUE
    <3>1. branchC1Out = loop!Pair(a, b)
          BY DEF branchC1Out
    <3> HIDE DEF a, b
    <3>2. branchC1Out[0] = a /\ branchC1Out[1] = b
          BY <3>1, TwoWires
    <3> QED BY <3>2 DEF a, b
  <2> QED BY <2>1, <1>68 DEF loop!branchReady
<1>71. /\ loop!branch_ready(0, TRUE, loop!branch_i1_in, branchI1Out) <=> datumC1R
       /\ loop!branch_ready(1, TRUE, loop!branch_i1_in, branchI1Out) <=> datumBr1R
  <2>1. /\ loop!branch_ready(0, TRUE, loop!branch_i1_in, branchI1Out)
             <=> loop!branch_i1_in[1] /\ loop!branchReady(TRUE, branchI1Out)
        /\ loop!branch_ready(1, TRUE, loop!branch_i1_in, branchI1Out)
             <=> loop!branch_i1_in[0] /\ loop!branchReady(TRUE, branchI1Out)
        BY BranchWires
  <2> QED BY <2>1, <1>8, <1>69 DEF datumC1R, datumBr1R
<1>72. /\ loop!branch_ready(0, TRUE, loop!branch_C1_in, branchC1Out) <=> controlC1R
       /\ loop!branch_ready(1, TRUE, loop!branch_C1_in, branchC1Out) <=> controlBr1R
  <2>1. /\ loop!branch_ready(0, TRUE, loop!branch_C1_in, branchC1Out)
             <=> loop!branch_C1_in[1] /\ loop!branchReady(TRUE, branchC1Out)
        /\ loop!branch_ready(1, TRUE, loop!branch_C1_in, branchC1Out)
             <=> loop!branch_C1_in[0] /\ loop!branchReady(TRUE, branchC1Out)
        BY BranchWires
  <2> QED BY <2>1, <1>7, <1>70 DEF controlC1R, controlBr1R
<1>73. (forkBr1Out[0] <=> datumBr1R) /\ (forkBr1Out[1] <=> controlBr1R)
  <2>1. /\ forkBr1Out[0] = loop!branch_ready(1, TRUE, loop!branch_i1_in, branchI1Out)
        /\ forkBr1Out[1] = loop!branch_ready(1, TRUE, loop!branch_C1_in, branchC1Out)
    <3> DEFINE a == loop!branch_ready(1, TRUE, loop!branch_i1_in, branchI1Out)
               b == loop!branch_ready(1, TRUE, loop!branch_C1_in, branchC1Out)
    <3>1. forkBr1Out = loop!Pair(a, b)
          BY DEF forkBr1Out
    <3> HIDE DEF a, b
    <3>2. forkBr1Out[0] = a /\ forkBr1Out[1] = b
          BY <3>1, TwoWires
    <3> QED BY <3>2 DEF a, b
  <2> QED BY <2>1, <1>71, <1>72
<1>74. loop!eagerFork(2, fork_br1)!ready(forkBr1Out) <=> br1R
      BY <1>73, TwoWayFork DEF br1R
<1>75. /\ forkC1Out[0] <=> datumC1R
       /\ forkC1Out[1] <=> br1R
       /\ forkC1Out[2] <=> controlC1R
  <2>1. /\ forkC1Out[0] = loop!branch_ready(0, TRUE, loop!branch_i1_in, branchI1Out)
        /\ forkC1Out[1] = loop!eagerFork(2, fork_br1)!ready(forkBr1Out)
        /\ forkC1Out[2] = loop!branch_ready(0, TRUE, loop!branch_C1_in, branchC1Out)
    <3> DEFINE a == loop!branch_ready(0, TRUE, loop!branch_i1_in, branchI1Out)
               b == loop!eagerFork(2, fork_br1)!ready(forkBr1Out)
               c == loop!branch_ready(0, TRUE, loop!branch_C1_in, branchC1Out)
    <3>1. forkC1Out = loop!Triple(a, b, c)
          BY DEF forkC1Out
    <3> HIDE DEF a, b, c
    <3>2. forkC1Out[0] = a /\ forkC1Out[1] = b /\ forkC1Out[2] = c
          BY <3>1, ThreeWires
    <3> QED BY <3>2 DEF a, b, c
  <2> QED BY <2>1, <1>71, <1>72, <1>74
<1>76. loop!eagerFork(3, fork_C1)!ready(forkC1Out) <=> C1R
      BY <1>75, ThreeWayFork DEF C1R
<1>77. storesW <=> stores
      BY <1>31, <1>32, JoinWires DEF storesW, stores, storeR
<1>78. ackedW <=> acks
  <2>1. loop!joined(2)!ready(1, joinIn, loop!readyOn("sync", syncRW))
          <=> joinIn[0] /\ loop!readyOn("sync", syncRW)
        BY JoinWires
  <2> QED BY <2>1, <1>39, <1>47 DEF ackedW, acks, syncedV
<1>79. loop!branch_valid(1, brDW, branchC) <=> leaves
      BY <1>41, <1>42, <1>43, BranchWires DEF leaves
<1>80. c3VW <=> leaves \/ phi_C3_full
      BY <1>79 DEF c3VW, loop!phi_C3!valid
<1>81. fork_C1Moves /\ fork_C1' \in [0 .. 2 -> BOOLEAN]
  <2> DEFINE v == loop!startBuff!valid
             r == loop!eagerFork(3, fork_C1)!ready(forkC1Out)
  <2>1. fork_C1' = [k \in 0 .. 2 |->
          loop!eagerFork(3, fork_C1)!reg_in(k, v, forkC1Out)]
        BY <1>1 DEF loop!eagerFork!Clock, loop!eagerFork!Outputs
  <2>2. \A k \in 0 .. 2 :
          /\ loop!eagerFork(3, fork_C1)!reg_in(k, v, forkC1Out) <=>
               (fork_C1[k] /\ ~forkC1Out[k]) \/ ~(v /\ ~r)
          /\ loop!eagerFork(3, fork_C1)!reg_in(k, v, forkC1Out) \in BOOLEAN
        BY ForkBlock
  <2>3. v <=> start_oehb
        BY DEF loop!startBuff!valid
  <2>4. r <=> C1R
        BY <1>76
  <2> HIDE DEF v, r
  <2>5. fork_C1' \in [0 .. 2 -> BOOLEAN]
        BY <2>1, <2>2
  <2>6. \A k \in 0 .. 2 : fork_C1'[k] <=> (fork_C1[k] /\ ~forkC1Out[k]) \/ ~(v /\ ~r)
        BY <2>1, <2>2
  <2> QED BY <2>3, <2>4, <2>5, <2>6, <1>75 DEF fork_C1Moves, Fork3Moves, waits
<1>82. fork_br1Moves /\ fork_br1' \in [0 .. 1 -> BOOLEAN]
  <2> DEFINE v == loop!eagerFork(3, fork_C1)!valid(1, loop!startBuff!valid)
             r == loop!eagerFork(2, fork_br1)!ready(forkBr1Out)
  <2>1. fork_br1' = [k \in 0 .. 1 |->
          loop!eagerFork(2, fork_br1)!reg_in(k, v, forkBr1Out)]
        BY <1>1 DEF loop!eagerFork!Clock, loop!eagerFork!Outputs
  <2>2. \A k \in 0 .. 1 :
          /\ loop!eagerFork(2, fork_br1)!reg_in(k, v, forkBr1Out) <=>
               (fork_br1[k] /\ ~forkBr1Out[k]) \/ ~(v /\ ~r)
          /\ loop!eagerFork(2, fork_br1)!reg_in(k, v, forkBr1Out) \in BOOLEAN
        BY ForkBlock
  <2>3. v <=> fork_C1[1] /\ start_oehb
        BY DEF loop!startBuff!valid, loop!eagerFork!valid
  <2>4. r <=> br1R
        BY <1>74
  <2> HIDE DEF v, r
  <2>5. fork_br1' \in [0 .. 1 -> BOOLEAN]
        BY <2>1, <2>2
  <2>6. \A k \in 0 .. 1 : fork_br1'[k] <=> (fork_br1[k] /\ ~forkBr1Out[k]) \/ ~(v /\ ~r)
        BY <2>1, <2>2
  <2> QED BY <2>3, <2>4, <2>5, <2>6, <1>73 DEF fork_br1Moves, Fork2Moves, waits
<1>83. fork_iMoves /\ fork_i' \in [0 .. 2 -> BOOLEAN]
  <2> DEFINE v == iVW
             r == loop!eagerFork(3, fork_i)!ready(forkIOut)
  <2>1. fork_i' = [k \in 0 .. 2 |->
          loop!eagerFork(3, fork_i)!reg_in(k, v, forkIOut)]
        BY <1>1 DEF loop!eagerFork!Clock, loop!eagerFork!Outputs
  <2>2. \A k \in 0 .. 2 :
          /\ loop!eagerFork(3, fork_i)!reg_in(k, v, forkIOut) <=>
               (fork_i[k] /\ ~forkIOut[k]) \/ ~(v /\ ~r)
          /\ loop!eagerFork(3, fork_i)!reg_in(k, v, forkIOut) \in BOOLEAN
        BY ForkBlock
  <2>3. v <=> iV
        BY <1>28
  <2>4. r <=> iR
        BY <1>60 DEF iRW
  <2> HIDE DEF v, r
  <2>5. fork_i' \in [0 .. 2 -> BOOLEAN]
        BY <2>1, <2>2
  <2>6. \A k \in 0 .. 2 : fork_i'[k] <=> (fork_i[k] /\ ~forkIOut[k]) \/ ~(v /\ ~r)
        BY <2>1, <2>2
  <2> QED BY <2>3, <2>4, <2>5, <2>6, <1>59 DEF fork_iMoves, Fork3Moves, waits
<1>84. fork_addMoves /\ fork_add' \in [0 .. 1 -> BOOLEAN]
  <2> DEFINE v == sumVW
             r == loop!eagerFork(2, fork_add)!ready(forkAddOut)
  <2>1. fork_add' = [k \in 0 .. 1 |->
          loop!eagerFork(2, fork_add)!reg_in(k, v, forkAddOut)]
        BY <1>1 DEF loop!eagerFork!Clock, loop!eagerFork!Outputs
  <2>2. \A k \in 0 .. 1 :
          /\ loop!eagerFork(2, fork_add)!reg_in(k, v, forkAddOut) <=>
               (fork_add[k] /\ ~forkAddOut[k]) \/ ~(v /\ ~r)
          /\ loop!eagerFork(2, fork_add)!reg_in(k, v, forkAddOut) \in BOOLEAN
        BY ForkBlock
  <2>3. v <=> sumV
        BY <1>30
  <2>4. r <=> sumR
        BY <1>55
  <2> HIDE DEF v, r
  <2>5. fork_add' \in [0 .. 1 -> BOOLEAN]
        BY <2>1, <2>2
  <2>6. \A k \in 0 .. 1 : fork_add'[k] <=> (fork_add[k] /\ ~forkAddOut[k]) \/ ~(v /\ ~r)
        BY <2>1, <2>2
  <2> QED BY <2>3, <2>4, <2>5, <2>6, <1>54 DEF fork_addMoves, Fork2Moves, waits
<1>85. fork_br2Moves /\ fork_br2' \in [0 .. 1 -> BOOLEAN]
  <2> DEFINE v == testVW
             r == loop!eagerFork(2, fork_br2)!ready(forkBr2Out)
  <2>1. fork_br2' = [k \in 0 .. 1 |->
          loop!eagerFork(2, fork_br2)!reg_in(k, v, forkBr2Out)]
        BY <1>1 DEF loop!eagerFork!Clock, loop!eagerFork!Outputs
  <2>2. \A k \in 0 .. 1 :
          /\ loop!eagerFork(2, fork_br2)!reg_in(k, v, forkBr2Out) <=>
               (fork_br2[k] /\ ~forkBr2Out[k]) \/ ~(v /\ ~r)
          /\ loop!eagerFork(2, fork_br2)!reg_in(k, v, forkBr2Out) \in BOOLEAN
        BY ForkBlock
  <2>3. v <=> testV
        BY <1>35
  <2>4. r <=> testR
        BY <1>53
  <2> HIDE DEF v, r
  <2>5. fork_br2' \in [0 .. 1 -> BOOLEAN]
        BY <2>1, <2>2
  <2>6. \A k \in 0 .. 1 : fork_br2'[k] <=> (fork_br2[k] /\ ~forkBr2Out[k]) \/ ~(v /\ ~r)
        BY <2>1, <2>2
  <2> QED BY <2>3, <2>4, <2>5, <2>6, <1>52 DEF fork_br2Moves, Fork2Moves, waits
<1>86. fork_C2Moves /\ fork_C2' \in [0 .. 1 -> BOOLEAN]
  <2> DEFINE v == c2W
             r == loop!eagerFork(2, fork_C2)!ready(forkC2Out)
  <2>1. fork_C2' = [k \in 0 .. 1 |->
          loop!eagerFork(2, fork_C2)!reg_in(k, v, forkC2Out)]
        BY <1>1 DEF loop!eagerFork!Clock, loop!eagerFork!Outputs
  <2>2. \A k \in 0 .. 1 :
          /\ loop!eagerFork(2, fork_C2)!reg_in(k, v, forkC2Out) <=>
               (fork_C2[k] /\ ~forkC2Out[k]) \/ ~(v /\ ~r)
          /\ loop!eagerFork(2, fork_C2)!reg_in(k, v, forkC2Out) \in BOOLEAN
        BY ForkBlock
  <2>3. v <=> c2V
        BY <1>15
  <2>4. r <=> c2R
        BY <1>64 DEF c2RW
  <2> HIDE DEF v, r
  <2>5. fork_C2' \in [0 .. 1 -> BOOLEAN]
        BY <2>1, <2>2
  <2>6. \A k \in 0 .. 1 : fork_C2'[k] <=> (fork_C2[k] /\ ~forkC2Out[k]) \/ ~(v /\ ~r)
        BY <2>1, <2>2
  <2> QED BY <2>3, <2>4, <2>5, <2>6, <1>63 DEF fork_C2Moves, Fork2Moves, waits
<1>87. loop!phi_C!fork_C1!ready(phiCOut) <=> phiCR
      BY <1>65 DEF loop!phi_C!fork_C1!ready, loop!phi_C!fork_C1!forkStop,
         loop!phi_C!fork_C1!block_stop, loop!phi_C!fork_C1!Outputs, phiCR
<1>88. phi_CMoves /\ phi_C_full' \in BOOLEAN
  <2> DEFINE r == loop!phi_C!fork_C1!ready(phiCOut)
  <2>1. /\ phi_C_full'
             = loop!phi_C!oehb1!full_next(loop!phi_C!phi_valid(loop!phi_C_in), r)
        /\ phi_C_index'
             = loop!phi_C!oehb1!data_next(loop!phi_C!phi_valid(loop!phi_C_in),
                                      loop!phi_C!index(loop!phi_C_in), r)
        BY <1>1 DEF loop!phi_C!Clock, loop!phi_C!oehb1!Clock
  <2>2. loop!phi_C!index(loop!phi_C_in) = IF startCV THEN 0 ELSE 1
        BY <1>9 DEF loop!phi_C!index
  <2>3. loop!phi_C!oehb1!full_next(loop!phi_C!phi_valid(loop!phi_C_in), r)
          <=> phiCV /\ ~phiCR
        BY <1>11, <1>87 DEF loop!phi_C!oehb1!full_next
  <2>4. loop!phi_C!oehb1!data_next(loop!phi_C!phi_valid(loop!phi_C_in),
                               loop!phi_C!index(loop!phi_C_in), r)
          = IF ~phi_C_full /\ phiCV /\ ~phiCR THEN phiCIndex ELSE phi_C_index
        BY <1>11, <2>2, <1>87 DEF loop!phi_C!oehb1!data_next, loop!phi_C!oehb1!reg_en,
           loop!phi_C!oehb1!ready, phiCV, phiCIndex
  <2>5. loop!phi_C!oehb1!full_next(loop!phi_C!phi_valid(loop!phi_C_in), r) \in BOOLEAN
        BY DEF loop!phi_C!oehb1!full_next
  <2> QED BY <2>1, <2>3, <2>4, <2>5 DEF phi_CMoves
<1>89. phi_CForkMoves /\ phi_C_fork' \in [0 .. 1 -> BOOLEAN]
  <2> DEFINE v == loop!phi_C!oehb1!valid(loop!phi_C!phi_valid(loop!phi_C_in))
  <2>1. phi_C_fork' = [k \in 0 .. 1 |-> loop!phi_C!fork_C1!reg_in(k, v, phiCOut)]
        BY <1>1 DEF loop!phi_C!Clock, loop!phi_C!fork_C1!Clock,
           loop!phi_C!fork_C1!Outputs
  <2>2. \A k \in 0 .. 1 :
          /\ loop!phi_C!fork_C1!reg_in(k, v, phiCOut) <=>
               (phi_C_fork[k] /\ ~phiCOut[k])
               \/ ~(v /\ ~loop!phi_C!fork_C1!ready(phiCOut))
          /\ loop!phi_C!fork_C1!reg_in(k, v, phiCOut) \in BOOLEAN
        BY DEF loop!phi_C!fork_C1!reg_in, loop!phi_C!fork_C1!block_stop,
           loop!phi_C!fork_C1!ready
  <2>3. v <=> phiCV
        BY <1>11
  <2> HIDE DEF v
  <2>5. phi_C_fork' \in [0 .. 1 -> BOOLEAN]
        BY <2>1, <2>2
  <2>6. \A k \in 0 .. 1 :
          phi_C_fork'[k] <=> (phi_C_fork[k] /\ ~phiCOut[k])
                             \/ ~(v /\ ~loop!phi_C!fork_C1!ready(phiCOut))
        BY <2>1, <2>2
  <2> QED BY <2>3, <2>5, <2>6, <1>65, <1>87 DEF phi_CForkMoves, Fork2Moves, waits
<1>90. phi_iMoves /\ phi_i_full' \in BOOLEAN
  <2> DEFINE r == loop!readyOn("phi_i", iRW)
             p == loop!phi_i!tmp_valid_out(cdW, muxIn)
             d == loop!phi_i!tmp_data_out(cdW, muxIn, muxData)
  <2>1. /\ phi_i_full' = loop!phi_i!tehb1!full_next(p, r)
        /\ phi_i_data' = loop!phi_i!tehb1!data_next(p, d, r)
        BY <1>1 DEF loop!phi_i!Clock, loop!phi_i!full_next, loop!phi_i!data_next
  <2>2. (p <=> picks) /\ (r <=> toIR) /\ d = IF picksBack THEN word("back_i") ELSE 0
        BY <1>24, <1>25, <1>61
  <2> HIDE DEF r, p, d
  <2>3. loop!phi_i!tehb1!full_next(p, r) <=> (phi_i_full \/ picks) /\ ~toIR
        BY <2>2 DEF loop!phi_i!tehb1!full_next, loop!phi_i!tehb1!valid
  <2>4. loop!phi_i!tehb1!full_next(p, r) \in BOOLEAN
        BY DEF loop!phi_i!tehb1!full_next
  <2>5. loop!phi_i!tehb1!data_next(p, d, r)
          = IF ~phi_i_full /\ picks /\ ~toIR THEN phiIW ELSE phi_i_data
        BY <2>2 DEF loop!phi_i!tehb1!data_next, loop!phi_i!tehb1!reg_en,
           loop!phi_i!tehb1!ready, phiIW
  <2> QED BY <2>1, <2>3, <2>4, <2>5 DEF phi_iMoves
<1>91. /\ StartMoves(pStart)
       /\ start_internal' \in BOOLEAN /\ set' \in BOOLEAN
       /\ start_tehb' \in BOOLEAN /\ start_oehb' \in BOOLEAN
  <2> DEFINE r == loop!eagerFork(3, fork_C1)!ready(forkC1Out)
  <2>1. /\ start_internal' = (pStart /\ ~set) /\ set' = (set \/ pStart)
        /\ loop!startBuff!Clock(start_internal, 0, r)
        BY <1>1 DEF loop!start_Clock, loop!starts
  <2>2. r <=> C1R
        BY <1>76
  <2> HIDE DEF r
  <2>3. /\ start_tehb'
             = loop!startBuff!tehb1!full_next(
                 start_internal, loop!startBuff!oehb1!ready(r))
        /\ start_oehb'
             = loop!startBuff!oehb1!valid_next(
                 loop!startBuff!tehb1!valid(start_internal), r)
        BY <2>1 DEF loop!startBuff!Clock, loop!startBuff!tehb1!Clock,
           loop!startBuff!oehb1!Clock
  <2>4. ~start_tehb
        BY DEF Shallow
  <2>5. /\ start_tehb' <=> start_internal /\ start_oehb /\ ~C1R
        /\ start_oehb' <=> start_internal \/ (start_oehb /\ ~C1R)
        /\ start_tehb' \in BOOLEAN /\ start_oehb' \in BOOLEAN
        BY <2>2, <2>3, <2>4 DEF loop!startBuff!tehb1!full_next,
           loop!startBuff!tehb1!valid, loop!startBuff!oehb1!ready,
           loop!startBuff!oehb1!valid_next
  <2> QED BY <2>1, <2>5 DEF StartMoves
<1>92. /\ StoreMoves(answer)
       /\ triggered' \in BOOLEAN /\ written' \in BOOLEAN /\ acknowledged' \in BOOLEAN
  <2>1. loop!eagerFork(2, fork_C2)!valid(1, c2W) <=> fork_C2[1] /\ c2V
        BY <1>15 DEF loop!eagerFork!valid
  <2> QED BY <1>2, <2>1, <1>29, <1>33, <1>77, <1>78 DEF StoreMoves
<1>93. /\ ExitMoves(accept)
       /\ phi_C3_full' \in BOOLEAN /\ ret_full' \in BOOLEAN
  <2>1. loop!phi_C3!full_next(loop!branch_valid(1, brDW, branchC), loop!ret!ready)
          <=> (leaves \/ phi_C3_full) /\ ret_full
        BY <1>79 DEF loop!phi_C3!full_next, loop!phi_C3!valid, loop!ret!ready
  <2>2. loop!ret!full_next(c3VW, accept)
          <=> (leaves \/ phi_C3_full \/ ret_full) /\ ~accept
        BY <1>80 DEF loop!ret!full_next, loop!ret!valid
  <2>3. loop!ret!valid(c3VW) <=> leaves \/ phi_C3_full \/ ret_full
        BY <1>80 DEF loop!ret!valid
  <2>4. /\ loop!phi_C3!full_next(loop!branch_valid(1, brDW, branchC), loop!ret!ready)
             \in BOOLEAN
        /\ loop!ret!full_next(c3VW, accept) \in BOOLEAN
        BY DEF loop!phi_C3!full_next, loop!ret!full_next
  <2> QED BY <1>2, <2>1, <2>2, <2>3, <2>4 DEF ExitMoves
<1>94. loop!branch_valid(0, brDW, branchC) <=> syncV /\ brV /\ brW
      BY <1>41, <1>42, <1>43, BranchWires
<1>95. loop!branch_valid(0, testDW, branchI) <=> i_brV /\ againV /\ testW
      BY <1>34, <1>37, <1>38, BranchWires
<1>96. loop!dataOn("i_br", iDW + 1) = i_brW
      BY <1>29, ChannelWires DEF i_brW
<1>97. \A c \in placed : buffers'[c][1] \in BOOLEAN /\ buffers'[c][3] \in BOOLEAN
  <2>1. placed \subseteq loop!Channels /\ placed' = placed
        BY <1>2 DEF LoopTypes
  <2>2. "phi_C" \in placed =>
          buffers'["phi_C"][1] \in BOOLEAN /\ buffers'["phi_C"][3] \in BOOLEAN
        BY <2>1, <1>3, BufferAfter
  <2>3. "cond" \in placed =>
          buffers'["cond"][1] \in BOOLEAN /\ buffers'["cond"][3] \in BOOLEAN
        BY <2>1, <1>3, BufferAfter
  <2>4. "phi_i" \in placed =>
          buffers'["phi_i"][1] \in BOOLEAN /\ buffers'["phi_i"][3] \in BOOLEAN
        BY <2>1, <1>3, BufferAfter
  <2>5. "addr" \in placed =>
          buffers'["addr"][1] \in BOOLEAN /\ buffers'["addr"][3] \in BOOLEAN
        BY <2>1, <1>3, BufferAfter
  <2>6. "i_br" \in placed =>
          buffers'["i_br"][1] \in BOOLEAN /\ buffers'["i_br"][3] \in BOOLEAN
        BY <2>1, <1>3, BufferAfter
  <2>7. "br" \in placed =>
          buffers'["br"][1] \in BOOLEAN /\ buffers'["br"][3] \in BOOLEAN
        BY <2>1, <1>3, BufferAfter
  <2>8. "sync" \in placed =>
          buffers'["sync"][1] \in BOOLEAN /\ buffers'["sync"][3] \in BOOLEAN
        BY <2>1, <1>3, BufferAfter
  <2>9. "back_C" \in placed =>
          buffers'["back_C"][1] \in BOOLEAN /\ buffers'["back_C"][3] \in BOOLEAN
        BY <2>1, <1>3, BufferAfter
  <2>10. "back_i" \in placed =>
          buffers'["back_i"][1] \in BOOLEAN /\ buffers'["back_i"][3] \in BOOLEAN
        BY <2>1, <1>3, BufferAfter
  <2> QED BY <2>1, <2>2, <2>3, <2>4, <2>5, <2>6, <2>7, <2>8, <2>9, <2>10
      DEF loop!Channels, loop!Optional, loop!Backedges
<1>98. toC2Moves
  <2> DEFINE v == loop!phi_C!valid(0, loop!phi_C_in)
             w == 0
             r == c2RW
  <2>1. SUFFICES ASSUME "phi_C" \in placed
                 PROVE  /\ late("phi_C")' <=> v /\ tok("phi_C") /\ ~r
                        /\ tok("phi_C")' <=> v \/ (tok("phi_C") /\ ~r)
                        /\ word("phi_C")' = IF v /\ (~tok("phi_C") \/ r)
                                          THEN w ELSE word("phi_C")
        BY <1>12, <1>64 DEF toC2Moves, BufferMoves
  <2>2. placed' = placed /\ buffers'["phi_C"] = loop!buffer_next("phi_C", v, w, r)
        BY <1>2, <1>3
  <2> HIDE DEF v, w, r
  <2> QED BY <2>1, <2>2, BufferAfter
<1>99. condMoves
  <2> DEFINE v == loop!phi_C!valid(1, loop!phi_C_in)
             w == loop!phi_C!condition(loop!phi_C_in)
             r == cdRW
  <2>1. SUFFICES ASSUME "cond" \in placed
                 PROVE  /\ late("cond")' <=> v /\ tok("cond") /\ ~r
                        /\ tok("cond")' <=> v \/ (tok("cond") /\ ~r)
                        /\ word("cond")' = IF v /\ (~tok("cond") \/ r)
                                          THEN w ELSE word("cond")
        BY <1>13, <1>14, <1>62 DEF condMoves, BufferMoves
  <2>2. placed' = placed /\ buffers'["cond"] = loop!buffer_next("cond", v, w, r)
        BY <1>2, <1>3
  <2> HIDE DEF v, w, r
  <2> QED BY <2>1, <2>2, BufferAfter
<1>100. toIMoves
  <2> DEFINE v == loop!phi_i!valid(cdW, muxIn)
             w == loop!phi_i!dataOut(cdW, muxIn, muxData)
             r == iRW
  <2>1. SUFFICES ASSUME "phi_i" \in placed
                 PROVE  /\ late("phi_i")' <=> v /\ tok("phi_i") /\ ~r
                        /\ tok("phi_i")' <=> v \/ (tok("phi_i") /\ ~r)
                        /\ word("phi_i")' = IF v /\ (~tok("phi_i") \/ r)
                                          THEN w ELSE word("phi_i")
        BY <1>26, <1>27, <1>60 DEF toIMoves, BufferMoves
  <2>2. placed' = placed /\ buffers'["phi_i"] = loop!buffer_next("phi_i", v, w, r)
        BY <1>2, <1>3
  <2> HIDE DEF v, w, r
  <2> QED BY <2>1, <2>2, BufferAfter
<1>101. addrMoves
  <2> DEFINE v == loop!eagerFork(3, fork_i)!valid(0, iVW)
             w == iDW
             r == addrRW
  <2>1. SUFFICES ASSUME "addr" \in placed
                 PROVE  /\ late("addr")' <=> v /\ tok("addr") /\ ~r
                        /\ tok("addr")' <=> v \/ (tok("addr") /\ ~r)
                        /\ word("addr")' = IF v /\ (~tok("addr") \/ r)
                                          THEN w ELSE word("addr")
        BY <1>29, <1>30, <1>56 DEF addrMoves, BufferMoves
  <2>2. placed' = placed /\ buffers'["addr"] = loop!buffer_next("addr", v, w, r)
        BY <1>2, <1>3
  <2> HIDE DEF v, w, r
  <2> QED BY <2>1, <2>2, BufferAfter
<1>102. i_brMoves
  <2> DEFINE v == loop!eagerFork(2, fork_add)!valid(1, sumVW)
             w == iDW + 1
             r == i_brRW
  <2>1. SUFFICES ASSUME "i_br" \in placed
                 PROVE  /\ late("i_br")' <=> v /\ tok("i_br") /\ ~r
                        /\ tok("i_br")' <=> v \/ (tok("i_br") /\ ~r)
                        /\ word("i_br")' = IF v /\ (~tok("i_br") \/ r)
                                          THEN w ELSE word("i_br")
        BY <1>29, <1>35, <1>50 DEF i_brMoves, BufferMoves
  <2>2. placed' = placed /\ buffers'["i_br"] = loop!buffer_next("i_br", v, w, r)
        BY <1>2, <1>3
  <2> HIDE DEF v, w, r
  <2> QED BY <2>1, <2>2, BufferAfter
<1>103. brMoves
  <2> DEFINE v == loop!eagerFork(2, fork_br2)!valid(1, testVW)
             w == testDW
             r == brRW
  <2>1. SUFFICES ASSUME "br" \in placed
                 PROVE  /\ late("br")' <=> v /\ tok("br") /\ ~r
                        /\ tok("br")' <=> v \/ (tok("br") /\ ~r)
                        /\ word("br")' = IF v /\ (~tok("br") \/ r)
                                          THEN w ELSE word("br")
        BY <1>34, <1>36, <1>46 DEF brMoves, BufferMoves
  <2>2. placed' = placed /\ buffers'["br"] = loop!buffer_next("br", v, w, r)
        BY <1>2, <1>3
  <2> HIDE DEF v, w, r
  <2> QED BY <2>1, <2>2, BufferAfter
<1>104. syncMoves
  <2> DEFINE v == syncW
             w == 0
             r == syncRW
  <2>1. SUFFICES ASSUME "sync" \in placed
                 PROVE  /\ late("sync")' <=> v /\ tok("sync") /\ ~r
                        /\ tok("sync")' <=> v \/ (tok("sync") /\ ~r)
                        /\ word("sync")' = IF v /\ (~tok("sync") \/ r)
                                          THEN w ELSE word("sync")
        BY <1>40, <1>45 DEF syncMoves, BufferMoves
  <2>2. placed' = placed /\ buffers'["sync"] = loop!buffer_next("sync", v, w, r)
        BY <1>2, <1>3
  <2> HIDE DEF v, w, r
  <2> QED BY <2>1, <2>2, BufferAfter
<1>105. back_CMoves
  <2> DEFINE v == loop!branch_valid(0, brDW, branchC)
             w == 0
             r == loop!phi_C!ready
  <2>1. SUFFICES ASSUME "back_C" \in placed
                 PROVE  /\ late("back_C")' <=> v /\ tok("back_C") /\ ~r
                        /\ tok("back_C")' <=> v \/ (tok("back_C") /\ ~r)
                        /\ word("back_C")' = IF v /\ (~tok("back_C") \/ r)
                                          THEN w ELSE word("back_C")
        BY <1>94, <1>68 DEF back_CMoves, BufferMoves
  <2>2. placed' = placed /\ buffers'["back_C"] = loop!buffer_next("back_C", v, w, r)
        BY <1>2, <1>3
  <2> HIDE DEF v, w, r
  <2> QED BY <2>1, <2>2, BufferAfter
<1>106. back_iMoves
  <2> DEFINE v == loop!branch_valid(0, testDW, branchI)
             w == loop!dataOn("i_br", iDW + 1)
             r == loop!phi_i!readyData(1, cdW, muxIn)
  <2>1. SUFFICES ASSUME "back_i" \in placed
                 PROVE  /\ late("back_i")' <=> v /\ tok("back_i") /\ ~r
                        /\ tok("back_i")' <=> v \/ (tok("back_i") /\ ~r)
                        /\ word("back_i")' = IF v /\ (~tok("back_i") \/ r)
                                          THEN w ELSE word("back_i")
        BY <1>95, <1>96, <1>67 DEF back_iMoves, BufferMoves
  <2>2. placed' = placed /\ buffers'["back_i"] = loop!buffer_next("back_i", v, w, r)
        BY <1>2, <1>3
  <2> HIDE DEF v, w, r
  <2> QED BY <2>1, <2>2, BufferAfter
<1>107. LoopRegisters'
      BY <1>2, <1>81, <1>82, <1>83, <1>84, <1>85, <1>86, <1>88, <1>89, <1>90, <1>91,
         <1>92, <1>93, <1>97 DEF LoopRegisters
<1>108. BuffersMove
      BY <1>98, <1>99, <1>100, <1>101, <1>102, <1>103, <1>104, <1>105, <1>106 DEF
         BuffersMove
<1>109. ForksMove
      BY <1>81, <1>82, <1>83, <1>84, <1>85, <1>86, <1>89 DEF ForksMove
<1> QED BY <1>2, <1>107, <1>108, <1>109, <1>91, <1>88, <1>90, <1>92, <1>93 DEF LoopMoves

\* After reset no token is in the circuit, and every count is zero.
LEMMA LoopInitInv == loop!Init => LoopInv
<1> SUFFICES ASSUME loop!Init PROVE LoopInv
    OBVIOUS
<1>1. loop!CircuitAssumption
      BY BenchAssumption
<1>2. /\ fork_C1 = [k \in 0 .. 2 |-> TRUE] /\ fork_i = [k \in 0 .. 2 |-> TRUE]
      /\ fork_br1 = [k \in 0 .. 1 |-> TRUE] /\ fork_add = [k \in 0 .. 1 |-> TRUE]
      /\ fork_br2 = [k \in 0 .. 1 |-> TRUE] /\ fork_C2 = [k \in 0 .. 1 |-> TRUE]
      BY DEF loop!Init, loop!Triple, loop!Pair
<1>3. phi_C_fork = [k \in 0 .. 1 |-> TRUE] /\ ~phi_C_full /\ ~phi_i_full
      /\ phi_C_full = FALSE /\ phi_i_full = FALSE
      BY DEF loop!Init, loop!phi_C!Reset, loop!phi_C!oehb1!Reset,
         loop!phi_C!fork_C1!Reset, loop!phi_C!fork_C1!Outputs, loop!phi_i!Reset,
         loop!phi_i!tehb1!Reset
<1>4. /\ placed \subseteq loop!Channels /\ loop!Backedges \subseteq placed
      /\ limit \in Nat \ {0}
      BY <1>1 DEF loop!Init, loop!CircuitAssumption, loop!Channels, loop!Optional
<1>5. /\ \A c \in loop!Channels : buffers[c][1] = FALSE /\ buffers[c][3] = FALSE
      /\ "br" \in loop!Channels => buffers["br"][4] = FALSE
      BY DEF loop!Init
<1>6. /\ set = FALSE /\ start_internal = FALSE
      /\ start_tehb = FALSE /\ start_oehb = FALSE
      /\ phi_C3_full = FALSE /\ ret_full = FALSE
      /\ triggered = FALSE /\ written = FALSE /\ acknowledged = FALSE
      /\ memory = <<>> /\ exits = 0
      BY DEF loop!Init
<1>7. LoopTypes
      BY <1>2, <1>3, <1>4, <1>5, <1>6 DEF LoopTypes, LoopRegisters, word
<1>8. \A c \in placed : ~buffers[c][1] /\ ~buffers[c][3]
  <2> TAKE c \in placed
  <2>1. c \in loop!Channels
        BY <1>4
  <2> QED BY <2>1, <1>5
<1>9. Shallow /\ \A c : ~tok(c)
      BY <1>6, <1>8 DEF Shallow, late, tok
<1>10. /\ stored = 0 /\ iTaken = 0 /\ sumTaken = 0 /\ testTaken = 0 /\ stepTaken = 0
       /\ condTaken = 0 /\ acked = 0 /\ c2Taken = 0 /\ syncTaken = 0 /\ phiTaken = 0
       /\ entries = 0 /\ startTaken = 0 /\ startedC = 0 /\ startedI = 0 /\ startedB = 0
       /\ left = 0
      BY <1>2, <1>3, <1>6, <1>9 DEF bit, stored, iTaken, sumTaken, testTaken, stepTaken,
         condTaken, acked, c2Taken, syncTaken, phiTaken, entries, startTaken, startedC,
         startedI, startedB, left
<1>11. Offered /\ Waiting
      BY <1>2, <1>3, <1>6 DEF Offered, EntryOffered, ControlOffered, DatumOffered,
         SumOffered, TestOffered, StartOffered, AckOffered, Waiting
<1>12. Balanced
      BY <1>2, <1>3, <1>4, <1>6, <1>9, <1>10 DEF Balanced, AddrBalance, StepBalance,
         TestBalance, TriggerBalance, EntryBalance, ControlBalance, DataBalance,
         StartBalance, bit
<1>13. Limits
      BY <1>4, <1>6, <1>10 DEF Limits, StartsOnce, Entered, Bounded, LeftLast, bit
<1>14. Numbered
      BY <1>3, <1>6, <1>9 DEF Numbered, EntryWord, CondWord, MuxWord, DatumWord,
         AddrWord, StepWord, TestWord, BackWord, StoredWords
<1> QED BY <1>7, <1>9, <1>11, <1>12, <1>13, <1>14 DEF LoopInv

\* No cycle of the clock breaks the invariant.
LEMMA LoopNextInv == LoopInv /\ [loop!Next]_(loop!vars) => LoopInv'
<1> SUFFICES ASSUME LoopInv, [loop!Next]_(loop!vars) PROVE LoopInv'
    OBVIOUS
<1>1. CASE UNCHANGED loop!vars
  <2> USE <1>1 DEF loop!vars, loop!wires
  <2>1. /\ stored' = stored /\ iTaken' = iTaken /\ sumTaken' = sumTaken
        /\ testTaken' = testTaken /\ stepTaken' = stepTaken /\ condTaken' = condTaken
        /\ acked' = acked /\ c2Taken' = c2Taken /\ syncTaken' = syncTaken
        /\ phiTaken' = phiTaken /\ entries' = entries /\ startTaken' = startTaken
        /\ startedC' = startedC /\ startedI' = startedI /\ startedB' = startedB
        /\ left' = left
        BY DEF bit, tok, stored, iTaken, sumTaken, testTaken, stepTaken, condTaken,
           acked, c2Taken, syncTaken, phiTaken, entries, startTaken, startedC,
           startedI, startedB, left
  <2>2. LoopTypes' /\ Shallow'
        BY DEF LoopInv, LoopTypes, LoopRegisters, Shallow, late, word
  <2>3. Offered' /\ Waiting'
        BY DEF LoopInv, Offered, EntryOffered, ControlOffered, DatumOffered, SumOffered,
           TestOffered, StartOffered, AckOffered, Waiting, datumHeld, tok
  <2>4. Balanced'
        BY <2>1 DEF LoopInv, Balanced, AddrBalance, StepBalance, TestBalance,
           TriggerBalance, EntryBalance, ControlBalance, DataBalance, StartBalance,
           bit, tok
  <2>5. Limits'
        BY <2>1 DEF LoopInv, Limits, StartsOnce, Entered, Bounded, LeftLast, bit
  <2>6. Numbered'
        BY <2>1 DEF LoopInv, Numbered, EntryWord, CondWord, MuxWord, DatumWord,
           AddrWord, StepWord, TestWord, BackWord, StoredWords, tok, word
  <2> QED BY <2>2, <2>3, <2>4, <2>5, <2>6 DEF LoopInv
<1>2. ASSUME NEW pStart \in BOOLEAN, NEW accept \in BOOLEAN, NEW answer \in BOOLEAN,
             loop!Cycle(pStart, accept, answer)
      PROVE  LoopInv'
  <2>1. Room
        BY RoomFollows
  <2>2. LoopMoves(pStart, accept, answer)
        BY <1>2, CycleMoves DEF LoopInv
  <2>3. Advances
        BY <2>1, <2>2, CountsAdvance
  <2> QED BY <2>1, <2>2, <2>3, LoopInvKept
<1> QED BY <1>1, <1>2 DEF loop!Next

\* What the invariant says of the stores and of the return.
LEMMA LoopInvSafe == LoopInv => StoresInProgramOrder /\ ExitsOnceAndLast
<1> SUFFICES ASSUME LoopInv PROVE StoresInProgramOrder /\ ExitsOnceAndLast
    OBVIOUS
<1>1. stored \in Nat /\ exits \in Nat /\ limit \in Nat \ {0}
      BY LenProperties DEF LoopInv, LoopTypes, stored
<1>2. LoopRegisters /\ Room
      BY RoomFollows DEF LoopInv, LoopTypes
<1>3. \A c : tok(c) => c \in placed
      BY DEF tok
<1>4. /\ iTaken \in Int /\ sumTaken \in Int /\ testTaken \in Int /\ stepTaken \in Int
      /\ condTaken \in Int /\ acked \in Int /\ c2Taken \in Int /\ syncTaken \in Int
      /\ phiTaken \in Int /\ entries \in Int /\ startTaken \in Int /\ startedC \in Int
      /\ startedI \in Int /\ startedB \in Int /\ left \in Int
      BY <1>1, SMT DEF bit, iTaken, sumTaken, testTaken, stepTaken, condTaken, acked,
         c2Taken, syncTaken, phiTaken, entries, startTaken, startedC, startedI,
         startedB, left
<1>5. stored <= limit
      BY <1>1, <1>2, <1>4, SMTT(30) DEF LoopInv, Offered, EntryOffered, ControlOffered,
         StartOffered, Balanced, TriggerBalance, ControlBalance, StartBalance, Limits,
         Bounded, LeftLast, bit, phiTaken, entries, startTaken, startedB, LoopRegisters
<1>6. exits <= 1
      BY <1>1, <1>2 DEF LoopInv, Limits, LeftLast, left, bit, LoopRegisters
<1>7. exits = 1 => stored = limit
      BY <1>1, <1>2, <1>4, SMTT(30) DEF LoopInv, Offered, EntryOffered, ControlOffered,
         StartOffered, Balanced, TriggerBalance, ControlBalance, StartBalance, Limits,
         LeftLast, bit, acked, syncTaken, phiTaken, entries, startTaken, startedB, left,
         LoopRegisters
<1>8. StoredWords
      BY DEF LoopInv, Numbered
<1> QED BY <1>5, <1>6, <1>7, <1>8 DEF StoresInProgramOrder, ExitsOnceAndLast,
   loop!StoresInProgramOrder, loop!ExitsOnceAndLast, StoredWords, stored

\* The circuit of the loop keeps its invariant in the bench.
LEMMA BenchLoopInv == BenchSpec => []LoopInv
<1>1. BenchInit => LoopInv
      BY LoopInitInv DEF BenchInit
<1>2. LoopInv /\ [BenchNext]_benchVars => LoopInv'
  <2> SUFFICES ASSUME LoopInv, [BenchNext]_benchVars PROVE [loop!Next]_(loop!vars)
      BY LoopNextInv
  <2>1. UNCHANGED loopVars => UNCHANGED loop!vars
        BY DEF loopVars, loop!vars, loop!wires
  <2>2. CASE UNCHANGED benchVars
        BY <2>1, <2>2 DEF benchVars
  <2>3. CASE BenchNext
        BY <2>1, <2>3 DEF BenchNext, OnlyFork, OnlyEntry, OnlyLoop
  <2> QED BY <2>2, <2>3
<1> QED BY <1>1, <1>2, PTL DEF BenchSpec

\* For every set of buffered channels and every number of iterations: the circuit
\* stores what the program stores, in program order, and no more.
THEOREM LoopStoresInProgramOrder == BenchSpec => []StoresInProgramOrder
<1>1. LoopInv => StoresInProgramOrder
      BY LoopInvSafe
<1> QED BY <1>1, BenchLoopInv, PTL

\* For every set of buffered channels and every number of iterations: the caller
\* gets one return, and not before the last store is in the memory.
THEOREM LoopExitsOnceAndLast == BenchSpec => []ExitsOnceAndLast
<1>1. LoopInv => ExitsOnceAndLast
      BY LoopInvSafe
<1> QED BY <1>1, BenchLoopInv, PTL
==============================================================================
