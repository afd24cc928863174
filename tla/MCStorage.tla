------------------------------- MODULE MCStorage -------------------------------
(***************************************************************************)
(* What keeps words: the entities that buffer a channel, and both sides of  *)
(* the memory controller.  One of them, dut, runs; the others stay in an    *)
(* initial state.                                                           *)
(*                                                                          *)
(* The buffers are side by side with the same wires at their inputs:        *)
(* elasticBuffer; nontranspFifo, a ring behind a TEHB; and transpFIFO, a    *)
(* ring with a bypass.  The ring of the second is the elasticFifoInner      *)
(* extended here, observed at its own ports as well.                        *)
(***************************************************************************)
EXTENDS elasticFifoInner

CONSTANTS LOAD_COUNT, MaxLoads, STORE_COUNT, BB_COUNT, COUNTER_MOD, MaxRuns

VARIABLES
  dut,
  eFull, eWaiting, eValid, eData, eEdge,          \* elasticBuffer
  tehb_full, tehb_data, nEdge,                    \* nontranspFifo
  tMemory, tHead, tTail, tFull, tEmpty, tEdge,    \* transpFIFO
  addr_full, addr_data, data_full, data_data, answer_valid, sel_prev, out_reg,
  read_data, asked, answered,                               \* MemContLoads
  plan, announced, issued, counter, counter1, exited        \* MemCont

allVars == <<vars, eFull, eWaiting, eValid, eData, eEdge, tehb_full, tehb_data, nEdge,
             tMemory, tHead, tTail, tFull, tEmpty, tEdge>>

eBuf == INSTANCE elasticBuffer WITH
  tehb_full <- eFull, tehb_data <- eWaiting, oehb_valid <- eValid,
  oehb_data <- eData, edge <- eEdge
nFifo == INSTANCE nontranspFifo WITH edge <- nEdge
tFifo == INSTANCE transpFIFO WITH
  Memory <- tMemory, Head_ <- tHead, Tail_ <- tTail, Full <- tFull,
  Empty <- tEmpty, edge <- tEdge

AllInit == Init /\ eBuf!Init /\ nFifo!Init /\ tFifo!Init

AllCycle(pValid, dataIn, nReady) ==
  /\ Cycle(nFifo!tehb!valid(pValid), nFifo!tehb!dataOut(dataIn), nReady)
  /\ eBuf!Cycle(pValid, dataIn, nReady)
  /\ nFifo!Cycle(pValid, dataIn, nReady)
  /\ tFifo!Cycle(pValid, dataIn, nReady)

AllNext == \E pValid, nReady \in BOOLEAN, dataIn \in Data :
             AllCycle(pValid, dataIn, nReady)

\* The clock runs and the consumers are ready again and again.
ConsumerReady == \E pValid \in BOOLEAN, dataIn \in Data :
                   AllCycle(pValid, dataIn, TRUE)
------------------------------------------------------------------------------
\* Block 0 stores once through each port, block 1 twice through port 0.
MCStores == [b \in 0 .. 1 |-> [p \in 0 .. 1 |->
              IF b = 0 THEN 1 ELSE IF p = 0 THEN 2 ELSE 0]]

loads == INSTANCE MemContLoads WITH valid <- answer_valid
stores == INSTANCE MemCont WITH Stores <- MCStores

ASSUME BenchAssumption ==
  loads!LoadsAssumption /\ stores!StoresAssumption /\ stores!FitAssumption

loadVars == <<addr_full, addr_data, data_full, data_data, answer_valid, sel_prev,
              out_reg, read_data, asked, answered>>
storeVars == <<plan, announced, issued, counter, counter1, exited>>
benchVars == <<dut, allVars, loadVars, storeVars>>

BenchInit ==
  /\ dut \in {"buffers", "MemContLoads", "MemCont"}
  /\ AllInit /\ loads!Init /\ stores!Init
  /\ dut # "buffers" =>
       \A slot \in DOMAIN Memory : Memory[slot] = Zero /\ tMemory[slot] = Zero
  /\ dut # "MemCont" => counter1 = 0 /\ \A b \in DOMAIN plan : plan[b] = 1

OnlyBuffers == dut = "buffers" /\ UNCHANGED <<dut, loadVars, storeVars>>
OnlyLoads   == dut = "MemContLoads" /\ UNCHANGED <<dut, allVars, storeVars>>
OnlyStores  == dut = "MemCont" /\ UNCHANGED <<dut, allVars, loadVars>>

BenchNext ==
  \/ OnlyBuffers /\ AllNext
  \/ OnlyLoads /\ loads!Next
  \/ OnlyStores /\ stores!Next

\* The fairness of each component, while it is the one that runs.
BenchSpec ==
  /\ BenchInit /\ [][BenchNext]_benchVars
  /\ WF_benchVars(OnlyBuffers /\ ConsumerReady)
  /\ \A p \in 0 .. LOAD_COUNT - 1 :
       /\ WF_benchVars(OnlyLoads /\ loads!Accepts(p))
       /\ WF_benchVars(OnlyLoads /\ loads!Asks(p))
  /\ WF_benchVars(OnlyStores /\ stores!Next)

------------------------------------------------------------------------------
\* elasticBuffer is an opaque queue of two tokens.
IsElasticQueue == eBuf!IsElasticQueue

\* nontranspFifo is an opaque queue one token deeper than its ring; transpFIFO is
\* a transparent queue: a token that passes the ring is not stored as well, and
\* overtakes none that is stored.
FIFOsAreQueues == nFifo!IsStreamBuffer /\ tFifo!IsStreamBuffer

\* A token nontranspFifo accepts reaches the consumer.
EventuallyDelivered == nFifo!EventuallyDelivered

\* Every port gets the words of its own addresses, in the order it asked:
\* the shared RAM output never reaches the wrong port, and an answer refused
\* by the circuit is neither overwritten by a later one nor repeated.
AnswersInOrder == loads!AnswersInOrder

\* The circuit exits only when the program's last store is in the memory,
\* although stores of a block may overtake its announcement and the return
\* token may come with the last announcement.
ExitAfterLastStore == stores!ExitAfterLastStore

\* The memory controller does not keep the circuit waiting: every load port
\* gets all its answers, although lower ports go first, and a circuit that
\* stores exits, although stores may precede their announcement.
EventuallyFinished ==
  <>(CASE dut = "MemContLoads" -> loads!Answered
       [] dut = "MemCont" -> exited
       [] OTHER -> TRUE)
================================================================================
