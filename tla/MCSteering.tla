------------------------------ MODULE MCSteering ------------------------------
(***************************************************************************)
(* How tokens are steered: the fork alone, the entry of a basic block with  *)
(* its cntrlMerge and muxes, and the whole circuit of a loop.  One of them, *)
(* dut, runs; the others stay in an initial state.                          *)
(***************************************************************************)
EXTENDS fork

CONSTANTS LIVE_INS, MaxTokens, MaxLimit, Places

VARIABLES
  dut,
  cm_full, cm_index, cm_fork, cond_fork, mux_full, mux_data,
  order, entered, taken, passed,                             \* BlockEntry
  placed, limit, set, start_internal, start_tehb, start_oehb, fork_C1, fork_br1,
  phi_C_full, phi_C_index, phi_C_fork, phi_i_full, phi_i_data,
  fork_i, fork_add, fork_br2, fork_C2, phi_C3_full, ret_full, buffers,
  triggered, written, acknowledged, memory, exits            \* LoopCircuit

entry == INSTANCE BlockEntry
loop == INSTANCE LoopCircuit

ASSUME BenchAssumption == entry!EntryAssumption /\ loop!CircuitAssumption

entryVars == <<cm_full, cm_index, cm_fork, cond_fork, mux_full, mux_data,
               order, entered, taken, passed>>
loopVars ==
  <<placed, limit, set, start_internal, start_tehb, start_oehb, fork_C1, fork_br1,
    phi_C_full, phi_C_index, phi_C_fork, phi_i_full, phi_i_data,
    fork_i, fork_add, fork_br2, fork_C2, phi_C3_full, ret_full, buffers,
    triggered, written, acknowledged, memory, exits>>
benchVars == <<dut, vars, entryVars, loopVars>>

BenchInit ==
  /\ dut \in {"fork", "BlockEntry", "LoopCircuit"}
  /\ Init /\ entry!Init /\ loop!Init
  /\ dut # "LoopCircuit" => placed = loop!Backedges /\ limit = 1

OnlyFork  == dut = "fork" /\ UNCHANGED <<dut, entryVars, loopVars>>
OnlyEntry == dut = "BlockEntry" /\ UNCHANGED <<dut, vars, loopVars>>
OnlyLoop  == dut = "LoopCircuit" /\ UNCHANGED <<dut, vars, entryVars>>

BenchNext ==
  \/ OnlyFork /\ Next
  \/ OnlyEntry /\ entry!Next
  \/ OnlyLoop /\ loop!Next

\* The fairness of each component, while it is the one that runs.
BenchSpec ==
  /\ BenchInit /\ [][BenchNext]_benchVars
  /\ WF_benchVars((OnlyFork /\ Next) \/ (OnlyEntry /\ entry!Next))
  /\ \A i \in Outputs : WF_benchVars(OnlyFork /\ Serves(i))
  /\ WF_benchVars(OnlyLoop /\ loop!Cycle(TRUE, TRUE, TRUE))

\* The k-th token of every live-in comes from the predecessor whose control
\* token came k-th, and is that predecessor's next one: however the channels
\* are delayed, the values that meet in the block belong together.
SameIteration == entry!SameIteration

\* The circuit computes what the program does, in program order.
StoresInProgramOrder == loop!StoresInProgramOrder

\* Wherever buffers sit, the caller gets one return, and not before the last
\* store is in the memory.
ExitsOnceAndLast == loop!ExitsOnceAndLast

\* Whatever channel is late, the entry of a block does not block: in the end all
\* tokens of both predecessors have gone through.  The circuit of the loop
\* returns, and in the end no token is left in it: none is stuck behind a fork,
\* and none was duplicated.
EventuallyDrained ==
  /\ dut = "BlockEntry" => entry!EventuallyAllPassed
  /\ dut = "LoopCircuit" => loop!EventuallyDrained
===============================================================================
