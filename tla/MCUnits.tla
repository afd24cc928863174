-------------------------------- MODULE MCUnits --------------------------------
(***************************************************************************)
(* What computes: a pipelined unit of each kind, and a unit several         *)
(* operations share.  One of them, dut, runs; the other stays in an initial *)
(* state.                                                                   *)
(***************************************************************************)
EXTENDS pipelined_op

CONSTANTS SHARERS, Ordering, Runs, FIFO_DEPTH

VARIABLES
  dut,
  tehb_full, tehb_data, Memory, Head_, Tail_, Full, Empty, reg_current_index,
  sel_fork, left_full, left_data, right_full, right_data, unit_valid, unit_data,
  cond_valid, cond_data, dist_full, dist_data,
  ran, lefts, rights, shared_results                         \* FunctionSharing

MCUnits ==
  {mul_op, fadd_op, fsub_op, fmul_op, fdiv_op, udiv_op, sdiv_op, srem_op, urem_op,
   fcmp_oeq_op, fcmp_ogt_op, fcmp_oge_op, fcmp_olt_op, fcmp_ole_op, fcmp_one_op,
   sqrtf_op, expf_op, logf_op, sitofp_op}

\* Block 0 holds two of the sharing operations and runs twice, block 1 the third.
MCOrdering == [b \in 0 .. 1 |-> IF b = 0 THEN <<1, 0>> ELSE <<2>>]
MCRuns == [b \in 0 .. 1 |-> IF b = 0 THEN 2 ELSE 1]

sharing == INSTANCE FunctionSharing WITH results <- shared_results

ASSUME BenchAssumption == sharing!SharingAssumption

sharingVars ==
  <<tehb_full, tehb_data, Memory, Head_, Tail_, Full, Empty, reg_current_index,
    sel_fork, left_full, left_data, right_full, right_data, unit_valid, unit_data,
    cond_valid, cond_data, dist_full, dist_data, ran, lefts, rights, shared_results>>
benchVars == <<dut, vars, sharingVars>>

BenchInit ==
  /\ dut \in {"pipelined_op", "FunctionSharing"}
  /\ Init /\ sharing!Init
  /\ dut # "pipelined_op" => unit = mul_op /\ ~squared

OnlyUnit    == dut = "pipelined_op" /\ UNCHANGED <<dut, sharingVars>>
OnlySharing == dut = "FunctionSharing" /\ UNCHANGED <<dut, vars>>

BenchNext == (OnlyUnit /\ Next) \/ (OnlySharing /\ sharing!Next)

\* The fairness of each component, while it is the one that runs.
BenchSpec ==
  /\ BenchInit /\ [][BenchNext]_benchVars
  /\ WF_benchVars(OnlyUnit /\ Flows)
  /\ WF_benchVars(OnlySharing /\ sharing!Next)

\* Each sharer gets the results of its own operands, in order: left and right
\* operands of one execution meet in the unit, and the distributor hands the
\* result to the sharer they came from.
OwnResults == sharing!OwnResults

\* All operands come out as results: of a unit alone, squared only if it has an
\* OEHB; of a shared unit, at every operation and every execution of its block.
EventuallyServed ==
  <>(IF dut = "FunctionSharing" THEN sharing!Served ELSE Delivered)
================================================================================
