----------------------------- MODULE pipelined_op -----------------------------
(***************************************************************************)
(* The pipelined units: mul_op, and the ones around a vendor's core.  A     *)
(* join of the operands feeds a data pipeline, which has no valid bits, and *)
(* next to it a delay_buffer that carries them; both have the same enable.  *)
(* In some units an OEHB holds the last valid bit and the pipeline stops    *)
(* only while that is set and refused; in the others the consumer's ready   *)
(* wire enables the whole pipeline.                                         *)
(*                                                                          *)
(* The result goes to a consumer of any pace, or squared: through a fork to *)
(* both inputs of a join.  The k-th pair of operands, and its result, is k; *)
(* 0 stands for what the data wires carry when no operands come.            *)
(***************************************************************************)
EXTENDS Naturals, Sequences

CONSTANTS
  Units,       \* units to instantiate
  MaxTokens    \* bound: pairs of operands

VARIABLES
  unit,        \* the unit of this circuit
  squared,     \* its consumer is the fork and the join
  p,           \* registers of the data pipeline, the last drives the output
  regs,        \* registers of the delay_buffer
  valid_reg,   \* register of the OEHB
  fork_reg,    \* registers of the fork
  asked,       \* operands taken
  results      \* results handed over

vars == <<unit, squared, p, regs, valid_reg, fork_reg, asked, results>>

\* Edges from operands to result of a vendor's core.
Core(NUM_STAGE) == NUM_STAGE - 1

\* The units, by the lengths of their pipelines.
mul_op   == [inputs |-> 2, latency |-> 4, SIZE |-> 3, oehb |-> TRUE]
fadd_op  == [inputs |-> 2, latency |-> Core(10), SIZE |-> 8, oehb |-> TRUE]
fsub_op  == [inputs |-> 2, latency |-> Core(10), SIZE |-> 8, oehb |-> TRUE]
fmul_op  == [inputs |-> 2, latency |-> Core(6), SIZE |-> 4, oehb |-> TRUE]
fdiv_op  == [inputs |-> 2, latency |-> Core(30), SIZE |-> 28, oehb |-> TRUE]
udiv_op  == [inputs |-> 2, latency |-> Core(36), SIZE |-> 35, oehb |-> FALSE]
sdiv_op  == [inputs |-> 2, latency |-> Core(36), SIZE |-> 35, oehb |-> FALSE]
srem_op  == [inputs |-> 2, latency |-> Core(36), SIZE |-> 35, oehb |-> FALSE]
urem_op  == [inputs |-> 2, latency |-> Core(36), SIZE |-> 35, oehb |-> FALSE]
fcmp_oeq_op == [inputs |-> 2, latency |-> Core(2), SIZE |-> 1, oehb |-> FALSE]
fcmp_ogt_op == [inputs |-> 2, latency |-> Core(2), SIZE |-> 1, oehb |-> FALSE]
fcmp_oge_op == [inputs |-> 2, latency |-> Core(2), SIZE |-> 1, oehb |-> FALSE]
fcmp_olt_op == [inputs |-> 2, latency |-> Core(2), SIZE |-> 1, oehb |-> FALSE]
fcmp_ole_op == [inputs |-> 2, latency |-> Core(2), SIZE |-> 1, oehb |-> FALSE]
fcmp_one_op == [inputs |-> 2, latency |-> Core(2), SIZE |-> 1, oehb |-> FALSE]
sqrtf_op  == [inputs |-> 1, latency |-> Core(28), SIZE |-> 27, oehb |-> FALSE]
expf_op   == [inputs |-> 1, latency |-> Core(18), SIZE |-> 17, oehb |-> FALSE]
logf_op   == [inputs |-> 1, latency |-> Core(19), SIZE |-> 18, oehb |-> FALSE]
sitofp_op == [inputs |-> 1, latency |-> Core(6), SIZE |-> 5, oehb |-> FALSE]

\* In every unit the valid bits take as many edges as the data.
Matched(u) == u.latency = u.SIZE + (IF u.oehb THEN 1 ELSE 0)

ASSUME UnitsAssumption ==
  /\ \A u \in Units :
       /\ u \in [inputs : {1, 2}, latency : Nat, SIZE : Nat \ {0}, oehb : BOOLEAN]
       /\ Matched(u)
  /\ MaxTokens \in Nat

Stages == 1 .. unit.latency
Bits == 0 .. unit.SIZE - 1
Operands == 0 .. unit.inputs - 1

operands == INSTANCE join WITH SIZE <- unit.inputs
oehb == INSTANCE OEHB WITH data_reg <- 0, Zero <- 0
fork_result == INSTANCE fork
  WITH SIZE <- 2, reg_value <- fork_reg, edge <- <<>>,
       Data <- {0}, Zero <- 0, NoToken <- 1
square == INSTANCE join WITH SIZE <- 2

valid == IF unit.oehb THEN valid_reg ELSE regs[unit.SIZE - 1]
dataOut == p[unit.latency]

\* What the pipelines are enabled by.
enable(nReady) == IF unit.oehb THEN oehb!ready(nReady) ELSE nReady

\* Mutant: the core has no enable.
core_Free(dataIn, ce) ==
  [s \in Stages |-> IF s = 1 THEN dataIn ELSE p[s - 1]]
core(dataIn, ce) ==
  IF ~ce THEN p ELSE [s \in Stages |-> IF s = 1 THEN dataIn ELSE p[s - 1]]

\* Mutant: a stalled buffer lets its last bit go.
delay_buffer_Leaks(valid_in, ready_in) ==
  [i \in Bits |-> IF ~ready_in THEN i # unit.SIZE - 1 /\ regs[i]
                  ELSE IF i = 0 THEN valid_in ELSE regs[i - 1]]
delay_buffer(valid_in, ready_in) ==
  IF ~ready_in THEN regs
  ELSE [i \in Bits |-> IF i = 0 THEN valid_in ELSE regs[i - 1]]

Init ==
  /\ unit \in Units /\ squared \in BOOLEAN
  /\ p = [s \in Stages |-> 0]
  /\ regs = [i \in Bits |-> FALSE]
  /\ valid_reg = FALSE
  /\ fork_reg = [i \in 0 .. 1 |-> TRUE]
  /\ asked = 0
  /\ results = <<>>

\* offered: the operands that are there; accept: the consumer's ready wire.
Cycle(offered, accept) ==
  LET pValid == [i \in Operands |-> i \in offered]
      all == operands!valid(pValid)
      dataIn == IF all THEN asked + 1 ELSE 0
      copies == [i \in 0 .. 1 |-> fork_result!valid(i, valid)]
      copiesReady == [i \in 0 .. 1 |-> square!ready(i, copies, accept)]
      nReady == IF squared THEN fork_result!ready(copiesReady) ELSE accept
      given == (IF squared THEN square!valid(copies) ELSE valid) /\ accept
      ce == enable(nReady)
      takes == \A i \in Operands : i \in offered /\ operands!ready(i, pValid, ce)
  IN  /\ p' = core(dataIn, ce)
      /\ regs' = delay_buffer(all, ce)
      /\ valid_reg' = IF unit.oehb
                      THEN oehb!valid_next(regs[unit.SIZE - 1], nReady) ELSE FALSE
      /\ fork_reg' = [i \in 0 .. 1 |-> IF squared
                        THEN fork_result!reg_in(i, valid, copiesReady) ELSE TRUE]
      /\ asked' = IF takes THEN asked + 1 ELSE asked
      /\ results' = IF given THEN Append(results, dataOut) ELSE results
      /\ UNCHANGED <<unit, squared>>

Offers == IF asked < MaxTokens THEN SUBSET Operands ELSE {{}}

Next == \E offered \in Offers, accept \in BOOLEAN : Cycle(offered, accept)

Spec == Init /\ [][Next]_vars

\* The clock runs, operands come, and the consumer is ready again and again.
Flows == Cycle(IF asked < MaxTokens THEN Operands ELSE {}, TRUE)

FairSpec == Spec /\ WF_vars(Flows)
------------------------------------------------------------------------------
\* The valid bit that belongs to a stage of the data pipeline.
Held(s) == IF s <= unit.SIZE THEN regs[s - 1] ELSE valid_reg

\* A stage's bit is set exactly if the operands in it were taken: data and
\* valid bits move together, however often the pipelines stall.
ResultsAligned == \A s \in Stages : Held(s) <=> p[s] # 0

\* Results come in the order of their operands, each once.
ResultsInOrder == \A k \in DOMAIN results : results[k] = k

\* All operands come out as results; squared, only if the unit has an OEHB.
Delivered == unit.oehb \/ ~squared => Len(results) = MaxTokens
EventuallyDelivered == <>Delivered

\* A unit without one never takes an operand if its consumers wait for each
\* other's copy of the result: each is ready only when the result is there,
\* and the pipeline moves only when they are ready.
SquareStuck == squared /\ ~unit.oehb => asked = 0
==============================================================================
