----------------------------- MODULE LoopCircuit -----------------------------
(***************************************************************************)
(* A whole circuit, as the elastic pass builds it from the function         *)
(*                                                                          *)
(*     i = 0; do { a[i] = i; i = i + 1; } while (i < limit); return;        *)
(*                                                                          *)
(* block 1   start_node, fork_C1 to the constant 0, to the constant TRUE of *)
(*           its branch condition (forked by fork_br1) and to branch_C1;    *)
(*           branch_i1 sends the constant to block 2                        *)
(* block 2   cntrlMerge phi_C and mux phi_i at the entry; fork_i to the     *)
(*           store's address and datum and to the adder; fork_add to the    *)
(*           comparison and to branch_i2; fork_br2 spreads the comparison   *)
(*           to branch_i2 and branch_C2; fork_C2 triggers the store and     *)
(*           feeds join_C2, which holds the control token back from         *)
(*           branch_C2 until the memory node acknowledges the store         *)
(* block 3   a one-input merge phi_C3 and the return                        *)
(*                                                                          *)
(* Both back edges carry an elasticBuffer.  Further buffers may sit on any  *)
(* of the other channels listed here, but on none from or to the memory     *)
(* node: the buffer placement leaves these out.  The entities of the store, *)
(* of the memory node and of the exit (smc_store_op, SMC, end_node_op) are  *)
(* not in the repository: a store takes its trigger at once, writes when it *)
(* has its operands, and the node acknowledges after any number of cycles.  *)
(***************************************************************************)
EXTENDS Naturals, Sequences

CONSTANTS
  MaxLimit,    \* bound: iterations of the loop
  Places       \* channels that may be buffered, a subset of Optional

Optional == {"phi_C", "phi_i", "cond", "addr", "i_br", "br", "sync"}
Backedges == {"back_C", "back_i"}
Channels == Optional \cup Backedges

CircuitAssumption == MaxLimit \in Nat \ {0} /\ Places \subseteq Optional

VARIABLES
  placed, limit,                      \* this circuit, and the bound it runs to
  set, start_internal, start_tehb, start_oehb,    \* start_node
  fork_C1, fork_br1,                  \* block 1
  phi_C_full, phi_C_index, phi_C_fork,
  phi_i_full, phi_i_data,
  fork_i, fork_add, fork_br2, fork_C2,   \* block 2
  phi_C3_full, ret_full,              \* block 3
  buffers,                            \* registers of the buffer on a channel
  triggered, written,                 \* store: its trigger came, it wrote
  acknowledged,                       \* memory node: the write is acknowledged
  memory,                             \* the words stored, in their order
  exits                               \* returns the caller took

wires == <<set, start_internal, start_tehb, start_oehb, fork_C1, fork_br1, phi_C_full,
           phi_C_index, phi_C_fork, phi_i_full, phi_i_data, fork_i, fork_add,
           fork_br2, fork_C2, phi_C3_full, ret_full, buffers>>
vars == <<placed, limit, wires, triggered, written, acknowledged, memory, exits>>

\* Words are the values of i; a control token, and what an unused data wire
\* carries, is 0; the words of a condition are BOOLEANs.
startBuff == INSTANCE elasticBuffer WITH edge <- <<>>, Data <- {0}, Zero <- 0,
  NoToken <- 1, tehb_full <- start_tehb, oehb_valid <- start_oehb,
  tehb_data <- 0, oehb_data <- 0
eagerFork(SIZE, reg_value) == INSTANCE fork
  WITH edge <- <<>>, Data <- {0}, Zero <- 0, NoToken <- 1
br == INSTANCE join WITH SIZE <- 2
phi_C == INSTANCE cntrlMerge WITH
  full_reg <- phi_C_full, index_reg <- phi_C_index, fork_reg <- phi_C_fork
phi_i == INSTANCE mux WITH
  full_reg <- phi_i_full, data_reg <- phi_i_data, INPUTS <- 3, Zero <- 0
\* A merge of one input is a TEHB.
phi_C3 == INSTANCE TEHB WITH full_reg <- phi_C3_full, data_reg <- 0, Zero <- 0
ret == INSTANCE TEHB WITH full_reg <- ret_full, data_reg <- 0, Zero <- 0
joined(SIZE) == INSTANCE join
tehb(c) == INSTANCE TEHB WITH
  full_reg <- buffers[c][1], data_reg <- buffers[c][2], Zero <- 0
oehb(c) == INSTANCE OEHB WITH
  valid_reg <- buffers[c][3], data_reg <- buffers[c][4], Zero <- 0

\* entity branch: joins a datum (input 0) and a condition (input 1) and sends the
\* datum to output 0 if the condition holds, else to output 1.
selects(i, condition) == (i = 0) = condition
\* Mutant: the token is offered to both outputs.
branch_valid_Both(i, condition, pValid) == br!valid(pValid)
branch_valid(i, condition, pValid) == selects(i, condition) /\ br!valid(pValid)
branchReady(condition, nReady) == IF condition THEN nReady[0] ELSE nReady[1]
branch_ready(i, condition, pValid, nReady) ==
  br!ready(i, pValid, branchReady(condition, nReady))

\* start_node: the caller's start wire, high for any number of cycles, becomes one
\* token in the startBuff, a cycle later.
starts(pValid) == pValid /\ ~set
start_Clock(pValid, nReady) ==
  /\ start_internal' = starts(pValid)
  /\ set' = (set \/ pValid)
  /\ startBuff!Clock(start_internal, 0, nReady)
\* A channel: a buffer if one is placed, a wire if not.
validOn(c, pValid) == IF c \in placed THEN buffers[c][3] ELSE pValid
dataOn(c, dataIn) == IF c \in placed THEN buffers[c][4] ELSE dataIn
readyOn(c, nReady) == IF c \in placed THEN tehb(c)!ready ELSE nReady

buffer_next(c, pValid, dataIn, nReady) ==
  IF c \notin placed THEN buffers[c] ELSE
  LET r == oehb(c)!ready(nReady)
      v == tehb(c)!valid(pValid)
      d == tehb(c)!dataOut(dataIn)
  IN  <<tehb(c)!full_next(pValid, r), tehb(c)!data_next(pValid, dataIn, r),
        oehb(c)!valid_next(v, nReady), oehb(c)!data_next(v, d, nReady)>>

Pair(a, b) == [k \in 0 .. 1 |-> IF k = 0 THEN a ELSE b]
Triple(a, b, c) == [k \in 0 .. 2 |-> CASE k = 0 -> a [] k = 1 -> b [] k = 2 -> c]

Init ==
  /\ placed \in {Backedges \cup P : P \in SUBSET Places}
  /\ limit \in 1 .. MaxLimit
  /\ set = FALSE /\ start_internal = FALSE
  /\ start_tehb = FALSE /\ start_oehb = FALSE
  /\ fork_C1 = Triple(TRUE, TRUE, TRUE) /\ fork_br1 = Pair(TRUE, TRUE)
  /\ phi_C!Reset /\ phi_i!Reset
  /\ fork_i = Triple(TRUE, TRUE, TRUE) /\ fork_add = Pair(TRUE, TRUE)
  /\ fork_br2 = Pair(TRUE, TRUE) /\ fork_C2 = Pair(TRUE, TRUE)
  /\ phi_C3_full = FALSE /\ ret_full = FALSE
  /\ buffers = [c \in Channels |-> IF c = "br" THEN <<FALSE, FALSE, FALSE, FALSE>>
                                              ELSE <<FALSE, 0, FALSE, 0>>]
  /\ triggered = FALSE /\ written = FALSE /\ acknowledged = FALSE
  /\ memory = <<>>
  /\ exits = 0

\* The valid wires of block 1, which depend on its registers only.
branch_C1_in ==
  Pair(eagerFork(3, fork_C1)!valid(2, startBuff!valid),
       eagerFork(2, fork_br1)!valid(1, eagerFork(3, fork_C1)!valid(1, startBuff!valid)))
branch_i1_in ==
  Pair(eagerFork(3, fork_C1)!valid(0, startBuff!valid),
       eagerFork(2, fork_br1)!valid(0, eagerFork(3, fork_C1)!valid(1, startBuff!valid)))

\* The control inputs of block 2.
phi_C_in == Pair(branch_valid(0, TRUE, branch_C1_in), validOn("back_C", FALSE))

\* Mutant: the memory node is not connected to the join.
join_C2_in_NoAck(c2) == Pair(eagerFork(2, fork_C2)!valid(0, c2), TRUE)
\* What the control token waits for before it leaves block 2.
join_C2_in(c2) == Pair(eagerFork(2, fork_C2)!valid(0, c2), acknowledged)

(***************************************************************************)
(* One clock cycle: pStart is the caller's start wire, accept its readiness *)
(* for the return, answer whether the memory acknowledges.  First the valid *)
(* and data wires, forward; then the ready wires, backward.                 *)
(***************************************************************************)
Cycle(pStart, accept, answer) ==
  LET \* block 2, forward
      c2     == validOn("phi_C", phi_C!valid(0, phi_C_in))
      cond   == dataOn("cond", phi_C!condition(phi_C_in))
      phi_i_in == Triple(validOn("cond", phi_C!valid(1, phi_C_in)),
                         branch_valid(0, TRUE, branch_i1_in),
                         validOn("back_i", FALSE))
      phi_i_words == Pair(0, dataOn("back_i", 0))
      iValid == validOn("phi_i", phi_i!valid(cond, phi_i_in))
      i      == dataOn("phi_i", phi_i!dataOut(cond, phi_i_in, phi_i_words))
      store_in == Triple(validOn("addr", eagerFork(3, fork_i)!valid(0, iValid)),
                         eagerFork(3, fork_i)!valid(1, iValid), triggered)
      address == dataOn("addr", i)
      sum    == eagerFork(3, fork_i)!valid(2, iValid)
      again  == i + 1 < limit
      test   == eagerFork(2, fork_add)!valid(0, sum)
      branch_i2_in == Pair(validOn("i_br", eagerFork(2, fork_add)!valid(1, sum)),
                           eagerFork(2, fork_br2)!valid(0, test))
      synced == joined(2)!valid(join_C2_in(c2))
      branch_C2_in == Pair(validOn("sync", synced),
                           validOn("br", eagerFork(2, fork_br2)!valid(1, test)))
      againC == dataOn("br", again)
      \* block 3, forward
      c3     == phi_C3!valid(branch_valid(1, againC, branch_C2_in))
      \* backward
      branch_C2_out == Pair(readyOn("back_C", FALSE), phi_C3!ready)
      branch_i2_out == Pair(readyOn("back_i", FALSE), TRUE)
      syncReady == branch_ready(0, againC, branch_C2_in, branch_C2_out)
      fork_C2_out == Pair(joined(2)!ready(0, join_C2_in(c2), readyOn("sync", syncReady)), TRUE)
      brReady == branch_ready(1, againC, branch_C2_in, branch_C2_out)
      fork_br2_out == Pair(branch_ready(1, again, branch_i2_in, branch_i2_out),
                           readyOn("br", brReady))
      i_brReady == branch_ready(0, again, branch_i2_in, branch_i2_out)
      fork_add_out == Pair(eagerFork(2, fork_br2)!ready(fork_br2_out),
                           readyOn("i_br", i_brReady))
      addrReady == joined(3)!ready(0, store_in, ~written)
      fork_i_out == Triple(readyOn("addr", addrReady),
                           joined(3)!ready(1, store_in, ~written),
                           eagerFork(2, fork_add)!ready(fork_add_out))
      fork_iReady == eagerFork(3, fork_i)!ready(fork_i_out)
      condReady == phi_i!readyCondition(cond, phi_i_in)
      fork_C2Ready == eagerFork(2, fork_C2)!ready(fork_C2_out)
      phi_C_out == Pair(readyOn("phi_C", fork_C2Ready), readyOn("cond", condReady))
      branch_C1_out == Pair(phi_C!ready, TRUE)
      branch_i1_out == Pair(phi_i!readyData(0, cond, phi_i_in), TRUE)
      fork_br1_out == Pair(branch_ready(1, TRUE, branch_i1_in, branch_i1_out),
                           branch_ready(1, TRUE, branch_C1_in, branch_C1_out))
      fork_C1_out == Triple(branch_ready(0, TRUE, branch_i1_in, branch_i1_out),
                            eagerFork(2, fork_br1)!ready(fork_br1_out),
                            branch_ready(0, TRUE, branch_C1_in, branch_C1_out))
      stores == joined(3)!valid(store_in) /\ ~written
      acked == acknowledged /\ joined(2)!ready(1, join_C2_in(c2), readyOn("sync", syncReady))
  IN  /\ start_Clock(pStart, eagerFork(3, fork_C1)!ready(fork_C1_out))
      /\ eagerFork(3, fork_C1)!Clock(startBuff!valid, fork_C1_out)
      /\ eagerFork(2, fork_br1)!Clock(eagerFork(3, fork_C1)!valid(1, startBuff!valid),
                                     fork_br1_out)
      /\ phi_C!Clock(phi_C_in, phi_C_out)
      /\ phi_i!Clock(cond, phi_i_in, phi_i_words, readyOn("phi_i", fork_iReady))
      /\ eagerFork(3, fork_i)!Clock(iValid, fork_i_out)
      /\ eagerFork(2, fork_add)!Clock(sum, fork_add_out)
      /\ eagerFork(2, fork_br2)!Clock(test, fork_br2_out)
      /\ eagerFork(2, fork_C2)!Clock(c2, fork_C2_out)
      /\ phi_C3_full' = phi_C3!full_next(branch_valid(1, againC, branch_C2_in),
                                               ret!ready)
      /\ ret_full' = ret!full_next(c3, accept)
      /\ buffers' = [c \in Channels |->
           CASE c = "phi_C"  -> buffer_next(c, phi_C!valid(0, phi_C_in), 0,
                                            fork_C2Ready)
             [] c = "cond"   -> buffer_next(c, phi_C!valid(1, phi_C_in),
                                  phi_C!condition(phi_C_in), condReady)
             [] c = "phi_i"  -> buffer_next(c, phi_i!valid(cond, phi_i_in),
                                  phi_i!dataOut(cond, phi_i_in, phi_i_words),
                                  fork_iReady)
             [] c = "addr"   -> buffer_next(c, eagerFork(3, fork_i)!valid(0, iValid),
                                            i, addrReady)
             [] c = "i_br"   -> buffer_next(c, eagerFork(2, fork_add)!valid(1, sum),
                                            i + 1, i_brReady)
             [] c = "br"     -> buffer_next(c, eagerFork(2, fork_br2)!valid(1, test),
                                            again, brReady)
             [] c = "sync"   -> buffer_next(c, synced, 0, syncReady)
             [] c = "back_C" -> buffer_next(c, branch_valid(0, againC, branch_C2_in),
                                            0, phi_C!ready)
             [] c = "back_i" -> buffer_next(c, branch_valid(0, again, branch_i2_in),
                                  dataOn("i_br", i + 1),
                                  phi_i!readyData(1, cond, phi_i_in))]
      /\ triggered' = (eagerFork(2, fork_C2)!valid(1, c2) \/ (triggered /\ ~stores))
      /\ written' = (stores \/ (written /\ ~acked))
      /\ acknowledged' = (((written /\ answer) \/ acknowledged) /\ ~acked)
      /\ memory' = IF stores THEN Append(memory, <<address, i>>) ELSE memory
      /\ exits' = IF ret!valid(c3) /\ accept THEN exits + 1 ELSE exits
      /\ UNCHANGED <<placed, limit>>

Next == \E pStart, accept, answer \in BOOLEAN : Cycle(pStart, accept, answer)

Spec == Init /\ [][Next]_vars

\* The clock runs; the caller starts the circuit and waits for its return, and
\* the memory answers.
Fairness == WF_vars(Cycle(TRUE, TRUE, TRUE))

FairSpec == Spec /\ Fairness
------------------------------------------------------------------------------
\* The circuit computes what the program does, in program order.
StoresInProgramOrder ==
  /\ Len(memory) <= limit
  /\ \A k \in DOMAIN memory : memory[k] = <<k - 1, k - 1>>

\* Wherever buffers sit, the caller gets one return, and not before the last
\* store is in the memory.
ExitsOnceAndLast == exits <= 1 /\ (exits = 1 => Len(memory) = limit)

\* The circuit returns, and in the end no token is left in it: none is stuck
\* behind a fork, and none was duplicated.
Drained ==
  /\ exits = 1
  /\ ~start_internal /\ ~startBuff!valid /\ ~start_tehb
  /\ ~triggered /\ ~written /\ ~acknowledged
  /\ ~phi_C_full /\ ~phi_i_full /\ ~phi_C3_full /\ ~ret_full
  /\ \A c \in placed : ~buffers[c][1] /\ ~buffers[c][3]
  /\ \A k \in 0 .. 1 : fork_br1[k] /\ fork_add[k] /\ fork_br2[k] /\ fork_C2[k]
                       /\ phi_C_fork[k]
  /\ \A k \in 0 .. 2 : fork_C1[k] /\ fork_i[k]

EventuallyDrained == <>[]Drained
==============================================================================
