--------------------------- MODULE FunctionSharing ---------------------------
(***************************************************************************)
(* Several operations of a circuit share one unit.  The selector brings the *)
(* operands of one of them, in the order of the blocks' announcements, to   *)
(* the unit, and its condition, through a buffer, tells the distributor     *)
(* whose result comes next.  The unit is a join and an OEHB, the smallest   *)
(* pipelined operator.                                                      *)
(*                                                                          *)
(* The k-th operand, left or right, of operation r is <<r, k>>, and so is   *)
(* its k-th result.                                                         *)
(***************************************************************************)
EXTENDS Naturals, Sequences

CONSTANTS
  SHARERS,      \* operations that share the unit, numbered from 0
  Ordering,     \* Ordering[b]: block b's shared operations, in program order
  FIFO_DEPTH,   \* 128 in the code
  Runs          \* bound: Runs[b], executions of block b

Blocks == DOMAIN Ordering
Sharers == 0 .. SHARERS - 1

\* Blocks are numbered from 0, as the inputs of the selector are.
SharingAssumption ==
  /\ SHARERS \in Nat /\ FIFO_DEPTH \in Nat \ {0} /\ Runs \in [Blocks -> Nat]
  /\ 0 \in Blocks /\ Blocks \subseteq Nat
  /\ \A b \in Blocks : Ordering[b] \in Seq(Sharers) \ {<<>>}
  /\ Sharers = UNION {{Ordering[b][i] : i \in DOMAIN Ordering[b]} : b \in Blocks}

VARIABLES
  tehb_full, tehb_data, Memory, Head_, Tail_, Full, Empty,
  reg_current_index,                    \* the input_selector
  sel_fork,                             \* the fork of its output
  left_full, left_data, right_full, right_data,   \* left_mux, right_mux
  unit_valid, unit_data,                \* the OEHB of the shared unit
  cond_valid, cond_data,                \* the buffer of the condition
  dist_full, dist_data,                 \* the TEHBs of the distributor
  ran,                                  \* ran[b]: announcements accepted
  lefts, rights,                        \* operands accepted from each sharer
  results                               \* results[r]: words given to r

selector_regs == <<tehb_full, tehb_data, Memory, Head_, Tail_, Full, Empty,
                   reg_current_index, sel_fork,
                   left_full, left_data, right_full, right_data>>
unit_regs == <<unit_valid, unit_data, cond_valid, cond_data>>
vars == <<selector_regs, unit_regs, dist_full, dist_data,
          ran, lefts, rights, results>>

NoWord == <<0, 0>>

\* Executions of operation r.
uses(r) == LET b == CHOOSE b \in Blocks : \E i \in DOMAIN Ordering[b] :
                                            Ordering[b][i] = r
           IN  Runs[b]

input_select == INSTANCE input_selector
select_fork == INSTANCE fork
  WITH SIZE <- 3, reg_value <- sel_fork, edge <- <<>>,
       Data <- {0}, Zero <- 0, NoToken <- 1
left_mux == INSTANCE mux
  WITH full_reg <- left_full, data_reg <- left_data,
       INPUTS <- SHARERS + 1, Zero <- NoWord
right_mux == INSTANCE mux
  WITH full_reg <- right_full, data_reg <- right_data,
       INPUTS <- SHARERS + 1, Zero <- NoWord
unit == INSTANCE OEHB
  WITH valid_reg <- unit_valid, data_reg <- unit_data, Zero <- <<NoWord, NoWord>>
cond_buffer == INSTANCE OEHB
  WITH valid_reg <- cond_valid, data_reg <- cond_data, Zero <- 0
dist == INSTANCE distributor
  WITH full_reg <- dist_full, data_reg <- dist_data,
       OUTPUTS <- SHARERS, Zero <- <<NoWord, NoWord>>

Init ==
  /\ input_select!Reset /\ select_fork!Reset
  /\ left_mux!Reset /\ right_mux!Reset
  /\ unit!Reset /\ cond_buffer!Reset /\ dist!Reset
  /\ ran = [b \in Blocks |-> 0]
  /\ lefts = [r \in Sharers |-> 0] /\ rights = [r \in Sharers |-> 0]
  /\ results = [r \in Sharers |-> <<>>]

\* bbPValid: the blocks that announce an execution; left, right: the sharers
\* that offer an operand; accept: those that can take a result.
Cycle(bbPValid, left, right, accept) ==
  LET condition == input_select!dataOut(bbPValid)
      selected  == input_select!valid(bbPValid)
      pLeft  == [i \in 0 .. SHARERS |->
                  IF i = 0 THEN select_fork!valid(0, selected) ELSE i - 1 \in left]
      pRight == [i \in 0 .. SHARERS |->
                  IF i = 0 THEN select_fork!valid(1, selected) ELSE i - 1 \in right]
      inLeft  == [r \in Sharers |-> IF r \in left THEN <<r, lefts[r] + 1>>
                                                  ELSE NoWord]
      inRight == [r \in Sharers |-> IF r \in right THEN <<r, rights[r] + 1>>
                                                   ELSE NoWord]
      leftValid  == left_mux!valid(condition, pLeft)
      rightValid == right_mux!valid(condition, pRight)
      \* the distributor's join
      target == cond_data
      unitReady == dist!ready(target, cond_valid)
      condReady == dist!ready(target, unit_valid)
      \* the unit's join
      joinReady == unit!ready(unitReady)
      leftReady  == joinReady /\ rightValid
      rightReady == joinReady /\ leftValid
      operands == <<left_mux!dataOut(condition, pLeft, inLeft),
                    right_mux!dataOut(condition, pRight, inRight)>>
      forkReady == [i \in 0 .. 2 |->
                     CASE i = 0 -> left_mux!readyCondition(condition, pLeft)
                       [] i = 1 -> right_mux!readyCondition(condition, pRight)
                       [] i = 2 -> cond_buffer!ready(condReady)]
      accepts == [r \in Sharers |-> r \in accept]
  IN  /\ input_select!Clock(bbPValid, select_fork!ready(forkReady))
      /\ select_fork!Clock(selected, forkReady)
      /\ left_mux!Clock(condition, pLeft, inLeft, leftReady)
      /\ right_mux!Clock(condition, pRight, inRight, rightReady)
      /\ unit!Clock(leftValid /\ rightValid, operands, unitReady)
      /\ cond_buffer!Clock(select_fork!valid(2, selected), condition, condReady)
      /\ dist!Clock(target, unit_data, unit_valid, cond_valid, accepts)
      /\ ran' = [b \in Blocks |->
           IF b \in bbPValid /\ input_select!bbInfoReady(b, bbPValid)
           THEN ran[b] + 1 ELSE ran[b]]
      /\ lefts' = [r \in Sharers |->
           IF r \in left /\ left_mux!readyData(r, condition, pLeft)
           THEN lefts[r] + 1 ELSE lefts[r]]
      /\ rights' = [r \in Sharers |->
           IF r \in right /\ right_mux!readyData(r, condition, pRight)
           THEN rights[r] + 1 ELSE rights[r]]
      /\ results' = [r \in Sharers |->
           IF r \in accept /\ dist!valid(r, target, unit_valid, cond_valid)
           THEN Append(results[r], dist!dataOut(r, unit_data))
           ELSE results[r]]

\* Bound: in one cycle each mux is offered at most one operand (it looks at
\* one only), and at most one sharer refuses a result.
AtMostOne(S) == {{}} \cup {{r} : r \in S}

Next ==
  \E bbPValid \in SUBSET {b \in Blocks : ran[b] < Runs[b]},
     left \in AtMostOne({r \in Sharers : lefts[r] < uses(r)}),
     right \in AtMostOne({r \in Sharers : rights[r] < uses(r)}),
     stalled \in AtMostOne(Sharers) :
    Cycle(bbPValid, left, right, Sharers \ stalled)

Spec == Init /\ [][Next]_vars

\* The clock runs; the circuit keeps offering operands and taking results.
FairSpec == Spec /\ WF_vars(Next)
------------------------------------------------------------------------------
\* Each sharer gets the results of its own operands, in order: left and right
\* operands of one execution meet in the unit, and the distributor hands the
\* result to the sharer they came from.
OwnResults ==
  \A r \in Sharers : \A k \in DOMAIN results[r] :
    results[r][k] = <<<<r, k>>, <<r, k>>>>

\* Every execution of every block gets its results.
Served == \A r \in Sharers : Len(results[r]) = uses(r)
EventuallyServed == <>Served
==============================================================================
