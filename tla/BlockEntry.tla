----------------------------- MODULE BlockEntry -----------------------------
(***************************************************************************)
(* The entry of a basic block with two predecessors, as the elastic pass    *)
(* builds it: a cntrlMerge takes the control token of the predecessor that  *)
(* ran, and its condition, forked, steers one mux per live-in value.        *)
(* Tokens come early or late, each channel at a pace of its own.            *)
(*                                                                          *)
(* The k-th token of predecessor s on any channel is <<s, k>>.  The control *)
(* inputs are never valid together, as one control token circulates.        *)
(***************************************************************************)
EXTENDS Naturals, Sequences, FiniteSets

CONSTANTS
  LIVE_INS,   \* how many live-in values the block has
  MaxTokens   \* bound: tokens each predecessor sends on each channel

EntryAssumption ==
  LIVE_INS \in Nat \ {0} /\ MaxTokens \in Nat \ {0}

Sides  == 0 .. 1
Values == 0 .. LIVE_INS - 1

VARIABLES
  cm_full, cm_index, cm_fork,  \* registers of the cntrlMerge
  cond_fork,                   \* registers of the fork of its condition
  mux_full, mux_data,          \* registers of each mux
  order,                       \* whose control tokens came, in their order
  entered,                     \* how many of them the block has received
  taken,                       \* taken[v][s]: tokens mux v took from s
  passed                       \* passed[v]: the tokens mux v handed on

circuit == <<cm_full, cm_index, cm_fork, cond_fork, mux_full, mux_data>>
vars == <<circuit, order, entered, taken, passed>>

phi_C == INSTANCE cntrlMerge
  WITH full_reg <- cm_full, index_reg <- cm_index, fork_reg <- cm_fork
fork_cond == INSTANCE fork
  WITH SIZE <- LIVE_INS, reg_value <- cond_fork, edge <- <<>>,
       Data <- {0}, Zero <- 0, NoToken <- 1
phi(v) == INSTANCE mux
  WITH full_reg <- mux_full[v], data_reg <- mux_data[v], INPUTS <- 3,
       Zero <- <<0, 0>>

Init ==
  /\ phi_C!Reset /\ fork_cond!Reset
  /\ mux_full = [v \in Values |-> FALSE]
  /\ mux_data = [v \in Values |-> <<0, 0>>]
  /\ order = <<>>
  /\ entered = 0
  /\ taken = [v \in Values |-> [s \in Sides |-> 0]]
  /\ passed = [v \in Values |-> <<>>]

\* How many of the first k control tokens predecessor s sent.
among(s, k) == Cardinality({i \in 1 .. k : order[i] = s})

sent(s) == among(s, Len(order))

(***************************************************************************)
(* One clock cycle.  control is the set of predecessors that offer a        *)
(* control token, at most one; offers[v] those that offer a token for       *)
(* live-in v; acceptControl and accept[v] tell which consumers are ready.   *)
(***************************************************************************)
Cycle(control, offers, acceptControl, accept) ==
  LET cmValid == [s \in Sides |-> s \in control]
      cond == phi_C!condition(cmValid)
      condValid == phi_C!valid(1, cmValid)
      pValid == [v \in Values |->
                  [i \in 0 .. 2 |-> IF i = 0 THEN fork_cond!valid(v, condValid)
                                             ELSE i - 1 \in offers[v]]]
      token == [v \in Values |-> [s \in Sides |->
                  IF s \in offers[v] THEN <<s, taken[v][s] + 1>> ELSE <<0, 0>>]]
      condReady == [v \in Values |-> phi(v)!readyCondition(cond, pValid[v])]
      cmReady == [i \in 0 .. 1 |-> IF i = 0 THEN acceptControl
                                            ELSE fork_cond!ready(condReady)]
      takes(v, s) == s \in offers[v] /\ phi(v)!readyData(s, cond, pValid[v])
      passes(v) == phi(v)!valid(cond, pValid[v]) /\ accept[v]
  IN  /\ phi_C!Clock(cmValid, cmReady)
      /\ fork_cond!Clock(condValid, condReady)
      /\ mux_full' = [v \in Values |->
                       phi(v)!full_next(cond, pValid[v], accept[v])]
      /\ mux_data' = [v \in Values |->
                       phi(v)!data_next(cond, pValid[v], token[v], accept[v])]
      /\ order' = IF phi_C!ready /\ control # {}
                  THEN Append(order, CHOOSE s \in control : TRUE) ELSE order
      /\ entered' = entered +
                      (IF phi_C!valid(0, cmValid) /\ acceptControl THEN 1 ELSE 0)
      /\ taken' = [v \in Values |-> [s \in Sides |->
                     taken[v][s] + (IF takes(v, s) THEN 1 ELSE 0)]]
      /\ passed' = [v \in Values |->
                     IF passes(v)
                     THEN Append(passed[v],
                                 phi(v)!dataOut(cond, pValid[v], token[v]))
                     ELSE passed[v]]

\* What the predecessors may still offer.
ControlOffers == {{}} \cup {{s} : s \in {t \in Sides : sent(t) < MaxTokens}}
DataOffers(v) == SUBSET {s \in Sides : taken[v][s] < MaxTokens}

Next ==
  \E control \in ControlOffers, offers \in [Values -> SUBSET Sides],
     acceptControl \in BOOLEAN, accept \in [Values -> BOOLEAN] :
    /\ \A v \in Values : offers[v] \in DataOffers(v)
    /\ Cycle(control, offers, acceptControl, accept)

Spec == Init /\ [][Next]_vars

\* The clock runs; predecessors keep sending and the block keeps accepting.
FairSpec == Spec /\ WF_vars(Next)
------------------------------------------------------------------------------
\* The token that belongs to the k-th control token.
Expected(k) == <<order[k], among(order[k], k)>>

\* The k-th token of every live-in comes from the predecessor whose control
\* token came k-th, and is that predecessor's next one: however the channels
\* are delayed, the values that meet in the block belong together.
SameIteration ==
  \A v \in Values : \A k \in DOMAIN passed[v] :
    k <= Len(order) /\ passed[v][k] = Expected(k)

\* Whatever channel is late, the entry does not block: in the end all tokens
\* of both predecessors have gone through.
EventuallyAllPassed ==
  <>(/\ entered = 2 * MaxTokens
     /\ \A v \in Values : Len(passed[v]) = 2 * MaxTokens)
==============================================================================
